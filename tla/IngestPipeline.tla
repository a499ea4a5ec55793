--------------------------- MODULE IngestPipeline ---------------------------
(***************************************************************************)
(* perf/test_network_ingest.cpp: a network thread that receives datagrams  *)
(* and schedules their writes through one io_uring, and a logic thread at  *)
(* the other end of a queue.  The kernel completes what was submitted in   *)
(* any order; the network thread takes completions in the order they come  *)
(* and looks at their result, not at their tag.  The queue is the bounded  *)
(* FIFO that NetworkQueue implements.  g_running is read again in every    *)
(* round, since opaque calls stand between the reads.                      *)
(***************************************************************************)
EXTENDS Integers, Sequences, FiniteSets

CONSTANTS Packets,        \* how many packets fit in g_arena
          QueueRoom,      \* elements g_queue holds
          Quota,          \* 100000: what the logic thread processes
          MaxDatagrams,   \* bound: datagrams that arrive
          MaxFailures     \* bound: waits that fail

ASSUME PipelineAssumption ==
    /\ Packets \in Nat /\ QueueRoom \in Nat \ {0}
    /\ Quota \in Nat \ {0} /\ MaxDatagrams \in Nat /\ MaxFailures \in Nat

VARIABLES n_pc, n_packet,   \* the network thread and the packet of this round
          u_pending,        \* operations submitted and not completed
          u_done,           \* completions not yet marked as seen, oldest first
          g_queue, g_running,
          processed,        \* packets the logic thread has taken
          arrived,          \* packets whose payload a datagram was received in
          failed            \* history: waits that failed

pipeVars == <<n_pc, n_packet, u_pending, u_done, g_queue, g_running, processed,
              arrived, failed>>
-----------------------------------------------------------------------------
Recv(packet)  == [tag |-> 1, packet |-> packet]
Write(packet) == [tag |-> 2, packet |-> packet]

PipeInit ==
    /\ n_pc = "loop" /\ n_packet = 0
    /\ u_pending = {} /\ u_done = <<>>
    /\ g_queue = <<>> /\ g_running = TRUE
    /\ processed = <<>> /\ arrived = {} /\ failed = 0

\* A packet from the arena and its recvmsg; a full arena makes the loop spin.
StartReceive ==
    /\ n_pc = "loop" /\ g_running /\ n_packet < Packets
    /\ n_packet' = n_packet + 1
    /\ u_pending' = u_pending \cup {Recv(n_packet + 1)}
    /\ n_pc' = "wait"
    /\ UNCHANGED <<u_done, g_queue, g_running, processed, arrived, failed>>

StopReceive ==
    /\ n_pc = "loop" /\ ~g_running
    /\ n_pc' = "exit"
    /\ UNCHANGED <<n_packet, u_pending, u_done, g_queue, g_running, processed,
                   arrived, failed>>

Completes(op, ok) ==
    /\ u_pending' = u_pending \ {op}
    /\ u_done' = Append(u_done, [op |-> op, ok |-> ok])
    /\ UNCHANGED <<n_pc, n_packet, g_queue, g_running, processed, failed>>

\* The kernel: a datagram for a receive, the end of a write, or a failure.
KernelReceives(packet, ok) ==
    /\ Recv(packet) \in u_pending
    /\ ok => Cardinality(arrived) < MaxDatagrams
    /\ Completes(Recv(packet), ok)
    /\ arrived' = IF ok THEN arrived \cup {packet} ELSE arrived

KernelWrites(packet, ok) ==
    /\ Write(packet) \in u_pending
    /\ Completes(Write(packet), ok)
    /\ UNCHANGED arrived

\* Mutant: no write is scheduled for the packet.
PacketTakenUnwritten ==
    /\ n_pc = "wait" /\ u_done # <<>> /\ Head(u_done).ok
    /\ n_pc' = "enqueue"
    /\ UNCHANGED <<n_packet, u_pending, u_done, g_queue, g_running, processed,
                   arrived, failed>>

\* wait_cqe with a positive result: taken for the packet of this round, whose
\* write is submitted.
PacketTaken ==
    /\ n_pc = "wait" /\ u_done # <<>> /\ Head(u_done).ok
    /\ u_pending' = u_pending \cup {Write(n_packet)}
    /\ n_pc' = "enqueue"
    /\ UNCHANGED <<n_packet, u_done, g_queue, g_running, processed, arrived, failed>>

PacketDropped ==
    /\ n_pc = "wait" /\ u_done # <<>> /\ ~Head(u_done).ok
    /\ u_done' = Tail(u_done)
    /\ n_pc' = "loop"
    /\ UNCHANGED <<n_packet, u_pending, g_queue, g_running, processed, arrived, failed>>

\* wait_cqe fails (a signal: -EINTR): nothing is marked as seen, and the next
\* round starts while this one's receive is still pending.
WaitFails ==
    /\ n_pc = "wait" /\ failed < MaxFailures
    /\ n_pc' = "loop"
    /\ failed' = failed + 1
    /\ UNCHANGED <<n_packet, u_pending, u_done, g_queue, g_running, processed, arrived>>

\* The enqueue that succeeds, and cqe_seen; a full queue is tried again for ever.
Dispatch ==
    /\ n_pc = "enqueue" /\ Len(g_queue) < QueueRoom
    /\ g_queue' = Append(g_queue, n_packet)
    /\ u_done' = Tail(u_done)
    /\ n_pc' = "loop"
    /\ UNCHANGED <<n_packet, u_pending, g_running, processed, arrived, failed>>

\* A round of the logic thread that finds a packet.
Process ==
    /\ g_running /\ g_queue # <<>>
    /\ processed' = Append(processed, Head(g_queue))
    /\ g_queue' = Tail(g_queue)
    /\ g_running' = (Len(processed) + 1 < Quota)
    /\ UNCHANGED <<n_pc, n_packet, u_pending, u_done, arrived, failed>>

PipeNext ==
    \/ StartReceive \/ StopReceive \/ PacketTaken \/ PacketDropped
    \/ WaitFails \/ Dispatch
    \/ \E packet \in 1 .. n_packet, ok \in BOOLEAN :
          KernelReceives(packet, ok) \/ KernelWrites(packet, ok)
    \/ Process

PipeSpec == PipeInit /\ [][PipeNext]_pipeVars
-----------------------------------------------------------------------------
\* Types of the pipeline's variables.
PipeTypeOK ==
    /\ n_pc \in {"loop", "wait", "enqueue", "exit"} /\ n_packet \in 0 .. Packets
    /\ u_pending \subseteq [tag : {1, 2}, packet : 1 .. Packets]
    /\ u_done \in Seq([op : [tag : {1, 2}, packet : 1 .. Packets], ok : BOOLEAN])
    /\ g_queue \in Seq(1 .. Packets) /\ Len(g_queue) <= QueueRoom
    /\ g_running \in BOOLEAN /\ processed \in Seq(1 .. Packets)
    /\ arrived \subseteq 1 .. Packets /\ failed \in Nat

\* A round submits two operations for every packet it dispatches and takes one
\* completion, and one operation and no completion when its wait fails (lines
\* 53-72), so the ring owes one more for each, whatever the kernel does: before
\* the quota of 100000 is reached the queues made for 2048 entries (line 29)
\* have to overflow.
Owed == Cardinality(u_pending) + Len(u_done)
RingOwes ==
    Owed = Len(g_queue) + Len(processed) + failed
             + (CASE n_pc = "wait" -> 1 [] n_pc = "enqueue" -> 2 [] OTHER -> 0)

\* "[LOGIC] Processado & Persistido" (line 89), after "1. Receber da Rede" and
\* "2. Agendar Escrita em Disco" (lines 49 and 63): what the logic thread takes
\* has been received.
ProcessedArrived == \A n \in 1 .. Len(processed) : processed[n] \in arrived
=============================================================================
