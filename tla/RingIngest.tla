----------------------------- MODULE RingIngest -----------------------------
(***************************************************************************)
(* src/main.cpp composed with the ring: one thread receives datagrams and  *)
(* writes each into the ring for five minutes, reading nothing back; then  *)
(* it reads the ring until read() returns false and exports what it read.  *)
(*                                                                         *)
(* One thread sees its own stores, so both of its index loads are exact.   *)
(* A recv with nothing to read changes nothing and is a stuttering step.   *)
(***************************************************************************)
EXTENDS RingBuffer

CONSTANTS IdMod,       \* 2^32: packet ids are uint32_t, the counter uint64_t
          MaxPackets   \* bound: datagrams that arrive in the five minutes

ASSUME IngestAssumption ==
    /\ IdMod \in Nat /\ Capacity <= IdMod
    /\ MaxPackets \in Nat
    /\ {n % IdMod : n \in 0 .. MaxPackets} \subseteq Ids

VARIABLES pc,          \* "recv", "write", "drain" or "done"
          elapsed,     \* five minutes have passed
          count,       \* datagrams received
          dropped      \* datagrams the ring refused

ingestVars == <<vars, pc, elapsed, count, dropped>>

exported == Len(delivered)
-----------------------------------------------------------------------------
IngestInit == Init /\ pc = "recv" /\ elapsed = FALSE /\ count = 0 /\ dropped = 0

\* Mutants: a refused datagram is not counted; a full ring gives up its oldest
\* record to make room; the drain polls an empty ring again.
ReceiveUncounted ==
    /\ pc = "recv" /\ ~elapsed /\ count < MaxPackets
    /\ \E len \in Lens : WriteClaim(count % IdMod, len, TRUE, Len(m_read_idx))
    /\ IF w_pc' = "idle"
         THEN dropped' = dropped + 1 /\ UNCHANGED <<pc, count>>
         ELSE pc' = "write" /\ UNCHANGED <<count, dropped>>
    /\ dropped < MaxPackets
    /\ UNCHANGED elapsed

ReceiveMakingRoom ==
    /\ pc = "recv" /\ ~elapsed /\ count < MaxPackets
    /\ IF Full(Newest(m_write_idx), Newest(m_read_idx))
         THEN /\ m_read_idx' = Append(m_read_idx, (Newest(m_read_idx) + 1) % IndexMod)
              /\ dropped' = dropped + 1 /\ count' = count + 1
              /\ UNCHANGED <<m_slots, producerVars, r_pc, r_out, r_acq, delivered, pc>>
         ELSE /\ \E len \in Lens : WriteClaim(count % IdMod, len, TRUE, Len(m_read_idx))
              /\ pc' = "write" /\ UNCHANGED <<count, dropped>>
    /\ UNCHANGED elapsed

DrainPolling ==
    /\ pc = "drain"
    /\ ReadClaim(Len(m_write_idx)) \/ ReadHeader \/ ReadPayload \/ ReadRelease
    /\ UNCHANGED <<pc, elapsed, count, dropped>>

\* recv returns a datagram and ring.write is called; a refused datagram is
\* counted and received again into the same buffer.
Receive ==
    /\ pc = "recv" /\ ~elapsed /\ count < MaxPackets
    /\ \E len \in Lens : WriteClaim(count % IdMod, len, TRUE, Len(m_read_idx))
    /\ IF w_pc' = "idle"
         THEN dropped' = dropped + 1 /\ count' = count + 1 /\ UNCHANGED pc
         ELSE pc' = "write" /\ UNCHANGED <<count, dropped>>
    /\ UNCHANGED elapsed

\* The rest of ring.write, up to its return of true.
Record ==
    /\ pc = "write"
    /\ WriteHeader \/ WritePayload \/ WritePublish
    /\ IF w_pc' = "idle"
         THEN pc' = "recv" /\ count' = count + 1
         ELSE UNCHANGED <<pc, count>>
    /\ UNCHANGED <<elapsed, dropped>>

\* The steady clock passes 300 s at any point of the loop.
ClockPasses ==
    /\ ~elapsed
    /\ elapsed' = TRUE
    /\ UNCHANGED <<vars, pc, count, dropped>>

\* if (elapsed >= 300) break, at the top of every iteration.
StopReceiving ==
    /\ pc = "recv" /\ elapsed
    /\ pc' = "drain"
    /\ UNCHANGED <<vars, elapsed, count, dropped>>

\* while (ring.read(slot)) export it.
Drain ==
    /\ pc = "drain"
    /\ ReadClaim(Len(m_write_idx)) \/ ReadHeader \/ ReadPayload \/ ReadRelease
    /\ pc' = IF r_pc = "idle" /\ r_pc' = "idle" THEN "done" ELSE "drain"
    /\ UNCHANGED <<elapsed, count, dropped>>

IngestNext == Receive \/ Record \/ ClockPasses \/ StopReceiving \/ Drain

\* The clock passes five minutes, and the one thread keeps running.
IngestFairness ==
    /\ WF_ingestVars(ClockPasses)
    /\ WF_ingestVars(Record \/ StopReceiving \/ Drain)

IngestSpec == IngestInit /\ [][IngestNext]_ingestVars /\ IngestFairness
-----------------------------------------------------------------------------
\* Once the program reports (lines 74-76) every datagram it received is either
\* exported or counted as dropped, whatever refused calls came in between.
ReportAddsUp == pc = "done" => exported + dropped = count

\* The export is the oldest datagrams, whole and without a gap: with no reader
\* during ingest the ring keeps the first Capacity of them and nothing later
\* (lines 39-61 and 67-72).
ExportsOldest ==
    pc = "done" =>
        /\ exported = IF count < Capacity THEN count ELSE Capacity
        /\ \A i \in 1 .. exported :
              /\ delivered[i].packet_id = i - 1
              /\ \A b \in 1 .. delivered[i].payload_len :
                    delivered[i].payload[b] = i - 1

\* The first refusal is final: after it no datagram is recorded any more.
RefusalIsFinal == [][dropped > 0 => UNCHANGED <<accepted, m_slots>>]_ingestVars

\* The program finishes its export (lines 42 and 67).
Finishes == pc = "recv" ~> pc = "done"
=============================================================================
