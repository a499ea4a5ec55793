-------------------------- MODULE RingIngestProofs --------------------------
(***************************************************************************)
(* Proofs about RingIngest: main() drives the ring from one thread, so the *)
(* ring's own invariant holds at its every step, and with it what the      *)
(* program's counters and its export say.                                  *)
(***************************************************************************)
EXTENDS RingIngest, RingBufferProofs

\* Where main() is: nothing is read before the drain, which ends when the ring
\* is empty, and a call of write() is under way only between two datagrams.
IngestPhase ==
    /\ pc \in {"recv", "write", "drain", "done"}
    /\ count \in 0 .. MaxPackets /\ dropped \in Nat
    /\ pc = "write" <=> w_pc # "idle"
    /\ pc \in {"recv", "write"} => Got = 0 /\ r_pc = "idle"
    /\ pc = "done" => Got = Put

\* Every datagram went into the ring or was refused, and none is refused before
\* the ring is full for good.
IngestCounts ==
    /\ Put + dropped = count /\ Put <= Capacity
    /\ dropped > 0 => Put = Capacity
    /\ pc = "write" =>
          /\ dropped = 0 /\ Put < Capacity /\ count < MaxPackets
          /\ w_arg.id = count % IdMod /\ w_arg.data

\* The record's header and its every byte carry this id.
IsDatagram(rec, id) ==
    rec.packet_id = id /\ \A b \in 1 .. rec.payload_len : rec.payload[b] = id

\* The ring was given the oldest datagrams, without a gap.
IngestOldest == \A k \in 1 .. Put : IsDatagram(accepted[k], k - 1)

IngestIInv == IInv /\ IngestPhase /\ IngestCounts /\ IngestOldest
-----------------------------------------------------------------------------
(* What the proofs use of the assumptions on the constants. *)
LEMMA IngestConstants ==
    /\ Capacity \in Nat \ {0} /\ IdMod \in Nat \ {0} /\ Capacity <= IdMod
    /\ MaxPackets \in Nat
    /\ \A n \in 0 .. MaxPackets : n % IdMod \in Ids
<1>1. Capacity \in Nat \ {0}
  BY Constants
<1> QED BY <1>1, IngestAssumption, SMT

(* The program starts in the invariant. *)
LEMMA InitIngest == IngestInit => IngestIInv
<1> SUFFICES ASSUME IngestInit PROVE IngestIInv
  OBVIOUS
<1>1. IInv /\ Put = 0 /\ Got = 0
  BY InitIInv DEF IngestInit, Init, Put, Got
<1>2. w_pc = "idle" /\ r_pc = "idle" /\ pc = "recv" /\ count = 0 /\ dropped = 0
  BY DEF IngestInit, Init
<1> HIDE DEF Put, Got
<1>3. IngestPhase
  BY <1>1, <1>2, IngestConstants, SMT DEF IngestPhase
<1>4. IngestCounts
  BY <1>1, <1>2, IngestConstants, SMT DEF IngestCounts
<1>5. IngestOldest
  BY <1>1, SMT DEF IngestOldest
<1> QED BY <1>1, <1>3, <1>4, <1>5 DEF IngestIInv

(* A refused datagram finds the ring full; one that is taken finds room.     *)
LEMMA ReceiveIngest ==
    ASSUME IngestIInv, Receive
    PROVE  IngestIInv' /\ UNCHANGED <<accepted, m_slots>>
<1>1. PICK len \in Lens : WriteClaim(count % IdMod, len, TRUE, Len(m_read_idx))
  BY DEF Receive
<1>2. /\ pc = "recv" /\ count \in 0 .. MaxPackets /\ count < MaxPackets
      /\ Got = 0 /\ r_pc = "idle" /\ w_pc = "idle" /\ dropped \in Nat
      /\ Put + dropped = count /\ Put <= Capacity /\ (dropped > 0 => Put = Capacity)
  BY DEF Receive, IngestIInv, IngestPhase, IngestCounts
<1>3. IInv /\ IngestOldest /\ count % IdMod \in Ids
  BY <1>2, IngestConstants DEF IngestIInv
<1>4. IInv'
  BY <1>1, <1>3, WriteClaimIInv
<1>5. /\ UNCHANGED <<m_slots, accepted, delivered, r_pc>> /\ Put' = Put /\ Got' = Got
  BY <1>1 DEF WriteClaim, consumerVars, Put, Got
<1>6. /\ Put \in Nat /\ Len(m_read_idx) = 1 /\ Len(m_read_idx) \in w_acq .. Len(m_read_idx)
  <2>1. /\ Put \in Nat /\ Len(m_read_idx) = 1 /\ w_acq \in Int /\ w_acq - 1 <= 0
    BY <1>2, <1>3, CountsType, SMT
  <2> QED BY <2>1, SMT
<1>7. Full(Newest(m_write_idx), m_read_idx[Len(m_read_idx)]) <=> Put >= Capacity
  <2>1. Distance(Newest(m_write_idx), m_read_idx[Len(m_read_idx)])
          = Put - (Len(m_read_idx) - 1)
    BY <1>3, <1>6, FullIsFull
  <2>2. Put - (Len(m_read_idx) - 1) = Put
    BY <1>6, SMT
  <2> QED BY <2>1, <2>2 DEF Full
<1>8. CASE Put >= Capacity
  <2>1. w_pc' = "idle" /\ pc' = "recv" /\ dropped' = dropped + 1 /\ count' = count + 1
    BY <1>1, <1>2, <1>7, <1>8 DEF WriteClaim, Receive
  <2> HIDE DEF Put, Got
  <2>2. IngestPhase' /\ IngestCounts'
    BY <1>2, <1>5, <1>6, <1>8, <2>1, IngestConstants, SMT DEF IngestPhase, IngestCounts
  <2>3. IngestOldest'
    BY <1>3, <1>5 DEF IngestOldest, IsDatagram
  <2> QED BY <1>4, <1>5, <2>2, <2>3 DEF IngestIInv
<1>9. CASE ~(Put >= Capacity)
  <2>1. /\ w_pc' = "header" /\ w_arg' = [id |-> count % IdMod, len |-> len, data |-> TRUE]
        /\ pc' = "write" /\ UNCHANGED <<count, dropped>>
    BY <1>1, <1>2, <1>7, <1>9 DEF WriteClaim, Receive
  <2>2. w_arg'.id = count % IdMod /\ w_arg'.data
    BY <2>1
  <2> HIDE DEF Put, Got
  <2>3. IngestPhase' /\ IngestCounts'
    BY <1>2, <1>5, <1>6, <1>9, <2>1, <2>2, IngestConstants, SMT
    DEF IngestPhase, IngestCounts
  <2>4. IngestOldest'
    BY <1>3, <1>5 DEF IngestOldest, IsDatagram
  <2> QED BY <1>4, <1>5, <2>3, <2>4 DEF IngestIInv
<1> QED BY <1>8, <1>9

(* The rest of write() puts the datagram in the ring as the next record.     *)
LEMMA RecordIngest ==
    ASSUME IngestIInv, Record
    PROVE  IngestIInv' /\ dropped = 0
<1>1. /\ IInv /\ IngestOldest /\ pc = "write" /\ w_pc # "idle" /\ dropped = 0
      /\ dropped' = dropped /\ count \in 0 .. MaxPackets /\ count < MaxPackets
      /\ Got = 0 /\ r_pc = "idle" /\ Put + dropped = count /\ Put < Capacity
      /\ w_arg.id = count % IdMod /\ w_arg.data
  BY DEF Record, IngestIInv, IngestPhase, IngestCounts
<1>2. Put \in Nat /\ Capacity \in Nat
  BY <1>1, CountsType, IngestConstants
<1>3. CASE WriteHeader \/ WritePayload
  <2>1. IInv'
    BY <1>1, <1>3, WriteHeaderIInv, WritePayloadIInv
  <2>2. /\ UNCHANGED <<accepted, delivered, r_pc, w_arg>> /\ w_pc' # "idle"
        /\ Put' = Put /\ Got' = Got
    BY <1>3 DEF WriteHeader, WritePayload, consumerVars, Put, Got
  <2>3. UNCHANGED <<pc, count>>
    BY <2>2 DEF Record
  <2> HIDE DEF Put, Got
  <2>4. IngestPhase' /\ IngestCounts'
    BY <1>1, <1>2, <2>2, <2>3 DEF IngestIInv, IngestPhase, IngestCounts
  <2>5. IngestOldest'
    BY <1>1, <2>2 DEF IngestOldest, IsDatagram
  <2> QED BY <1>1, <2>1, <2>4, <2>5 DEF IngestIInv
<1>4. CASE WritePublish
  <2> DEFINE rec == Published(w_arg, m_slots[wslot].payload)
  <2>1. IInv'
    BY <1>1, <1>4, WritePublishIInv
  <2>2. /\ accepted' = Append(accepted, rec) /\ UNCHANGED <<delivered, r_pc>>
        /\ w_pc' = "idle" /\ Got' = Got
    BY <1>4 DEF WritePublish, consumerVars, Got
  <2>3. pc' = "recv" /\ count' = count + 1
    BY <2>2 DEF Record
  <2>4. w_arg.id = Put
    <3>1. count = Put /\ Put < IdMod /\ IdMod \in Nat \ {0} /\ Put \in Nat
      BY <1>1, <1>2, IngestConstants, SMT
    <3> HIDE DEF Put
    <3>2. Put % IdMod = Put
      BY <3>1, SMT
    <3> QED BY <1>1, <3>1, <3>2
  <2>5. IsDatagram(rec, Put)
    BY <1>1, <2>4 DEF IsDatagram, Published
  <2>6. accepted \in Seq(Records) /\ accepted' \in Seq(Records)
    BY <1>1, <2>1 DEF IInv, TypeOK
  <2> HIDE DEF rec
  <2>7. /\ Put' = Put + 1 /\ accepted'[Put + 1] = rec
        /\ \A k \in 1 .. Put : accepted'[k] = accepted[k]
    BY <2>2, <2>6, SMT DEF Put
  <2> HIDE DEF Put, Got
  <2>8. IngestOldest'
    <3> SUFFICES ASSUME NEW k \in 1 .. Put + 1 PROVE IsDatagram(accepted'[k], k - 1)
      BY <2>7 DEF IngestOldest, IsDatagram
    <3>1. CASE k = Put + 1
      <4>1. k - 1 = Put
        BY <3>1, <1>2, SMT
      <4> QED BY <4>1, <3>1, <2>5, <2>7
    <3>2. CASE k \in 1 .. Put
      BY <3>2, <1>1, <2>7 DEF IngestOldest
    <3> QED BY <3>1, <3>2, <1>2, SMT
  <2>9. IngestPhase' /\ IngestCounts'
    BY <1>1, <1>2, <2>2, <2>3, <2>7, IngestConstants, SMT DEF IngestPhase, IngestCounts
  <2> QED BY <1>1, <2>1, <2>8, <2>9 DEF IngestIInv
<1> QED BY <1>3, <1>4 DEF Record

(* The clock and the end of the loop leave the ring alone. *)
LEMMA StopIngest ==
    ASSUME IngestIInv, ClockPasses \/ StopReceiving \/ UNCHANGED ingestVars
    PROVE  IngestIInv' /\ UNCHANGED <<accepted, m_slots>>
<1>1. /\ UNCHANGED <<m_slots, m_write_idx, m_read_idx, w_pc, w_arg, w_acq,
                     r_pc, r_out, r_acq, accepted, delivered, count, dropped>>
      /\ pc' = pc \/ (pc = "recv" /\ pc' = "drain")
  BY DEF ClockPasses, StopReceiving, ingestVars, vars, producerVars, consumerVars
<1>2. IInv' /\ Put' = Put /\ Got' = Got
  BY <1>1 DEF IngestIInv, IInv, TypeOK, Counts, Order, Resident, Written, Copied,
              Intact, Put, Got
<1> HIDE DEF Put, Got
<1>3. IngestPhase' /\ IngestCounts' /\ IngestOldest'
  BY <1>1, <1>2 DEF IngestIInv, IngestPhase, IngestCounts, IngestOldest, IsDatagram
<1> QED BY <1>1, <1>2, <1>3 DEF IngestIInv

(* The drain takes records out, and ends only when none is left. *)
LEMMA DrainIngest ==
    ASSUME IngestIInv, Drain
    PROVE  IngestIInv' /\ UNCHANGED <<accepted, m_slots>>
<1>1. /\ IInv /\ IngestOldest /\ pc = "drain" /\ w_pc = "idle"
      /\ UNCHANGED <<count, dropped>>
      /\ pc' = IF r_pc = "idle" /\ r_pc' = "idle" THEN "done" ELSE "drain"
  BY DEF Drain, IngestIInv, IngestPhase
<1>2. IInv' /\ UNCHANGED <<accepted, m_slots, w_pc>> /\ Put' = Put
  <2>1. IInv'
    <3>1. \/ ReadClaim(Len(m_write_idx)) \/ ReadHeader \/ ReadPayload \/ ReadRelease
      BY DEF Drain
    <3>2. CASE ReadClaim(Len(m_write_idx))
      BY <1>1, <3>2, ReadClaimIInv
    <3>3. CASE ReadHeader
      BY <1>1, <3>3, ReadHeaderIInv
    <3>4. CASE ReadPayload
      BY <1>1, <3>4, ReadPayloadIInv
    <3>5. CASE ReadRelease
      BY <1>1, <3>5, ReadReleaseIInv
    <3> QED BY <3>1, <3>2, <3>3, <3>4, <3>5
  <2>2. UNCHANGED <<accepted, m_slots, w_pc>>
    BY DEF Drain, ReadClaim, ReadHeader, ReadPayload, ReadRelease, producerVars
  <2> QED BY <2>1, <2>2 DEF Put
<1>3. ASSUME pc' = "done" PROVE Got' = Put
  <2>1. r_pc = "idle" /\ r_pc' = "idle"
    BY <1>1, <1>3
  <2>2. ReadClaim(Len(m_write_idx)) /\ Empty(Newest(m_read_idx), m_write_idx[Len(m_write_idx)])
    BY <2>1 DEF Drain, ReadClaim, ReadHeader, ReadPayload, ReadRelease
  <2>3. Got = Len(m_write_idx) - 1
    BY <1>1, <2>2, EmptyIsEmpty DEF ReadClaim
  <2>4. Len(m_write_idx) = Put + 1 /\ Put \in Nat
    BY <1>1, CountsType
  <2>5. Got' = Got
    BY <2>2 DEF ReadClaim, Got
  <2> HIDE DEF Put, Got
  <2> QED BY <2>3, <2>4, <2>5, SMT
<1> HIDE DEF Put, Got
<1>4. IngestPhase' /\ IngestCounts'
  BY <1>1, <1>2, <1>3 DEF IngestIInv, IngestPhase, IngestCounts
<1>5. IngestOldest'
  BY <1>1, <1>2 DEF IngestOldest, IsDatagram
<1> QED BY <1>2, <1>4, <1>5 DEF IngestIInv

(* Each step of main() keeps the invariant and refuses nothing but for good. *)
LEMMA IngestStep ==
    ASSUME IngestIInv, [IngestNext]_ingestVars
    PROVE  IngestIInv' /\ (dropped > 0 => UNCHANGED <<accepted, m_slots>>)
<1>1. CASE Record
  BY <1>1, RecordIngest, SMT
<1> QED BY <1>1, ReceiveIngest, StopIngest, DrainIngest DEF IngestNext
-----------------------------------------------------------------------------
(* The invariant holds in every reachable state of the program. *)
THEOREM IngestInvariance == IngestSpec => []IngestIInv
<1>1. IngestIInv /\ [IngestNext]_ingestVars => IngestIInv'
  BY IngestStep
<1> QED BY InitIngest, <1>1, PTL DEF IngestSpec

(* What the program reports adds up, for any ring and any number of refused *)
(* datagrams: exported plus dropped is received (lines 74-76).              *)
THEOREM ReportIsTrue == IngestSpec => []ReportAddsUp
<1>1. ASSUME IngestIInv PROVE ReportAddsUp
  <2> SUFFICES ASSUME pc = "done" PROVE exported + dropped = count
    BY DEF ReportAddsUp
  <2>1. Got = Put /\ Put + dropped = count
    BY <1>1 DEF IngestIInv, IngestPhase, IngestCounts
  <2> QED BY <2>1 DEF exported, Got
<1> QED BY IngestInvariance, <1>1, PTL

(* The export is the first datagrams, whole and in order, as many as the    *)
(* ring has slots (lines 39-61 and 67-72).                                  *)
THEOREM ExportIsOldest == IngestSpec => []ExportsOldest
<1>1. ASSUME IngestIInv PROVE ExportsOldest
  <2> SUFFICES ASSUME pc = "done"
               PROVE  /\ exported = IF count < Capacity THEN count ELSE Capacity
                      /\ \A i \in 1 .. exported : IsDatagram(delivered[i], i - 1)
    BY DEF ExportsOldest, IsDatagram
  <2>1. /\ IInv /\ IngestOldest /\ Got = Put /\ Put + dropped = count
        /\ Put <= Capacity /\ (dropped > 0 => Put = Capacity) /\ dropped \in Nat
    BY <1>1 DEF IngestIInv, IngestPhase, IngestCounts
  <2>2. Put \in Nat /\ Capacity \in Nat /\ exported = Put
    BY <2>1, CountsType, IngestConstants DEF exported, Got
  <2>3. \A i \in 1 .. Put : delivered[i] = accepted[i]
    BY <2>1 DEF IInv, Intact
  <2> HIDE DEF Put, Got
  <2>4. Put = IF count < Capacity THEN count ELSE Capacity
    BY <2>1, <2>2, SMT
  <2> QED BY <2>1, <2>2, <2>3, <2>4 DEF IngestOldest
<1> QED BY IngestInvariance, <1>1, PTL

(* The first refusal is final: nothing is read during ingest, so a full     *)
(* ring stays full and records nothing any more (lines 52-57).              *)
THEOREM RefusalStays == IngestSpec => RefusalIsFinal
<1>1. IngestIInv /\ [IngestNext]_ingestVars
        => [dropped > 0 => UNCHANGED <<accepted, m_slots>>]_ingestVars
  BY IngestStep
<1> QED BY IngestInvariance, <1>1, PTL DEF IngestSpec, RefusalIsFinal
=============================================================================
