----------------------------- MODULE RingBuffer -----------------------------
(***************************************************************************)
(* core/sys/ring_buffer.hpp: the memory-mapped ring of 64-byte slots that  *)
(* records the ingested packets, shared by one producer (write) and one    *)
(* consumer (read).                                                        *)
(*                                                                         *)
(* Each call is split where the other thread can see it: the two index     *)
(* loads with the full/empty test, the copy of the header fields, the copy *)
(* of the payload, the releasing store.                                    *)
(*                                                                         *)
(* An atomic index is the sequence of the values stored to it, oldest      *)
(* first (its modification order).  A thread loads its own index exactly;  *)
(* its acquire load of the other one may return any store not older than   *)
(* the newest it has already seen.  Indices are size_t: they wrap.         *)
(*                                                                         *)
(* A payload byte is the id of the packet it came from.  A caller may pass *)
(* no data: then nothing is copied and the slot keeps its old bytes.       *)
(***************************************************************************)
EXTENDS Integers, Sequences

CONSTANTS Capacity,    \* slots
          IndexMod,    \* 2^64: indices are counted modulo this
          PayloadCap,  \* payload bytes of a slot (40)
          Lens,        \* payload lengths callers pass
          MaxRecords   \* bound: records written in a behaviour

ASSUME RingAssumption ==
    /\ Capacity \in Nat \ {0}
    /\ IndexMod \in Nat
    /\ IndexMod > Capacity /\ IndexMod % Capacity = 0  \* both powers of two
    /\ PayloadCap \in Nat
    /\ Lens \subseteq Nat
    /\ MaxRecords \in Nat

VARIABLES m_slots,     \* the mapped file
          m_write_idx, \* stores to the write index, oldest first
          m_read_idx,  \* stores to the read index, oldest first
          w_pc,        \* where the producer is in write()
          w_arg,       \* its arguments: packet id, length, whether data is non-null
          w_acq,       \* newest store to m_read_idx the producer has seen
          r_pc,        \* where the consumer is in read()
          r_out,       \* the caller's `out`
          r_acq,       \* newest store to m_write_idx the consumer has seen
          accepted,    \* history: the records of the writes that returned true
          delivered    \* history: the records the reads that returned true gave

producerVars == <<w_pc, w_arg, w_acq, m_write_idx, accepted>>
consumerVars == <<r_pc, r_out, r_acq, m_read_idx, delivered>>
vars == <<m_slots, producerVars, consumerVars>>
-----------------------------------------------------------------------------
SlotIndex == 0 .. Capacity - 1
Ids       == 0 .. MaxRecords

Slot == [packet_id   : Ids,
         payload_len : 0 .. PayloadCap,
         payload     : [1 .. PayloadCap -> Ids]]

ZeroSlot == [packet_id   |-> 0,
             payload_len |-> 0,
             payload     |-> [b \in 1 .. PayloadCap |-> 0]]

\* Mutant: the length is stored as the caller gave it.
NotTruncated(len) == len

Truncated(len) == IF len < PayloadCap THEN len ELSE PayloadCap

\* What a reader of a slot uses: the header and the first payload_len bytes.
Contents(slot) ==
    [slot EXCEPT !.payload = [b \in 1 .. slot.payload_len |-> slot.payload[b]]]

\* The record that write(id, len, data) publishes over a slot's old bytes: without
\* data its payload is the bytes of the packets that were in the slot before.
Published(arg, old) ==
    [packet_id   |-> arg.id,
     payload_len |-> Truncated(arg.len),
     payload     |-> [b \in 1 .. Truncated(arg.len) |->
                        IF arg.data THEN arg.id ELSE old[b]]]

Records == UNION {[packet_id : Ids, payload_len : {n}, payload : [1 .. n -> Ids]] :
                     n \in 0 .. PayloadCap}

Newest(stores)   == stores[Len(stores)]
Distance(to, from) == (to - from) % IndexMod
SlotOf(idx)      == idx % Capacity

\* Mutants: the test lets one record too many in; the difference of the indices
\* is not taken modulo their width; the consumer leaves the last record behind.
FullOneLate(w, r)  == Distance(w, r) > Capacity
FullUnwrapped(w, r) == w >= r + Capacity
EmptyOneEarly(r, w) == Distance(w, r) <= 1

Full(w, r)  == Distance(w, r) >= Capacity
Empty(r, w) == r = w

wslot == SlotOf(Newest(m_write_idx))
rslot == SlotOf(Newest(m_read_idx))
-----------------------------------------------------------------------------
Init ==
    /\ m_slots = [i \in SlotIndex |-> ZeroSlot]
    /\ m_write_idx = <<0>>
    /\ m_read_idx = <<0>>
    /\ w_pc = "idle" /\ w_arg = [id |-> 0, len |-> 0, data |-> TRUE]
    /\ w_acq = 1
    /\ r_pc = "idle" /\ r_out = ZeroSlot /\ r_acq = 1
    /\ accepted = <<>>
    /\ delivered = <<>>

\* write(): both loads and the test.  The acquire load returns store k of
\* m_read_idx.  A full ring makes the call return false.
WriteClaim(id, len, data, k) ==
    /\ w_pc = "idle"
    /\ k \in w_acq .. Len(m_read_idx)
    /\ w_acq' = k
    /\ IF Full(Newest(m_write_idx), m_read_idx[k])
         THEN UNCHANGED <<w_pc, w_arg>>
         ELSE w_pc' = "header" /\ w_arg' = [id |-> id, len |-> len, data |-> data]
    /\ UNCHANGED <<m_slots, m_write_idx, accepted, consumerVars>>

\* Mutant: a payload that is truncated is not copied.
WriteHeaderSkipping ==
    /\ w_pc = "header"
    /\ w_pc' = IF w_arg.len > PayloadCap THEN "publish" ELSE "payload"
    /\ m_slots' = [m_slots EXCEPT ![wslot] =
                     [packet_id   |-> w_arg.id,
                      payload_len |-> Truncated(w_arg.len),
                      payload     |-> @.payload]]
    /\ UNCHANGED <<m_write_idx, w_arg, w_acq, accepted, consumerVars>>

WriteHeader ==
    /\ w_pc = "header"
    /\ w_pc' = "payload"
    /\ m_slots' = [m_slots EXCEPT ![wslot] =
                     [packet_id   |-> w_arg.id,
                      payload_len |-> Truncated(w_arg.len),
                      payload     |-> @.payload]]
    /\ UNCHANGED <<m_write_idx, w_arg, w_acq, accepted, consumerVars>>

\* if (data): memcpy of payload_len bytes; the others keep what they held.
WritePayload ==
    /\ w_pc = "payload"
    /\ w_pc' = "publish"
    /\ m_slots' = [m_slots EXCEPT ![wslot].payload =
                     [b \in 1 .. PayloadCap |->
                        IF w_arg.data /\ b <= Truncated(w_arg.len) THEN w_arg.id ELSE @[b]]]
    /\ UNCHANGED <<m_write_idx, w_arg, w_acq, accepted, consumerVars>>

WritePublish ==
    /\ w_pc = "publish"
    /\ w_pc' = "idle"
    /\ m_write_idx' = Append(m_write_idx, (Newest(m_write_idx) + 1) % IndexMod)
    /\ accepted' = Append(accepted, Published(w_arg, m_slots[wslot].payload))
    /\ UNCHANGED <<m_slots, w_arg, w_acq, consumerVars>>

\* read(): both loads and the test.  The acquire load returns store k of
\* m_write_idx.  An empty ring makes the call return false.
ReadClaim(k) ==
    /\ r_pc = "idle"
    /\ k \in r_acq .. Len(m_write_idx)
    /\ r_acq' = k
    /\ r_pc' = IF Empty(Newest(m_read_idx), m_write_idx[k]) THEN "idle" ELSE "header"
    /\ UNCHANGED <<m_slots, r_out, m_read_idx, delivered, producerVars>>

\* out = m_slots[...]: a plain 64-byte copy, not atomic.
ReadHeader ==
    /\ r_pc = "header"
    /\ r_pc' = "payload"
    /\ r_out' = [packet_id   |-> m_slots[rslot].packet_id,
                 payload_len |-> m_slots[rslot].payload_len,
                 payload     |-> r_out.payload]
    /\ UNCHANGED <<m_slots, r_acq, m_read_idx, delivered, producerVars>>

ReadPayload ==
    /\ r_pc = "payload"
    /\ r_pc' = "release"
    /\ r_out' = [r_out EXCEPT !.payload = m_slots[rslot].payload]
    /\ UNCHANGED <<m_slots, r_acq, m_read_idx, delivered, producerVars>>

ReadRelease ==
    /\ r_pc = "release"
    /\ r_pc' = "idle"
    /\ m_read_idx' = Append(m_read_idx, (Newest(m_read_idx) + 1) % IndexMod)
    /\ delivered' = Append(delivered, Contents(r_out))
    /\ UNCHANGED <<m_slots, r_out, r_acq, producerVars>>
-----------------------------------------------------------------------------
\* Packets are numbered by the caller; here by the records accepted so far.
Write ==
    \/ /\ Len(accepted) < MaxRecords
       /\ \E len \in Lens, data \in BOOLEAN, k \in 1 .. Len(m_read_idx) :
             WriteClaim(Len(accepted) + 1, len, data, k)
    \/ WriteHeader
    \/ WritePayload
    \/ WritePublish

Read ==
    \/ \E k \in 1 .. Len(m_write_idx) : ReadClaim(k)
    \/ ReadHeader
    \/ ReadPayload
    \/ ReadRelease

Next == Write \/ Read

Spec == Init /\ [][Next]_vars

\* The consumer keeps calling read() and finishes each call; a store becomes
\* visible to a thread that keeps loading.  Nothing is assumed of the producer.
ConsumerFairness ==
    /\ WF_vars(ReadClaim(Len(m_write_idx)))
    /\ WF_vars(ReadHeader)
    /\ WF_vars(ReadPayload)
    /\ WF_vars(ReadRelease)

FairSpec == Spec /\ ConsumerFairness
-----------------------------------------------------------------------------
\* Types of every variable; the lengths of the histories follow the stores.
TypeOK ==
    /\ m_slots \in [SlotIndex -> Slot]
    /\ m_write_idx \in Seq(0 .. IndexMod - 1) /\ m_write_idx # <<>>
    /\ m_read_idx \in Seq(0 .. IndexMod - 1) /\ m_read_idx # <<>>
    /\ w_pc \in {"idle", "header", "payload", "publish"}
    /\ w_arg \in [id : Ids, len : Lens \cup {0}, data : BOOLEAN]
    /\ w_acq \in 1 .. Len(m_read_idx)
    /\ r_pc \in {"idle", "header", "payload", "release"}
    /\ r_out \in Slot
    /\ r_acq \in 1 .. Len(m_write_idx)
    /\ accepted \in Seq(Records)
    /\ delivered \in Seq(Records)

\* No data race on a slot (lines 65-74, 80-83): the two threads are never in
\* the same slot at once; the producer reuses a slot only after acquiring the
\* store that released the record it held Capacity writes ago; the consumer
\* copies a slot only after acquiring the store that published it.
Writing == w_pc \in {"header", "payload"}
Reading == r_pc \in {"header", "payload"}
RaceFree ==
    /\ Writing /\ Reading => wslot # rslot
    /\ Writing => Len(accepted) < (w_acq - 1) + Capacity
    /\ Reading => Len(delivered) < r_acq - 1

\* size() (lines 87-90), called by the producer or by the consumer in the
\* middle of anything, returns a number of records between 0 and Capacity,
\* whatever stale value its load of the other thread's index returns.
SizeBounded ==
    /\ \A k \in w_acq .. Len(m_read_idx) :
          Distance(Newest(m_write_idx), m_read_idx[k]) <= Capacity
    /\ \A k \in r_acq .. Len(m_write_idx) :
          Distance(m_write_idx[k], Newest(m_read_idx)) <= Capacity

\* The ring implements the bounded FIFO: a record becomes visible whole at the
\* store of line 74, with the caller's bytes if it passed any (line 72), and
\* leaves whole and in order at the store of line 83.
Fifo == INSTANCE BoundedFifo WITH
            Record <- Records, sent <- accepted, got <- delivered
ImplementsFifo == Fifo!Spec

\* Every record a write accepted is eventually read (lines 78-85).
AllDelivered ==
    \A n \in 1 .. MaxRecords : Len(accepted) >= n ~> Len(delivered) >= n
=============================================================================
