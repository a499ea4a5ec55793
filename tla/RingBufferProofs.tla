-------------------------- MODULE RingBufferProofs --------------------------
(***************************************************************************)
(* Proofs about RingBuffer for every capacity, index width, payload size   *)
(* and number of records.  The indices wrap, so the invariant speaks of    *)
(* the two histories, whose lengths do not: the stores of an index are the *)
(* wrapped lengths, and each test of the code is shown to be the test of   *)
(* the true counts (FullIsFull, EmptyIsEmpty).                             *)
(***************************************************************************)
EXTENDS RingBuffer, SharedLemmas

Put == Len(accepted)
Got == Len(delivered)

\* The stores of each index are the counts, wrapped.
Counts ==
    /\ Len(m_write_idx) = Put + 1
    /\ Len(m_read_idx) = Got + 1
    /\ \A k \in 1 .. Put + 1 : m_write_idx[k] = (k - 1) % IndexMod
    /\ \A k \in 1 .. Got + 1 : m_read_idx[k] = (k - 1) % IndexMod

\* What each thread has acquired is behind the other and not too far behind.
Order ==
    /\ Got <= r_acq - 1
    /\ Put <= (w_acq - 1) + Capacity
    /\ w_pc # "idle" => Put < (w_acq - 1) + Capacity /\ w_arg.len \in Lens
    /\ r_pc # "idle" => Got < r_acq - 1

\* A published record stays whole in its slot until it is released.
Resident ==
    \A k \in Got + 1 .. Put : Contents(m_slots[(k - 1) % Capacity]) = accepted[k]

\* What the producer has written so far of the record in progress.
Written ==
    LET slot == m_slots[Put % Capacity]
    IN  /\ w_pc \in {"payload", "publish"} =>
              /\ slot.packet_id = w_arg.id
              /\ slot.payload_len = Truncated(w_arg.len)
        /\ w_pc = "publish" /\ w_arg.data =>
              \A b \in 1 .. Truncated(w_arg.len) : slot.payload[b] = w_arg.id

\* What the consumer has copied so far of the record in progress.
Copied ==
    LET slot == m_slots[Got % Capacity]
    IN  /\ r_pc \in {"payload", "release"} =>
              /\ r_out.packet_id = slot.packet_id
              /\ r_out.payload_len = slot.payload_len
        /\ r_pc = "release" => r_out.payload = slot.payload

\* The reads that returned gave the accepted records, in order.
Intact == \A k \in 1 .. Got : delivered[k] = accepted[k]

IInv == TypeOK /\ Counts /\ Order /\ Resident /\ Written /\ Copied /\ Intact
-----------------------------------------------------------------------------
(* What the proofs use of the assumption on the constants. *)
LEMMA Constants ==
    /\ Capacity \in Nat \ {0} /\ IndexMod \in Nat \ {0}
    /\ Capacity < IndexMod /\ IndexMod % Capacity = 0
    /\ PayloadCap \in Nat /\ Lens \subseteq Nat /\ MaxRecords \in Nat
BY RingAssumption, SMT

(* A truncated length fits the payload of a slot. *)
LEMMA TruncatedType ==
    ASSUME NEW len \in Nat
    PROVE  Truncated(len) \in 0 .. PayloadCap
BY Constants, SMT DEF Truncated

(* The counts are naturals, and the ring never holds more than Capacity. *)
LEMMA CountsType ==
    ASSUME IInv
    PROVE  /\ Put \in Nat /\ Got \in Nat /\ Put \in Int /\ Got \in Int
           /\ w_acq \in Int /\ r_acq \in Int /\ 1 <= w_acq /\ 1 <= r_acq
           /\ w_acq - 1 <= Got /\ Got <= r_acq - 1 /\ r_acq - 1 <= Put
           /\ Put - (w_acq - 1) <= Capacity /\ Put - Got <= Capacity
           /\ Len(m_read_idx) = Got + 1 /\ Len(m_write_idx) = Put + 1
<1>1. Put \in Nat /\ Got \in Nat
  BY DEF IInv, TypeOK, Put, Got
<1>2. w_acq \in 1 .. Got + 1 /\ r_acq \in 1 .. Put + 1
  BY DEF IInv, TypeOK, Counts
<1>3. /\ Got <= r_acq - 1 /\ Put <= (w_acq - 1) + Capacity
      /\ Len(m_read_idx) = Got + 1 /\ Len(m_write_idx) = Put + 1
  BY DEF IInv, Order, Counts
<1> QED BY <1>1, <1>2, <1>3, Constants, SMT

(* Masked indices are the counts modulo Capacity. *)
LEMMA SlotsOfCounts ==
    ASSUME IInv
    PROVE  /\ wslot = Put % Capacity /\ wslot \in SlotIndex
           /\ rslot = Got % Capacity /\ rslot \in SlotIndex
           /\ Newest(m_write_idx) = Put % IndexMod
           /\ Newest(m_read_idx) = Got % IndexMod
<1>1. Put \in Nat /\ Got \in Nat /\ Put \in Int /\ Got \in Int
  BY CountsType, SMT
<1>2. Newest(m_write_idx) = Put % IndexMod
  <2>1. Put + 1 \in 1 .. Put + 1 /\ (Put + 1) - 1 = Put
    BY <1>1, SMT
  <2> QED BY <2>1 DEF IInv, Counts, Newest
<1>3. Newest(m_read_idx) = Got % IndexMod
  <2>1. Got + 1 \in 1 .. Got + 1 /\ (Got + 1) - 1 = Got
    BY <1>1, SMT
  <2> QED BY <2>1 DEF IInv, Counts, Newest
<1>4. (Put % IndexMod) % Capacity = Put % Capacity
  BY <1>1, Constants, RemainderOfRemainder
<1>5. (Got % IndexMod) % Capacity = Got % Capacity
  BY <1>1, Constants, RemainderOfRemainder
<1>6. Put % Capacity \in SlotIndex /\ Got % Capacity \in SlotIndex
  BY <1>1, Constants, RemainderRange DEF SlotIndex
<1> QED BY <1>2, <1>3, <1>4, <1>5, <1>6 DEF wslot, rslot, SlotOf

(* The test of line 66 is exact: a write is refused when the store it     *)
(* acquired leaves no room, whatever the wrap of the two indices.          *)
LEMMA FullIsFull ==
    ASSUME IInv, NEW k \in w_acq .. Len(m_read_idx)
    PROVE  Distance(Newest(m_write_idx), m_read_idx[k]) = Put - (k - 1)
<1>0. k \in w_acq .. Got + 1
  BY CountsType
<1>1. /\ Put \in Int /\ Got \in Int /\ k \in Int /\ k \in 1 .. Got + 1
      /\ k - 1 <= Put /\ Put - (k - 1) <= Capacity
  BY <1>0, CountsType, Constants, SMTT(30)
<1>2. m_read_idx[k] = (k - 1) % IndexMod
  BY <1>1 DEF IInv, Counts
<1>3. Put - (k - 1) < IndexMod /\ k - 1 \in Int
  BY <1>1, Constants, SMT
<1>4. ((Put % IndexMod) - ((k - 1) % IndexMod)) % IndexMod = Put - (k - 1)
  <2> DEFINE j == k - 1
  <2>1. j \in Int /\ j <= Put /\ Put - j < IndexMod
    BY <1>1, <1>3
  <2> HIDE DEF j
  <2>2. ((Put % IndexMod) - (j % IndexMod)) % IndexMod = Put - j
    BY <2>1, <1>1, Constants, WrappedDifference
  <2> QED BY <2>2 DEF j
<1> QED BY <1>2, <1>4, SlotsOfCounts DEF Distance

(* The number of records size() computes for the consumer is exact too. *)
LEMMA SizeIsExact ==
    ASSUME IInv, NEW k \in r_acq .. Len(m_write_idx)
    PROVE  Distance(m_write_idx[k], Newest(m_read_idx)) = (k - 1) - Got
<1>0. k \in r_acq .. Put + 1
  BY CountsType
<1>1. /\ Put \in Int /\ Got \in Int /\ k \in Int /\ k \in 1 .. Put + 1
      /\ Got <= k - 1 /\ (k - 1) - Got <= Capacity
  BY <1>0, CountsType, Constants, SMTT(30)
<1>2. m_write_idx[k] = (k - 1) % IndexMod
  BY <1>1 DEF IInv, Counts
<1>3. (((k - 1) % IndexMod) - (Got % IndexMod)) % IndexMod = (k - 1) - Got
  <2> DEFINE j == k - 1
  <2>1. j \in Int /\ Got <= j /\ j - Got < IndexMod
    BY <1>1, Constants, SMT
  <2> HIDE DEF j
  <2>2. ((j % IndexMod) - (Got % IndexMod)) % IndexMod = j - Got
    BY <2>1, <1>1, Constants, WrappedDifference
  <2> QED BY <2>2 DEF j
<1> QED BY <1>2, <1>3, SlotsOfCounts DEF Distance

(* The test of line 81 is exact: equal wrapped indices are equal counts. *)
LEMMA EmptyIsEmpty ==
    ASSUME IInv, NEW k \in r_acq .. Len(m_write_idx)
    PROVE  Empty(Newest(m_read_idx), m_write_idx[k]) <=> Got = k - 1
<1>0. k \in r_acq .. Put + 1
  BY CountsType
<1>1. /\ Put \in Int /\ Got \in Int /\ k \in Int /\ k \in 1 .. Put + 1
      /\ Got <= k - 1 /\ (k - 1) - Got <= Capacity
  BY <1>0, CountsType, Constants, SMTT(30)
<1>2. m_write_idx[k] = (k - 1) % IndexMod
  BY <1>1 DEF IInv, Counts
<1>3. Got < k - 1 => Got % IndexMod # (k - 1) % IndexMod
  <2> DEFINE j == k - 1
  <2>1. j \in Int /\ j - Got < IndexMod
    BY <1>1, Constants, SMT
  <2> HIDE DEF j
  <2>2. Got < j => Got % IndexMod # j % IndexMod
    BY <2>1, <1>1, Constants, RemainderInjective
  <2> QED BY <2>2 DEF j
<1>4. Got = k - 1 \/ Got < k - 1
  BY <1>1, SMT
<1> QED BY <1>1, <1>2, <1>3, <1>4, SlotsOfCounts, SMT DEF Empty

(* A producer past its test is in a slot that holds no unread record. *)
LEMMA SlotIsFree ==
    ASSUME IInv, w_pc # "idle", NEW n \in Nat, Got <= n, n < Put
    PROVE  n % Capacity # Put % Capacity
<1>1. Put < (w_acq - 1) + Capacity
  BY DEF IInv, Order
<1>2. Put \in Int /\ n \in Int /\ Put - n < Capacity
  BY <1>1, CountsType, Constants, SMTT(30)
<1> QED BY <1>2, Constants, RemainderInjective

(* A record and a slot with the same three fields are the same. *)
LEMMA SlotExtensional ==
    ASSUME NEW s \in Slot, NEW t \in Slot,
           s.packet_id = t.packet_id, s.payload_len = t.payload_len,
           s.payload = t.payload
    PROVE  s = t
BY SMT DEF Slot

(* A slot after write() reads back as the record the call publishes. *)
LEMMA FilledSlot ==
    ASSUME NEW s \in Slot, NEW arg \in [id : Ids, len : Lens, data : BOOLEAN],
           s.packet_id = arg.id, s.payload_len = Truncated(arg.len),
           arg.data => \A b \in 1 .. Truncated(arg.len) : s.payload[b] = arg.id
    PROVE  /\ Contents(s) = Published(arg, s.payload)
           /\ Published(arg, s.payload) \in Records
<1> DEFINE n == Truncated(arg.len)
           bytes == [b \in 1 .. n |-> IF arg.data THEN arg.id ELSE s.payload[b]]
<1>1. n \in 0 .. PayloadCap /\ PayloadCap \in Nat
  BY Constants, TruncatedType, SMT
<1>2. [b \in 1 .. n |-> s.payload[b]] = bytes
  OBVIOUS
<1>3. bytes \in [1 .. n -> Ids]
  <2>1. s.payload \in [1 .. PayloadCap -> Ids] /\ arg.id \in Ids
    BY SMT DEF Slot
  <2>2. \A b \in 1 .. n : b \in 1 .. PayloadCap
    BY <1>1, SMT
  <2> QED BY <2>1, <2>2
<1>4. Contents(s) = [packet_id |-> arg.id, payload_len |-> n,
                     payload |-> [b \in 1 .. n |-> s.payload[b]]]
  <2> HIDE DEF n
  <2>1. s.payload_len = n
    BY DEF n
  <2> QED BY <2>1, SMT DEF Contents, Slot
<1>5. Published(arg, s.payload) = [packet_id |-> arg.id, payload_len |-> n, payload |-> bytes]
  BY DEF Published
<1>6. arg.id \in Ids
  OBVIOUS
<1> HIDE DEF n, bytes
<1>7. [packet_id |-> arg.id, payload_len |-> n, payload |-> bytes] \in Records
  BY <1>1, <1>3, <1>6 DEF Records
<1> QED BY <1>2, <1>4, <1>5, <1>7

(* A producer that only touches its own slot disturbs neither the records   *)
(* still to be read nor the copy the consumer is making.                    *)
LEMMA WritingKeeps ==
    ASSUME IInv, w_pc # "idle",
           \A i \in SlotIndex : i # wslot => m_slots'[i] = m_slots[i],
           UNCHANGED <<accepted, delivered, r_pc, r_out>>
    PROVE  Resident' /\ Copied'
<1>1. Put' = Put /\ Got' = Got /\ Put \in Int /\ Got \in Nat
  BY CountsType DEF Put, Got
<1>2. ASSUME NEW n \in Nat, Got <= n, n < Put
      PROVE  m_slots'[n % Capacity] = m_slots[n % Capacity]
  <2>1. n % Capacity \in SlotIndex
    BY Constants, RemainderRange DEF SlotIndex
  <2>2. n % Capacity # wslot
    BY <1>2, SlotIsFree, SlotsOfCounts
  <2> QED BY <2>1, <2>2
<1>3. Resident'
  <2> SUFFICES ASSUME NEW k \in Got + 1 .. Put
               PROVE  Contents(m_slots'[(k - 1) % Capacity]) = accepted[k]
    BY <1>1 DEF Resident
  <2>1. k - 1 \in Nat /\ Got <= k - 1 /\ k - 1 < Put
    BY <1>1, SMT
  <2>2. m_slots'[(k - 1) % Capacity] = m_slots[(k - 1) % Capacity]
    BY <1>2, <2>1
  <2> QED BY <2>2 DEF IInv, Resident
<1>4. Copied'
  <2>1. CASE r_pc = "idle"
    BY <2>1 DEF Copied
  <2>2. CASE r_pc # "idle"
    <3>1. Got < r_acq - 1
      BY <2>2 DEF IInv, Order
    <3>2. Got < Put
      BY <3>1, CountsType, SMT
    <3>3. m_slots'[Got % Capacity] = m_slots[Got % Capacity]
      BY <1>1, <1>2, <3>2
    <3> QED BY <1>1, <3>3 DEF IInv, Copied
  <2> QED BY <2>1, <2>2
<1> QED BY <1>3, <1>4
-----------------------------------------------------------------------------
(* The initial state. *)
LEMMA InitIInv == Init => IInv
<1> SUFFICES ASSUME Init PROVE IInv
  OBVIOUS
<1>1. Put = 0 /\ Got = 0
  BY DEF Init, Put, Got
<1>2. 0 \in 0 .. IndexMod - 1 /\ 0 \in Ids /\ 0 \in 0 .. PayloadCap
  BY Constants, SMT DEF Ids
<1>3. ZeroSlot \in Slot
  BY <1>2, SMT DEF ZeroSlot, Slot
<1>4. TypeOK
  BY <1>2, <1>3, SMT DEF Init, TypeOK
<1>5. Counts
  <2>1. 0 % IndexMod = 0
    BY Constants, SMT
  <2> QED BY <1>1, <2>1, SMT DEF Init, Counts
<1>6. Order
  BY <1>1, Constants, SMT DEF Init, Order
<1>7. Resident /\ Intact
  BY <1>1, SMT DEF Resident, Intact
<1>8. Written /\ Copied
  BY DEF Init, Written, Copied
<1> QED BY <1>4, <1>5, <1>6, <1>7, <1>8 DEF IInv

(* write(), the loads and the test. *)
LEMMA WriteClaimIInv ==
    ASSUME IInv, NEW id \in Ids, NEW len \in Lens, NEW data \in BOOLEAN, NEW k,
           WriteClaim(id, len, data, k)
    PROVE  IInv'
<1>1. UNCHANGED <<m_slots, m_write_idx, m_read_idx, accepted, delivered,
                  r_pc, r_out, r_acq>> /\ Put' = Put /\ Got' = Got
  BY DEF WriteClaim, consumerVars, Put, Got
<1>2. k \in w_acq .. Len(m_read_idx) /\ w_acq' = k /\ w_pc = "idle"
  BY DEF WriteClaim
<1>3. /\ w_acq \in Int /\ 1 <= w_acq /\ w_acq - 1 <= k - 1
      /\ Put \in Int /\ k \in 1 .. Len(m_read_idx)
      /\ Put - (w_acq - 1) <= Capacity
  BY <1>2, CountsType, SMT
<1>4. \/ w_pc' = "idle" /\ w_arg' = w_arg
      \/ /\ ~(Put - (k - 1) >= Capacity)
         /\ w_pc' = "header" /\ w_arg' = [id |-> id, len |-> len, data |-> data]
  BY <1>2, FullIsFull DEF WriteClaim, Full
<1>5. TypeOK'
  BY <1>1, <1>2, <1>3, <1>4 DEF IInv, TypeOK
<1>6. Counts' /\ Resident' /\ Copied' /\ Intact'
  BY <1>1 DEF IInv, Counts, Resident, Copied, Intact
<1>7. Order'
  <2>1. Put <= (k - 1) + Capacity
    BY <1>2, <1>3, Constants, CountsType, SMT
  <2>2. w_pc' # "idle" => Put < (k - 1) + Capacity /\ w_arg'.len \in Lens
    BY <1>3, <1>4, Constants, SMT
  <2> QED BY <1>1, <1>2, <2>1, <2>2 DEF IInv, Order
<1>8. Written'
  BY <1>4 DEF Written
<1> QED BY <1>5, <1>6, <1>7, <1>8 DEF IInv

(* write(), the header fields. *)
LEMMA WriteHeaderIInv ==
    ASSUME IInv, WriteHeader
    PROVE  IInv'
<1>1. /\ UNCHANGED <<m_write_idx, m_read_idx, accepted, delivered,
                     w_arg, w_acq, r_pc, r_out, r_acq>>
      /\ Put' = Put /\ Got' = Got /\ w_pc = "header" /\ w_pc' = "payload"
  BY DEF WriteHeader, consumerVars, Put, Got
<1>2. /\ wslot = Put % Capacity /\ wslot \in SlotIndex
      /\ m_slots \in [SlotIndex -> Slot]
  BY SlotsOfCounts DEF IInv, TypeOK
<1> DEFINE slot == [packet_id   |-> w_arg.id,
                    payload_len |-> Truncated(w_arg.len),
                    payload     |-> m_slots[wslot].payload]
<1>3. m_slots' = [m_slots EXCEPT ![wslot] = slot]
  BY DEF WriteHeader
<1>4. w_arg.id \in Ids /\ w_arg.len \in Nat /\ Truncated(w_arg.len) \in 0 .. PayloadCap
  BY <1>1, Constants, TruncatedType DEF IInv, TypeOK, Order
<1>5. /\ m_slots' \in [SlotIndex -> Slot]
      /\ \A i \in SlotIndex : i # wslot => m_slots'[i] = m_slots[i]
      /\ m_slots'[wslot].packet_id = w_arg.id
      /\ m_slots'[wslot].payload_len = Truncated(w_arg.len)
  <2>1. m_slots[wslot] \in Slot
    BY <1>2
  <2>2. /\ slot \in Slot
        /\ slot.packet_id = w_arg.id
        /\ slot.payload_len = Truncated(w_arg.len)
    BY <1>4, <2>1, SMT DEF Slot
  <2> HIDE DEF slot
  <2> QED BY <1>2, <1>3, <2>2
<1>6. TypeOK'
  BY <1>1, <1>5 DEF IInv, TypeOK
<1>7. Counts' /\ Order' /\ Intact'
  BY <1>1 DEF IInv, Counts, Order, Intact
<1>8. Resident' /\ Copied'
  BY <1>1, <1>5, WritingKeeps
<1>9. Written'
  BY <1>1, <1>2, <1>5 DEF Written
<1> QED BY <1>6, <1>7, <1>8, <1>9 DEF IInv

(* write(), the copy of the payload. *)
LEMMA WritePayloadIInv ==
    ASSUME IInv, WritePayload
    PROVE  IInv'
<1>1. /\ UNCHANGED <<m_write_idx, m_read_idx, accepted, delivered,
                     w_arg, w_acq, r_pc, r_out, r_acq>>
      /\ Put' = Put /\ Got' = Got /\ w_pc = "payload" /\ w_pc' = "publish"
  BY DEF WritePayload, consumerVars, Put, Got
<1>2. /\ wslot = Put % Capacity /\ wslot \in SlotIndex
      /\ m_slots \in [SlotIndex -> Slot]
  BY SlotsOfCounts DEF IInv, TypeOK
<1> DEFINE bytes == [b \in 1 .. PayloadCap |->
                       IF w_arg.data /\ b <= Truncated(w_arg.len) THEN w_arg.id
                       ELSE m_slots[wslot].payload[b]]
<1> DEFINE slot == [m_slots[wslot] EXCEPT !.payload = bytes]
<1>3. m_slots' = [m_slots EXCEPT ![wslot] = slot]
  BY DEF WritePayload
<1>4. w_arg.id \in Ids /\ w_arg.len \in Nat /\ Truncated(w_arg.len) \in 0 .. PayloadCap
  BY <1>1, Constants, TruncatedType DEF IInv, TypeOK, Order
<1>5. bytes \in [1 .. PayloadCap -> Ids]
  <2>1. m_slots[wslot] \in Slot
    BY <1>2
  <2>2. m_slots[wslot].payload \in [1 .. PayloadCap -> Ids]
    BY <2>1, SMT DEF Slot
  <2> QED BY <1>4, <2>2
<1>6. w_arg.data => \A b \in 1 .. Truncated(w_arg.len) : bytes[b] = w_arg.id
  BY <1>4, Constants, SMT
<1> HIDE DEF bytes
<1>7. /\ m_slots' \in [SlotIndex -> Slot]
      /\ \A i \in SlotIndex : i # wslot => m_slots'[i] = m_slots[i]
      /\ m_slots'[wslot].packet_id = m_slots[wslot].packet_id
      /\ m_slots'[wslot].payload_len = m_slots[wslot].payload_len
      /\ m_slots'[wslot].payload = bytes
  <2>1. m_slots[wslot] \in Slot
    BY <1>2
  <2>2. /\ slot \in Slot
        /\ slot.packet_id = m_slots[wslot].packet_id
        /\ slot.payload_len = m_slots[wslot].payload_len
        /\ slot.payload = bytes
    BY <1>5, <2>1, SMT DEF Slot
  <2> HIDE DEF slot
  <2> QED BY <1>2, <1>3, <2>2
<1>8. TypeOK'
  BY <1>1, <1>7 DEF IInv, TypeOK
<1>9. Counts' /\ Order' /\ Intact'
  BY <1>1 DEF IInv, Counts, Order, Intact
<1>10. Resident' /\ Copied'
  BY <1>1, <1>7, WritingKeeps
<1>11. Written'
  BY <1>1, <1>2, <1>6, <1>7 DEF IInv, Written
<1> QED BY <1>8, <1>9, <1>10, <1>11 DEF IInv

(* write(), the releasing store. *)
LEMMA WritePublishIInv ==
    ASSUME IInv, WritePublish
    PROVE  /\ IInv' /\ Len(accepted) - Len(delivered) < Capacity
           /\ Published(w_arg, m_slots[wslot].payload) \in Records
<1> DEFINE rec == Published(w_arg, m_slots[wslot].payload)
           stored == (Newest(m_write_idx) + 1) % IndexMod
<1>1. /\ UNCHANGED <<m_slots, m_read_idx, delivered, w_arg, w_acq,
                     r_pc, r_out, r_acq>>
      /\ m_write_idx' = Append(m_write_idx, stored)
      /\ accepted' = Append(accepted, rec)
      /\ w_pc = "publish" /\ w_pc' = "idle" /\ Got' = Got
  BY DEF WritePublish, consumerVars, Got
<1>2. /\ Put \in Int /\ Put \in Nat /\ Got \in Nat /\ Got \in Int
      /\ Got <= Put /\ r_acq - 1 <= Put /\ 1 <= r_acq /\ r_acq \in Int
      /\ w_acq \in Int /\ w_acq - 1 <= Got
  BY CountsType, SMT
<1>3. /\ w_arg.id \in Ids /\ w_arg.len \in Lens /\ w_arg.len \in Nat
      /\ Put < (w_acq - 1) + Capacity
  BY <1>1, Constants DEF IInv, TypeOK, Order
<1>4. stored \in 0 .. IndexMod - 1 /\ stored = (Put + 1) % IndexMod
  <2>1. Newest(m_write_idx) = Put % IndexMod
    BY SlotsOfCounts
  <2>2. ((Put % IndexMod) + 1) % IndexMod = (Put + 1) % IndexMod
    BY <1>2, Constants, WrappedIncrement
  <2>3. Put + 1 \in Int
    BY <1>2, SMT
  <2>4. (Put + 1) % IndexMod \in 0 .. IndexMod - 1
    BY <2>3, Constants, RemainderRange
  <2> QED BY <2>1, <2>2, <2>4
<1>5. Contents(m_slots[wslot]) = rec /\ rec \in Records
  <2>1. w_arg \in [id : Ids, len : Lens, data : BOOLEAN]
    <3>1. w_arg \in [id : Ids, len : Lens \cup {0}, data : BOOLEAN]
      BY DEF IInv, TypeOK
    <3> QED BY <1>3, <3>1, SMT
  <2>2. m_slots[wslot] \in Slot /\ wslot = Put % Capacity
    BY SlotsOfCounts DEF IInv, TypeOK
  <2>3. /\ m_slots[wslot].packet_id = w_arg.id
        /\ m_slots[wslot].payload_len = Truncated(w_arg.len)
        /\ w_arg.data => \A b \in 1 .. Truncated(w_arg.len) :
                            m_slots[wslot].payload[b] = w_arg.id
    BY <1>1, <2>2 DEF IInv, Written
  <2> QED BY <2>1, <2>2, <2>3, FilledSlot
<1> HIDE DEF rec, stored
<1>6. accepted \in Seq(Records) /\ m_write_idx \in Seq(0 .. IndexMod - 1)
  BY DEF IInv, TypeOK
<1>7. /\ accepted' \in Seq(Records) /\ Put' = Put + 1
      /\ accepted'[Put + 1] = rec
      /\ \A k \in 1 .. Put : accepted'[k] = accepted[k]
  BY <1>1, <1>5, <1>6, SMT DEF Put
<1>8. /\ m_write_idx' \in Seq(0 .. IndexMod - 1) /\ m_write_idx' # <<>>
      /\ Len(m_write_idx') = Put + 2
      /\ m_write_idx'[Put + 2] = stored
      /\ \A k \in 1 .. Put + 1 : m_write_idx'[k] = m_write_idx[k]
  <2>1. Len(m_write_idx) = Put + 1
    BY CountsType
  <2> HIDE DEF Put
  <2> QED BY <1>1, <1>2, <1>4, <1>6, <2>1, SMT
<1> HIDE DEF Put, Got
<1>9. TypeOK'
  <2>1. r_acq' \in 1 .. Len(m_write_idx')
    BY <1>1, <1>2, <1>8, SMT
  <2> QED BY <1>1, <1>7, <1>8, <2>1 DEF IInv, TypeOK
<1>10. Counts'
  <2>1. \A k \in 1 .. Put + 2 : m_write_idx'[k] = (k - 1) % IndexMod
    <3> SUFFICES ASSUME NEW k \in 1 .. Put + 2
                 PROVE  m_write_idx'[k] = (k - 1) % IndexMod
      OBVIOUS
    <3>1. CASE k = Put + 2
      <4>1. k - 1 = Put + 1
        BY <1>2, <3>1, SMT
      <4> QED BY <1>4, <1>8, <3>1, <4>1
    <3>2. CASE k # Put + 2
      <4>1. k \in 1 .. Put + 1
        BY <1>2, <3>2, SMT
      <4> QED BY <1>8, <4>1 DEF IInv, Counts
    <3> QED BY <3>1, <3>2
  <2>2. Put' + 1 = Put + 2
    BY <1>2, <1>7, SMT
  <2> QED BY <1>1, <1>8, <2>1, <2>2 DEF IInv, Counts
<1>11. Order'
  <2>1. Put + 1 <= (w_acq - 1) + Capacity
    BY <1>2, <1>3, Constants, SMT
  <2> QED BY <1>1, <1>7, <2>1 DEF IInv, Order
<1>12. Resident'
  <2> SUFFICES ASSUME NEW k \in Got + 1 .. Put + 1
               PROVE  Contents(m_slots[(k - 1) % Capacity]) = accepted'[k]
    BY <1>1, <1>7 DEF Resident
  <2>1. CASE k = Put + 1
    <3>1. k - 1 = Put
      BY <1>2, <2>1, SMT
    <3>2. Contents(m_slots[Put % Capacity]) = rec
      BY <1>5, SlotsOfCounts
    <3> QED BY <1>7, <2>1, <3>1, <3>2
  <2>2. CASE k # Put + 1
    <3>1. k \in Got + 1 .. Put /\ k \in 1 .. Put
      BY <1>2, <2>2, SMT
    <3> QED BY <1>7, <3>1 DEF IInv, Resident
  <2> QED BY <2>1, <2>2
<1>13. Written'
  BY <1>1 DEF Written
<1>14. Copied'
  BY <1>1 DEF IInv, Copied
<1>15. Intact'
  <2>1. \A k \in 1 .. Got : k \in 1 .. Put
    BY <1>2, SMT
  <2> QED BY <1>1, <1>7, <2>1 DEF IInv, Intact
<1>16. Put - Got < Capacity
  BY <1>2, <1>3, Constants, SMT
<1> QED BY <1>5, <1>9, <1>10, <1>11, <1>12, <1>13, <1>14, <1>15, <1>16
        DEF IInv, Put, Got, rec

(* read(), the loads and the test. *)
LEMMA ReadClaimIInv ==
    ASSUME IInv, NEW k, ReadClaim(k)
    PROVE  IInv'
<1>1. /\ UNCHANGED <<m_slots, m_write_idx, m_read_idx, accepted, delivered,
                     w_pc, w_arg, w_acq, r_out>>
      /\ Put' = Put /\ Got' = Got
  BY DEF ReadClaim, producerVars, Put, Got
<1>2. k \in r_acq .. Len(m_write_idx) /\ r_acq' = k /\ r_pc = "idle"
  BY DEF ReadClaim
<1>3. /\ Got \in Int /\ k \in Int /\ Got <= k - 1 /\ k \in 1 .. Len(m_write_idx)
  BY <1>2, CountsType, SMT
<1>4. r_pc' = "idle" \/ (r_pc' = "header" /\ Got # k - 1)
  BY <1>2, EmptyIsEmpty DEF ReadClaim
<1>5. TypeOK'
  BY <1>1, <1>2, <1>3, <1>4 DEF IInv, TypeOK
<1>6. Counts' /\ Resident' /\ Written' /\ Intact'
  BY <1>1 DEF IInv, Counts, Resident, Written, Intact
<1>7. Order'
  <2>1. Got <= k - 1 /\ (r_pc' # "idle" => Got < k - 1)
    BY <1>3, <1>4, SMT
  <2> QED BY <1>1, <1>2, <2>1 DEF IInv, Order
<1>8. Copied'
  BY <1>4 DEF Copied
<1> QED BY <1>5, <1>6, <1>7, <1>8 DEF IInv

(* read(), the copy of the header fields. *)
LEMMA ReadHeaderIInv ==
    ASSUME IInv, ReadHeader
    PROVE  IInv'
<1>1. /\ UNCHANGED <<m_slots, m_write_idx, m_read_idx, accepted, delivered,
                     w_pc, w_arg, w_acq, r_acq>>
      /\ Put' = Put /\ Got' = Got /\ r_pc = "header" /\ r_pc' = "payload"
  BY DEF ReadHeader, producerVars, Put, Got
<1>2. rslot = Got % Capacity /\ m_slots[rslot] \in Slot /\ r_out \in Slot
  BY SlotsOfCounts DEF IInv, TypeOK
<1>3. /\ r_out' \in Slot
      /\ r_out'.packet_id = m_slots[rslot].packet_id
      /\ r_out'.payload_len = m_slots[rslot].payload_len
  <2>1. r_out' = [packet_id   |-> m_slots[rslot].packet_id,
                  payload_len |-> m_slots[rslot].payload_len,
                  payload     |-> r_out.payload]
    BY DEF ReadHeader
  <2> QED BY <1>2, <2>1, SMT DEF Slot
<1>4. TypeOK'
  BY <1>1, <1>3 DEF IInv, TypeOK
<1>5. Counts' /\ Order' /\ Resident' /\ Written' /\ Intact'
  BY <1>1 DEF IInv, Counts, Order, Resident, Written, Intact
<1>6. Copied'
  BY <1>1, <1>2, <1>3 DEF Copied
<1> QED BY <1>4, <1>5, <1>6 DEF IInv

(* read(), the copy of the payload. *)
LEMMA ReadPayloadIInv ==
    ASSUME IInv, ReadPayload
    PROVE  IInv'
<1>1. /\ UNCHANGED <<m_slots, m_write_idx, m_read_idx, accepted, delivered,
                     w_pc, w_arg, w_acq, r_acq>>
      /\ Put' = Put /\ Got' = Got /\ r_pc = "payload" /\ r_pc' = "release"
  BY DEF ReadPayload, producerVars, Put, Got
<1>2. rslot = Got % Capacity /\ m_slots[rslot] \in Slot /\ r_out \in Slot
  BY SlotsOfCounts DEF IInv, TypeOK
<1>3. /\ r_out' \in Slot
      /\ r_out'.packet_id = r_out.packet_id
      /\ r_out'.payload_len = r_out.payload_len
      /\ r_out'.payload = m_slots[rslot].payload
  <2>1. r_out' = [r_out EXCEPT !.payload = m_slots[rslot].payload]
    BY DEF ReadPayload
  <2> QED BY <1>2, <2>1, SMT DEF Slot
<1>4. TypeOK'
  BY <1>1, <1>3 DEF IInv, TypeOK
<1>5. Counts' /\ Order' /\ Resident' /\ Written' /\ Intact'
  BY <1>1 DEF IInv, Counts, Order, Resident, Written, Intact
<1>6. Copied'
  BY <1>1, <1>2, <1>3 DEF IInv, Copied
<1> QED BY <1>4, <1>5, <1>6 DEF IInv

(* read(), the releasing store: what the caller gets is the oldest record. *)
LEMMA ReadReleaseIInv ==
    ASSUME IInv, ReadRelease
    PROVE  IInv' /\ Got < Put /\ Contents(r_out) = accepted[Got + 1]
<1> DEFINE rec == Contents(r_out)
           stored == (Newest(m_read_idx) + 1) % IndexMod
<1>1. /\ UNCHANGED <<m_slots, m_write_idx, accepted, w_pc, w_arg, w_acq,
                     r_out, r_acq>>
      /\ m_read_idx' = Append(m_read_idx, stored)
      /\ delivered' = Append(delivered, rec)
      /\ r_pc = "release" /\ r_pc' = "idle" /\ Put' = Put
  BY DEF ReadRelease, producerVars, Put
<1>2. /\ Put \in Int /\ Put \in Nat /\ Got \in Nat /\ Got \in Int
      /\ Got < r_acq - 1 /\ r_acq - 1 <= Put /\ r_acq \in Int
      /\ w_acq \in Int /\ 1 <= w_acq /\ w_acq - 1 <= Got
  <2>1. Got < r_acq - 1
    BY <1>1 DEF IInv, Order
  <2> QED BY <2>1, CountsType, SMT
<1>3. stored \in 0 .. IndexMod - 1 /\ stored = (Got + 1) % IndexMod
  <2>1. Newest(m_read_idx) = Got % IndexMod
    BY SlotsOfCounts
  <2>2. ((Got % IndexMod) + 1) % IndexMod = (Got + 1) % IndexMod
    BY <1>2, Constants, WrappedIncrement
  <2>3. Got + 1 \in Int
    BY <1>2, SMT
  <2>4. (Got + 1) % IndexMod \in 0 .. IndexMod - 1
    BY <2>3, Constants, RemainderRange
  <2> QED BY <2>1, <2>2, <2>4
<1>4. rec = accepted[Got + 1] /\ Got + 1 \in 1 .. Put
  <2>1. Got + 1 \in Got + 1 .. Put /\ (Got + 1) - 1 = Got /\ Got + 1 \in 1 .. Put
    BY <1>2, SMT
  <2>2. Contents(m_slots[Got % Capacity]) = accepted[Got + 1]
    BY <2>1 DEF IInv, Resident
  <2>3. m_slots[Got % Capacity] \in Slot /\ r_out \in Slot
    BY SlotsOfCounts DEF IInv, TypeOK
  <2>4. r_out = m_slots[Got % Capacity]
    BY <1>1, <2>3, SlotExtensional DEF IInv, Copied
  <2> QED BY <2>1, <2>2, <2>4
<1>5. rec \in Records
  <2>1. accepted \in Seq(Records)
    BY DEF IInv, TypeOK
  <2> QED BY <1>4, <2>1 DEF Put
<1> HIDE DEF rec, stored
<1>6. delivered \in Seq(Records) /\ m_read_idx \in Seq(0 .. IndexMod - 1)
  BY DEF IInv, TypeOK
<1>7. /\ delivered' \in Seq(Records) /\ Got' = Got + 1
      /\ delivered'[Got + 1] = rec
      /\ \A k \in 1 .. Got : delivered'[k] = delivered[k]
  BY <1>1, <1>5, <1>6, SMT DEF Got
<1>8. /\ m_read_idx' \in Seq(0 .. IndexMod - 1) /\ m_read_idx' # <<>>
      /\ Len(m_read_idx') = Got + 2
      /\ m_read_idx'[Got + 2] = stored
      /\ \A k \in 1 .. Got + 1 : m_read_idx'[k] = m_read_idx[k]
  <2>1. Len(m_read_idx) = Got + 1
    BY CountsType
  <2> HIDE DEF Got
  <2> QED BY <1>1, <1>2, <1>3, <1>6, <2>1, SMT
<1> HIDE DEF Put, Got
<1>9. TypeOK'
  <2>1. w_acq' \in 1 .. Len(m_read_idx')
    BY <1>1, <1>2, <1>8, SMT
  <2> QED BY <1>1, <1>7, <1>8, <2>1 DEF IInv, TypeOK
<1>10. Counts'
  <2>1. \A k \in 1 .. Got + 2 : m_read_idx'[k] = (k - 1) % IndexMod
    <3> SUFFICES ASSUME NEW k \in 1 .. Got + 2
                 PROVE  m_read_idx'[k] = (k - 1) % IndexMod
      OBVIOUS
    <3>1. CASE k = Got + 2
      <4>1. k - 1 = Got + 1
        BY <1>2, <3>1, SMT
      <4> QED BY <1>3, <1>8, <3>1, <4>1
    <3>2. CASE k # Got + 2
      <4>1. k \in 1 .. Got + 1
        BY <1>2, <3>2, SMT
      <4> QED BY <1>8, <4>1 DEF IInv, Counts
    <3> QED BY <3>1, <3>2
  <2>2. Got' + 1 = Got + 2
    BY <1>2, <1>7, SMT
  <2> QED BY <1>1, <1>8, <2>1, <2>2 DEF IInv, Counts
<1>11. Order'
  <2>1. Got + 1 <= r_acq - 1
    BY <1>2, SMT
  <2> QED BY <1>1, <1>7, <2>1 DEF IInv, Order
<1>12. Resident'
  <2>1. \A k \in Got + 2 .. Put : k \in Got + 1 .. Put
    BY <1>2, SMT
  <2>2. Got' + 1 = Got + 2
    BY <1>2, <1>7, SMT
  <2> QED BY <1>1, <2>1, <2>2 DEF IInv, Resident
<1>13. Written'
  BY <1>1 DEF IInv, Written
<1>14. Copied'
  BY <1>1 DEF Copied
<1>15. Intact'
  <2> SUFFICES ASSUME NEW k \in 1 .. Got + 1
               PROVE  delivered'[k] = accepted[k]
    BY <1>1, <1>7 DEF Intact
  <2>1. CASE k = Got + 1
    BY <1>4, <1>7, <2>1
  <2>2. CASE k # Got + 1
    <3>1. k \in 1 .. Got
      BY <1>2, <2>2, SMT
    <3> QED BY <1>7, <3>1 DEF IInv, Intact
  <2> QED BY <2>1, <2>2
<1>16. Got < Put
  BY <1>2, SMT
<1> QED BY <1>4, <1>9, <1>10, <1>11, <1>12, <1>13, <1>14, <1>15, <1>16 DEF IInv, rec
-----------------------------------------------------------------------------
(* Every step keeps the invariant and maps to a step of the FIFO, or to none. *)
LEMMA StepIInv ==
    ASSUME IInv, [Next]_vars
    PROVE  IInv' /\ [Fifo!Next]_(Fifo!vars)
<1> USE DEF Fifo!Next, Fifo!vars
<1>1. CASE UNCHANGED vars
  <2>1. UNCHANGED <<m_slots, m_write_idx, m_read_idx, w_pc, w_arg, w_acq,
                    r_pc, r_out, r_acq, accepted, delivered>>
    BY <1>1 DEF vars, producerVars, consumerVars
  <2>2. IInv'
    BY <2>1 DEF IInv, TypeOK, Counts, Order, Resident, Written, Copied, Intact,
                Put, Got, wslot, rslot
  <2> QED BY <2>1, <2>2
<1>2. ASSUME NEW len \in Lens, NEW data \in BOOLEAN, NEW k,
             WriteClaim(Len(accepted) + 1, len, data, k), Len(accepted) < MaxRecords
      PROVE  IInv' /\ [Fifo!Next]_(Fifo!vars)
  <2>1. Len(accepted) + 1 \in Ids
    BY <1>2, CountsType, Constants, SMT DEF Ids, Put
  <2> QED BY <1>2, <2>1, WriteClaimIInv DEF WriteClaim, consumerVars
<1>3. CASE WriteHeader
  BY <1>3, WriteHeaderIInv DEF WriteHeader, consumerVars
<1>4. CASE WritePayload
  BY <1>4, WritePayloadIInv DEF WritePayload, consumerVars
<1>5. CASE WritePublish
  <2> DEFINE rec == Published(w_arg, m_slots[wslot].payload)
  <2>1. rec \in Records
    BY <1>5, WritePublishIInv
  <2>2. Fifo!Put(rec)
    BY <1>5, WritePublishIInv DEF Fifo!Put, WritePublish, consumerVars
  <2> QED BY <1>5, <2>1, <2>2, WritePublishIInv
<1>6. ASSUME NEW k, ReadClaim(k)
      PROVE  IInv' /\ [Fifo!Next]_(Fifo!vars)
  BY <1>6, ReadClaimIInv DEF ReadClaim, producerVars
<1>7. CASE ReadHeader
  BY <1>7, ReadHeaderIInv DEF ReadHeader, producerVars
<1>8. CASE ReadPayload
  BY <1>8, ReadPayloadIInv DEF ReadPayload, producerVars
<1>9. CASE ReadRelease
  <2>1. Fifo!Get
    BY <1>9, ReadReleaseIInv DEF Fifo!Get, ReadRelease, producerVars, Put, Got
  <2> QED BY <1>9, <2>1, ReadReleaseIInv
<1> QED BY <1>1, <1>2, <1>3, <1>4, <1>5, <1>6, <1>7, <1>8, <1>9
        DEF Next, Write, Read

(* The invariant holds in every reachable state. *)
THEOREM Invariance == Spec => []IInv
<1>1. IInv /\ [Next]_vars => IInv'
  BY StepIInv
<1> QED BY InitIInv, <1>1, PTL DEF Spec

(* Every variable keeps its type. *)
THEOREM TypeCorrect == Spec => []TypeOK
<1>1. IInv => TypeOK
  BY DEF IInv
<1> QED BY Invariance, <1>1, PTL

(* The two threads never race on a slot, for any capacity and index width: *)
(* a slot is reused only after its release was acquired, and copied only   *)
(* after its publication was (lines 64-74 and 79-83).                      *)
THEOREM NoRace == Spec => []RaceFree
<1>1. ASSUME IInv PROVE RaceFree
  <2>1. ASSUME Writing PROVE Put < (w_acq - 1) + Capacity /\ w_pc # "idle"
    BY <1>1, <2>1 DEF Writing, IInv, Order
  <2>2. ASSUME Reading PROVE Got < r_acq - 1
    BY <1>1, <2>2 DEF Reading, IInv, Order
  <2>3. ASSUME Writing, Reading PROVE wslot # rslot
    <3>1. Got \in Nat /\ Got < Put
      BY <1>1, <2>2, <2>3, CountsType, SMT
    <3> QED BY <1>1, <2>1, <2>3, <3>1, SlotIsFree, SlotsOfCounts
  <2> QED BY <2>1, <2>2, <2>3 DEF RaceFree, Put, Got
<1> QED BY Invariance, <1>1, PTL

(* size() never reports more than Capacity to either thread, in spite of the *)
(* wrap of the indices and of stale relaxed loads (lines 87-90).             *)
THEOREM SizeInBounds == Spec => []SizeBounded
<1>1. ASSUME IInv PROVE SizeBounded
  <2>1. ASSUME NEW k \in w_acq .. Len(m_read_idx)
        PROVE  Distance(Newest(m_write_idx), m_read_idx[k]) <= Capacity
    <3>1. Distance(Newest(m_write_idx), m_read_idx[k]) = Put - (k - 1)
      BY <1>1, FullIsFull
    <3>2. k \in Int /\ w_acq <= k
      BY <1>1, CountsType, SMT
    <3> QED BY <1>1, <3>1, <3>2, CountsType, Constants, SMTT(30)
  <2>2. ASSUME NEW k \in r_acq .. Len(m_write_idx)
        PROVE  Distance(m_write_idx[k], Newest(m_read_idx)) <= Capacity
    <3>1. Distance(m_write_idx[k], Newest(m_read_idx)) = (k - 1) - Got
      BY <1>1, SizeIsExact
    <3>2. k \in Int /\ k <= Put + 1
      BY <1>1, CountsType, SMT
    <3> QED BY <1>1, <3>1, <3>2, CountsType, Constants, SMTT(30)
  <2> QED BY <2>1, <2>2 DEF SizeBounded
<1> QED BY Invariance, <1>1, PTL

(* The ring is a bounded FIFO: no record is lost, repeated, torn or         *)
(* reordered between the write that accepts it and the read that gives it.  *)
THEOREM RingIsFifo == Spec => ImplementsFifo
<1>1. Init => Fifo!Init
  BY DEF Init, Fifo!Init
<1>2. IInv /\ [Next]_vars => [Fifo!Next]_(Fifo!vars)
  BY StepIInv
<1> QED BY Invariance, <1>1, <1>2, PTL DEF Spec, ImplementsFifo, Fifo!Spec
=============================================================================
