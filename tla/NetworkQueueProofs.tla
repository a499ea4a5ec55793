------------------------- MODULE NetworkQueueProofs -------------------------
(***************************************************************************)
(* Proofs about NetworkQueue for every capacity, element size and number   *)
(* of elements.  A masked index says nothing of how often it wrapped, so   *)
(* the invariant speaks of how many elements went in and came out, and the *)
(* tests on the indices are shown to be the tests on those counts.         *)
(***************************************************************************)
EXTENDS NetworkQueue, SharedLemmas

In  == Len(sent)
Out == Len(got)

\* The stores of each index are the counts, masked.
QueueCounts ==
    /\ Len(m_tail) = In + 1
    /\ Len(m_head) = Out + 1
    /\ \A k \in 1 .. In + 1 : m_tail[k] = (k - 1) % Capacity
    /\ \A k \in 1 .. Out + 1 : m_head[k] = (k - 1) % Capacity

\* What each thread has acquired is behind the other and not too far behind.
QueueOrder ==
    /\ Out <= c_acq - 1
    /\ In <= (p_acq - 1) + (Capacity - 1)
    /\ Filling => In < (p_acq - 1) + (Capacity - 1) /\ In < MaxElements
    /\ Copying => Out < c_acq - 1

\* An element that went in stays whole in its slot until it comes out.
QueueResident == \A k \in Out + 1 .. In : m_buffer[(k - 1) % Capacity] = sent[k]

\* The words stored so far of the element going in, and copied of the one
\* coming out.
QueueFilled == \A w \in 1 .. p_word : m_buffer[In % Capacity][w] = In + 1
QueueCopied == \A w \in 1 .. c_word : c_out[w] = m_buffer[Out % Capacity][w]

\* What came out is what went in, in order.
QueueIntact == \A k \in 1 .. Out : got[k] = sent[k]

QueueIInv ==
    /\ QueueTypeOK /\ QueueCounts /\ QueueOrder
    /\ QueueResident /\ QueueFilled /\ QueueCopied /\ QueueIntact
-----------------------------------------------------------------------------
(* What the proofs use of the assumption on the constants. *)
LEMMA QueueConstants ==
    /\ Capacity \in Nat \ {0} /\ 1 < Capacity /\ Capacity \in Int
    /\ Words \in Nat \ {0} /\ MaxElements \in Nat
BY QueueAssumption, SMT

(* The counts are naturals and never more than Capacity - 1 apart. *)
LEMMA QueueCountsType ==
    ASSUME QueueIInv
    PROVE  /\ In \in Nat /\ Out \in Nat /\ In \in Int /\ Out \in Int
           /\ p_acq \in Int /\ c_acq \in Int /\ 1 <= p_acq /\ 1 <= c_acq
           /\ p_acq - 1 <= Out /\ Out <= c_acq - 1 /\ c_acq - 1 <= In
           /\ In - (p_acq - 1) < Capacity /\ In - Out < Capacity
           /\ Len(m_head) = Out + 1 /\ Len(m_tail) = In + 1
<1>1. In \in Nat /\ Out \in Nat
  BY DEF QueueIInv, QueueTypeOK, In, Out
<1>2. p_acq \in 1 .. Out + 1 /\ c_acq \in 1 .. In + 1
  BY DEF QueueIInv, QueueTypeOK, QueueCounts
<1>3. /\ Out <= c_acq - 1 /\ In <= (p_acq - 1) + (Capacity - 1)
      /\ Len(m_head) = Out + 1 /\ Len(m_tail) = In + 1
  BY DEF QueueIInv, QueueOrder, QueueCounts
<1> QED BY <1>1, <1>2, <1>3, QueueConstants, SMT

(* The indices the threads use are their counts, masked. *)
LEMMA QueueSlotsOfCounts ==
    ASSUME QueueIInv
    PROVE  /\ TailNow = In % Capacity /\ TailNow \in Slots
           /\ HeadNow = Out % Capacity /\ HeadNow \in Slots
<1>1. In \in Int /\ Out \in Int /\ In + 1 \in 1 .. In + 1 /\ Out + 1 \in 1 .. Out + 1
      /\ (In + 1) - 1 = In /\ (Out + 1) - 1 = Out
  BY QueueCountsType, SMT
<1>2. TailNow = In % Capacity /\ HeadNow = Out % Capacity
  BY <1>1 DEF QueueIInv, QueueCounts, TailNow, HeadNow, Newest
<1>3. In % Capacity \in Slots /\ Out % Capacity \in Slots
  BY <1>1, QueueConstants, RemainderRange DEF Slots
<1> QED BY <1>2, <1>3

(* enqueue() refuses exactly when the store of the head it acquired leaves  *)
(* no room for one more element (lines 82-86).                              *)
LEMMA FullIsExact ==
    ASSUME QueueIInv, NEW k \in p_acq .. Len(m_head)
    PROVE  IsFull(TailNow, m_head[k]) <=> In - (k - 1) = Capacity - 1
<1> DEFINE j == k - 1
<1>1. k \in p_acq .. Out + 1
  BY QueueCountsType
<1>2. /\ k \in 1 .. Out + 1 /\ j \in Int /\ j <= In /\ In - j <= Capacity - 1
      /\ In \in Int /\ In + 1 \in Int /\ j < In + 1
  BY <1>1, QueueCountsType, QueueConstants, SMTT(30)
<1>3. m_head[k] = j % Capacity
  BY <1>2 DEF QueueIInv, QueueCounts
<1>4. Wrapped(TailNow + 1) = (In + 1) % Capacity
  BY <1>2, QueueSlotsOfCounts, QueueConstants, WrappedIncrement DEF Wrapped
<1> HIDE DEF j
<1>5. CASE In - j = Capacity - 1
  <2>1. In + 1 = j + Capacity * 1
    BY <1>2, <1>5, QueueConstants, SMT
  <2>2. (j + Capacity * 1) % Capacity = j % Capacity
    <3>1. 1 \in Int
      OBVIOUS
    <3> QED BY <1>2, <3>1, QueueConstants, RemainderShift
  <2>3. IsFull(TailNow, m_head[k])
    BY <1>3, <1>4, <2>1, <2>2 DEF IsFull
  <2> QED BY <1>5, <2>3 DEF j
<1>6. CASE In - j # Capacity - 1
  <2>1. (In + 1) - j < Capacity
    BY <1>2, <1>6, QueueConstants, SMT
  <2>2. j % Capacity # (In + 1) % Capacity
    BY <1>2, <2>1, QueueConstants, RemainderInjective
  <2>3. ~IsFull(TailNow, m_head[k])
    BY <1>3, <1>4, <2>2 DEF IsFull
  <2> QED BY <1>6, <2>3 DEF j
<1> QED BY <1>5, <1>6

(* dequeue() refuses exactly when the store of the tail it acquired leaves  *)
(* nothing to take (lines 107-110).                                         *)
LEMMA EmptyIsExact ==
    ASSUME QueueIInv, NEW k \in c_acq .. Len(m_tail)
    PROVE  IsEmpty(HeadNow, m_tail[k]) <=> Out = k - 1
<1> DEFINE j == k - 1
<1>1. k \in c_acq .. In + 1
  BY QueueCountsType
<1>2. k \in 1 .. In + 1 /\ j \in Int /\ Out \in Int /\ Out <= j /\ j - Out < Capacity
  BY <1>1, QueueCountsType, QueueConstants, SMTT(30)
<1>3. m_tail[k] = j % Capacity /\ HeadNow = Out % Capacity
  BY <1>2, QueueSlotsOfCounts DEF QueueIInv, QueueCounts
<1> HIDE DEF j
<1>4. Out < j => Out % Capacity # j % Capacity
  BY <1>2, QueueConstants, RemainderInjective
<1>5. Out = j \/ Out < j
  BY <1>2, SMT
<1>6. IsEmpty(HeadNow, m_tail[k]) <=> Out = j
  <2>1. CASE Out = j
    BY <1>3, <2>1 DEF IsEmpty
  <2>2. CASE Out < j
    <3>1. Out # j
      BY <1>2, <2>2, SMT
    <3> QED BY <1>3, <1>4, <2>2, <3>1 DEF IsEmpty
  <2> QED BY <1>5, <2>1, <2>2
<1> QED BY <1>6 DEF j

(* The producer fills a slot that holds nothing still to be taken. *)
LEMMA FilledSlotIsFree ==
    ASSUME QueueIInv, Filling, NEW n \in Nat, Out <= n, n < In
    PROVE  n % Capacity # In % Capacity
<1>1. In \in Int /\ n \in Int /\ In - n < Capacity
  BY QueueCountsType, QueueConstants, SMTT(30)
<1> QED BY <1>1, QueueConstants, RemainderInjective
-----------------------------------------------------------------------------
(* The initial state. *)
LEMMA InitQueueIInv == QueueInit => QueueIInv
<1> SUFFICES ASSUME QueueInit PROVE QueueIInv
  OBVIOUS
<1>1. In = 0 /\ Out = 0
  BY DEF QueueInit, In, Out
<1>2. 0 % Capacity = 0 /\ 0 \in Slots /\ 0 \in 0 .. MaxElements
  BY QueueConstants, SMT DEF Slots
<1>3. QueueTypeOK
  BY <1>2, QueueConstants, SMT DEF QueueInit, QueueTypeOK, Element, NotInside
<1>4. QueueCounts
  BY <1>1, <1>2, SMT DEF QueueInit, QueueCounts
<1>5. QueueOrder
  BY <1>1, QueueConstants, SMT DEF QueueInit, QueueOrder, Filling, Copying, NotInside
<1>6. QueueResident /\ QueueIntact
  BY <1>1, SMT DEF QueueResident, QueueIntact
<1>7. QueueFilled /\ QueueCopied
  BY SMT DEF QueueInit, QueueFilled, QueueCopied, NotInside
<1> QED BY <1>3, <1>4, <1>5, <1>6, <1>7 DEF QueueIInv

(* enqueue(), the loads and the test. *)
LEMMA ClaimIInv ==
    ASSUME QueueIInv, NEW k, Claim(k)
    PROVE  QueueIInv'
<1>1. /\ UNCHANGED <<m_buffer, m_tail, m_head, sent, got, c_word, c_out, c_acq>>
      /\ In' = In /\ Out' = Out
  BY DEF Claim, consumerVars, In, Out
<1>2. /\ k \in p_acq .. Len(m_head) /\ p_acq' = k /\ p_word = NotInside
      /\ In < MaxElements
  BY DEF Claim, In
<1>3. /\ p_acq \in Int /\ 1 <= p_acq /\ k \in 1 .. Len(m_head)
      /\ In \in Int /\ In - (k - 1) <= Capacity - 1
  BY <1>2, QueueCountsType, QueueConstants, SMTT(30)
<1>4. \/ p_word' = NotInside
      \/ p_word' = 0 /\ In - (k - 1) < Capacity - 1
  <2>1. CASE IsFull(TailNow, m_head[k])
    BY <2>1 DEF Claim
  <2>2. CASE ~IsFull(TailNow, m_head[k])
    <3>1. In - (k - 1) # Capacity - 1
      BY <1>2, <2>2, FullIsExact
    <3>2. In - (k - 1) < Capacity - 1
      BY <1>3, <3>1, QueueConstants, SMT
    <3> QED BY <2>2, <3>2 DEF Claim
  <2> QED BY <2>1, <2>2
<1>5. QueueTypeOK'
  <2>1. p_word' \in NotInside .. Words
    BY <1>4, QueueConstants, SMT DEF NotInside
  <2> QED BY <1>1, <1>2, <1>3, <2>1 DEF QueueIInv, QueueTypeOK
<1>6. QueueOrder'
  <2>1. In <= (k - 1) + (Capacity - 1)
    BY <1>2, <1>3, QueueConstants, SMT
  <2>2. p_word' # NotInside => In < (k - 1) + (Capacity - 1)
    BY <1>2, <1>3, <1>4, QueueConstants, SMT
  <2> QED BY <1>1, <1>2, <2>1, <2>2 DEF QueueIInv, QueueOrder, Filling, Copying
<1>7. QueueFilled'
  BY <1>4, SMT DEF QueueFilled, NotInside
<1> QED BY <1>1, <1>5, <1>6, <1>7
        DEF QueueIInv, QueueCounts, QueueResident, QueueCopied, QueueIntact

(* enqueue(), one word of the element. *)
LEMMA FillIInv ==
    ASSUME QueueIInv, Fill
    PROVE  QueueIInv'
<1> DEFINE w == p_word + 1
<1>1. /\ UNCHANGED <<m_tail, m_head, sent, got, p_acq, c_word, c_out, c_acq>>
      /\ In' = In /\ Out' = Out
      /\ p_word \in 0 .. Words - 1 /\ p_word' = w
  BY DEF Fill, consumerVars, In, Out
<1>2. /\ TailNow = In % Capacity /\ TailNow \in Slots
      /\ m_buffer \in [Slots -> [1 .. Words -> 0 .. MaxElements]]
  BY QueueSlotsOfCounts DEF QueueIInv, QueueTypeOK
<1>3. /\ Filling /\ p_word \in Nat /\ w \in 1 .. Words
      /\ w \in 0 .. Words /\ 1 .. w = (1 .. p_word) \cup {w}
  BY <1>1, QueueConstants, SMT DEF Filling, NotInside
<1>4. In + 1 \in 0 .. MaxElements
  <2>1. In < MaxElements
    BY <1>3 DEF QueueIInv, QueueOrder
  <2> QED BY <2>1, QueueCountsType, QueueConstants, SMTT(30)
<1>5. m_buffer' = [m_buffer EXCEPT ![TailNow] = [@ EXCEPT ![w] = In + 1]]
  BY DEF Fill, In
<1> HIDE DEF w
<1>6. /\ m_buffer' \in [Slots -> [1 .. Words -> 0 .. MaxElements]]
      /\ \A s \in Slots : s # TailNow => m_buffer'[s] = m_buffer[s]
      /\ m_buffer'[TailNow][w] = In + 1
      /\ \A v \in 1 .. Words : v # w => m_buffer'[TailNow][v] = m_buffer[TailNow][v]
  <2> DEFINE new == [m_buffer[TailNow] EXCEPT ![w] = In + 1]
  <2>1. /\ new \in [1 .. Words -> 0 .. MaxElements] /\ new[w] = In + 1
        /\ \A v \in 1 .. Words : v # w => new[v] = m_buffer[TailNow][v]
    BY <1>2, <1>3, <1>4
  <2>2. m_buffer' = [m_buffer EXCEPT ![TailNow] = new]
    BY <1>5
  <2> HIDE DEF new
  <2> QED BY <1>2, <2>1, <2>2
<1>7. ASSUME NEW n \in Nat, Out <= n, n < In
      PROVE  m_buffer'[n % Capacity] = m_buffer[n % Capacity]
  <2>1. n % Capacity \in Slots
    BY QueueConstants, RemainderRange DEF Slots
  <2>2. n % Capacity # TailNow
    BY <1>2, <1>3, <1>7, FilledSlotIsFree
  <2> QED BY <1>6, <2>1, <2>2
<1>8. QueueTypeOK'
  <2>1. p_word' \in NotInside .. Words
    BY <1>1, <1>3, SMT DEF NotInside
  <2> QED BY <1>1, <1>6, <2>1 DEF QueueIInv, QueueTypeOK
<1>9. QueueOrder'
  BY <1>1, <1>3 DEF QueueIInv, QueueOrder, Filling, Copying
<1>10. QueueResident'
  <2> SUFFICES ASSUME NEW k \in Out + 1 .. In
               PROVE  m_buffer'[(k - 1) % Capacity] = sent[k]
    BY <1>1 DEF QueueResident
  <2>1. k - 1 \in Nat /\ Out <= k - 1 /\ k - 1 < In
    BY QueueCountsType, SMT
  <2>2. m_buffer'[(k - 1) % Capacity] = m_buffer[(k - 1) % Capacity]
    BY <1>7, <2>1
  <2> QED BY <2>2 DEF QueueIInv, QueueResident
<1>11. QueueFilled'
  <2> SUFFICES ASSUME NEW v \in 1 .. w
               PROVE  m_buffer'[TailNow][v] = In + 1
    BY <1>1, <1>2 DEF QueueFilled
  <2>1. CASE v = w
    BY <1>6, <2>1
  <2>2. CASE v # w
    <3>1. v \in 1 .. p_word /\ v \in 1 .. Words
      <4>1. v \in 1 .. p_word
        BY <1>3, <2>2
      <4> QED BY <1>1, <1>3, <4>1, QueueConstants, SMT
    <3> QED BY <1>2, <1>6, <2>2, <3>1 DEF QueueIInv, QueueFilled
  <2> QED BY <2>1, <2>2
<1>12. QueueCopied'
  <2>1. CASE Copying
    <3>1. Out < In /\ Out \in Nat /\ Out <= Out
      <4>1. Out < c_acq - 1
        BY <2>1 DEF QueueIInv, QueueOrder
      <4> QED BY <4>1, QueueCountsType, SMT
    <3>2. m_buffer'[Out % Capacity] = m_buffer[Out % Capacity]
      BY <1>7, <3>1
    <3> QED BY <1>1, <3>2 DEF QueueIInv, QueueCopied
  <2>2. CASE ~Copying
    BY <1>1, <2>2, SMT DEF QueueCopied, Copying, NotInside
  <2> QED BY <2>1, <2>2
<1> QED BY <1>1, <1>8, <1>9, <1>10, <1>11, <1>12
        DEF QueueIInv, QueueCounts, QueueIntact

(* enqueue(), the releasing store: the element is whole and there is room. *)
LEMMA PublishIInv ==
    ASSUME QueueIInv, Publish
    PROVE  QueueIInv' /\ Element(In + 1) \in Elements /\ In - Out < Capacity - 1
<1> DEFINE e == Element(In + 1)
           stored == Wrapped(TailNow + 1)
<1>1. /\ UNCHANGED <<m_buffer, m_head, got, p_acq, c_word, c_out, c_acq>>
      /\ m_tail' = Append(m_tail, stored)
      /\ sent' = Append(sent, e)
      /\ p_word = Words /\ p_word' = NotInside /\ Out' = Out
  BY DEF Publish, consumerVars, In, Out
<1>2. /\ In \in Int /\ In \in Nat /\ Out \in Nat /\ Out \in Int /\ Out <= In
      /\ c_acq - 1 <= In /\ 1 <= c_acq /\ c_acq \in Int
      /\ p_acq \in Int /\ p_acq - 1 <= Out
  BY QueueCountsType, SMT
<1>3. Filling
  BY <1>1, QueueConstants, SMT DEF Filling, NotInside
<1>4. In < (p_acq - 1) + (Capacity - 1) /\ In < MaxElements
  BY <1>3 DEF QueueIInv, QueueOrder
<1>5. In - Out < Capacity - 1 /\ In + 1 \in 1 .. MaxElements
  BY <1>2, <1>4, QueueConstants, SMT
<1>6. e \in Elements
  BY <1>5 DEF Elements
<1>7. stored = (In + 1) % Capacity /\ stored \in Slots
  <2>1. stored = (In + 1) % Capacity
    BY <1>2, QueueSlotsOfCounts, QueueConstants, WrappedIncrement DEF Wrapped
  <2>2. In + 1 \in Int
    BY <1>2, SMT
  <2> HIDE DEF stored
  <2> QED BY <2>1, <2>2, QueueConstants, RemainderRange DEF Slots
<1>8. m_buffer[In % Capacity] = e
  <2>1. m_buffer[In % Capacity] \in [1 .. Words -> 0 .. MaxElements]
    BY QueueSlotsOfCounts DEF QueueIInv, QueueTypeOK
  <2>2. \A w \in 1 .. Words : m_buffer[In % Capacity][w] = In + 1
    BY <1>1 DEF QueueIInv, QueueFilled
  <2> QED BY <2>1, <2>2 DEF Element
<1> HIDE DEF e, stored
<1>9. sent \in Seq(Elements) /\ m_tail \in Seq(Slots) /\ Len(m_tail) = In + 1
  BY QueueCountsType DEF QueueIInv, QueueTypeOK
<1>10. /\ sent' \in Seq(Elements) /\ In' = In + 1 /\ sent'[In + 1] = e
       /\ \A k \in 1 .. In : sent'[k] = sent[k]
  BY <1>1, <1>6, <1>9, SMT DEF In
<1>11. /\ m_tail' \in Seq(Slots) /\ m_tail' # <<>>
       /\ Len(m_tail') = In + 2 /\ m_tail'[In + 2] = stored
       /\ \A k \in 1 .. In + 1 : m_tail'[k] = m_tail[k]
  <2> HIDE DEF In
  <2> QED BY <1>1, <1>2, <1>7, <1>9, SMT
<1> HIDE DEF In, Out
<1>12. QueueTypeOK'
  <2>1. c_acq' \in 1 .. Len(m_tail') /\ p_word' \in NotInside .. Words
    BY <1>1, <1>2, <1>11, QueueConstants, SMT DEF NotInside
  <2> QED BY <1>1, <1>10, <1>11, <2>1 DEF QueueIInv, QueueTypeOK
<1>13. QueueCounts'
  <2>1. \A k \in 1 .. In + 2 : m_tail'[k] = (k - 1) % Capacity
    <3> SUFFICES ASSUME NEW k \in 1 .. In + 2
                 PROVE  m_tail'[k] = (k - 1) % Capacity
      OBVIOUS
    <3>1. CASE k = In + 2
      <4>1. k - 1 = In + 1
        BY <1>2, <3>1, SMT
      <4> QED BY <1>7, <1>11, <3>1, <4>1
    <3>2. CASE k # In + 2
      <4>1. k \in 1 .. In + 1
        BY <1>2, <3>2, SMT
      <4> QED BY <1>11, <4>1 DEF QueueIInv, QueueCounts
    <3> QED BY <3>1, <3>2
  <2>2. In' + 1 = In + 2
    BY <1>2, <1>10, SMT
  <2> QED BY <1>1, <1>11, <2>1, <2>2 DEF QueueIInv, QueueCounts
<1>14. QueueOrder'
  <2>1. In + 1 <= (p_acq - 1) + (Capacity - 1)
    BY <1>2, <1>4, QueueConstants, SMT
  <2> QED BY <1>1, <1>10, <2>1 DEF QueueIInv, QueueOrder, Filling, Copying
<1>15. QueueResident'
  <2> SUFFICES ASSUME NEW k \in Out + 1 .. In + 1
               PROVE  m_buffer[(k - 1) % Capacity] = sent'[k]
    BY <1>1, <1>10 DEF QueueResident
  <2>1. CASE k = In + 1
    <3>1. k - 1 = In
      BY <1>2, <2>1, SMT
    <3> QED BY <1>8, <1>10, <2>1, <3>1
  <2>2. CASE k # In + 1
    <3>1. k \in Out + 1 .. In /\ k \in 1 .. In
      BY <1>2, <2>2, SMT
    <3> QED BY <1>10, <3>1 DEF QueueIInv, QueueResident
  <2> QED BY <2>1, <2>2
<1>16. QueueFilled'
  BY <1>1, SMT DEF QueueFilled, NotInside
<1>17. QueueCopied'
  BY <1>1 DEF QueueIInv, QueueCopied
<1>18. QueueIntact'
  <2> SUFFICES ASSUME NEW k \in 1 .. Out
               PROVE  got[k] = sent'[k]
    BY <1>1 DEF QueueIntact
  <2>1. k \in 1 .. In
    BY <1>2, SMT
  <2> QED BY <1>10, <2>1 DEF QueueIInv, QueueIntact
<1> QED BY <1>5, <1>6, <1>12, <1>13, <1>14, <1>15, <1>16, <1>17, <1>18
        DEF QueueIInv, e

(* dequeue(), the loads and the test. *)
LEMMA LookIInv ==
    ASSUME QueueIInv, NEW k, Look(k)
    PROVE  QueueIInv'
<1>1. /\ UNCHANGED <<m_buffer, m_tail, m_head, sent, got, p_word, p_acq, c_out>>
      /\ In' = In /\ Out' = Out
  BY DEF Look, producerVars, In, Out
<1>2. k \in c_acq .. Len(m_tail) /\ c_acq' = k /\ c_word = NotInside
  BY DEF Look
<1>3. /\ c_acq \in Int /\ 1 <= c_acq /\ k \in 1 .. Len(m_tail)
      /\ Out \in Int /\ Out <= k - 1
  BY <1>2, QueueCountsType, SMT
<1>4. \/ c_word' = NotInside
      \/ c_word' = 0 /\ Out < k - 1
  <2>1. CASE IsEmpty(HeadNow, m_tail[k])
    BY <2>1 DEF Look
  <2>2. CASE ~IsEmpty(HeadNow, m_tail[k])
    <3>1. Out # k - 1
      BY <1>2, <2>2, EmptyIsExact
    <3>2. Out < k - 1
      BY <1>3, <3>1, SMT
    <3> QED BY <2>2, <3>2 DEF Look
  <2> QED BY <2>1, <2>2
<1>5. QueueTypeOK'
  <2>1. c_word' \in NotInside .. Words
    BY <1>4, QueueConstants, SMT DEF NotInside
  <2> QED BY <1>1, <1>2, <1>3, <2>1 DEF QueueIInv, QueueTypeOK
<1>6. QueueOrder'
  BY <1>1, <1>2, <1>3, <1>4 DEF QueueIInv, QueueOrder, Filling, Copying
<1>7. QueueCopied'
  BY <1>4, SMT DEF QueueCopied, NotInside
<1> QED BY <1>1, <1>5, <1>6, <1>7
        DEF QueueIInv, QueueCounts, QueueResident, QueueFilled, QueueIntact

(* dequeue(), one word of the element. *)
LEMMA CopyIInv ==
    ASSUME QueueIInv, Copy
    PROVE  QueueIInv'
<1> DEFINE w == c_word + 1
<1>1. /\ UNCHANGED <<m_buffer, m_tail, m_head, sent, got, p_word, p_acq, c_acq>>
      /\ In' = In /\ Out' = Out
      /\ c_word \in 0 .. Words - 1 /\ c_word' = w
  BY DEF Copy, producerVars, In, Out
<1>2. /\ HeadNow = Out % Capacity
      /\ m_buffer[Out % Capacity] \in [1 .. Words -> 0 .. MaxElements]
      /\ c_out \in [1 .. Words -> 0 .. MaxElements]
  BY QueueSlotsOfCounts DEF QueueIInv, QueueTypeOK
<1>3. /\ Copying /\ c_word \in Nat /\ w \in 1 .. Words
      /\ w \in 0 .. Words /\ 1 .. w = (1 .. c_word) \cup {w}
  BY <1>1, QueueConstants, SMT DEF Copying, NotInside
<1>4. c_out' = [c_out EXCEPT ![w] = m_buffer[Out % Capacity][w]]
  BY <1>2 DEF Copy
<1> HIDE DEF w
<1>5. /\ c_out' \in [1 .. Words -> 0 .. MaxElements]
      /\ c_out'[w] = m_buffer[Out % Capacity][w]
      /\ \A v \in 1 .. Words : v # w => c_out'[v] = c_out[v]
  BY <1>2, <1>3, <1>4
<1>6. QueueTypeOK'
  <2>1. c_word' \in NotInside .. Words
    BY <1>1, <1>3, SMT DEF NotInside
  <2> QED BY <1>1, <1>5, <2>1 DEF QueueIInv, QueueTypeOK
<1>7. QueueOrder'
  BY <1>1, <1>3 DEF QueueIInv, QueueOrder, Filling, Copying
<1>8. QueueCopied'
  <2> SUFFICES ASSUME NEW v \in 1 .. w
               PROVE  c_out'[v] = m_buffer[Out % Capacity][v]
    BY <1>1 DEF QueueCopied
  <2>1. CASE v = w
    BY <1>5, <2>1
  <2>2. CASE v # w
    <3>1. v \in 1 .. c_word
      BY <1>3, <2>2
    <3>2. v \in 1 .. Words
      BY <1>1, <3>1, QueueConstants, SMT
    <3> QED BY <1>5, <2>2, <3>1, <3>2 DEF QueueIInv, QueueCopied
  <2> QED BY <2>1, <2>2
<1> QED BY <1>1, <1>6, <1>7, <1>8
        DEF QueueIInv, QueueCounts, QueueResident, QueueFilled, QueueIntact

(* dequeue(), the releasing store: what comes out is the oldest element. *)
LEMMA ReleaseIInv ==
    ASSUME QueueIInv, Release
    PROVE  QueueIInv' /\ Out < In /\ c_out = sent[Out + 1]
<1> DEFINE stored == Wrapped(HeadNow + 1)
<1>1. /\ UNCHANGED <<m_buffer, m_tail, sent, p_word, p_acq, c_out, c_acq>>
      /\ m_head' = Append(m_head, stored)
      /\ got' = Append(got, c_out)
      /\ c_word = Words /\ c_word' = NotInside /\ In' = In
  BY DEF Release, producerVars, In
<1>2. Copying
  BY <1>1, QueueConstants, SMT DEF Copying, NotInside
<1>3. /\ In \in Int /\ In \in Nat /\ Out \in Nat /\ Out \in Int
      /\ Out < c_acq - 1 /\ c_acq - 1 <= In /\ c_acq \in Int
      /\ p_acq \in Int /\ 1 <= p_acq /\ p_acq - 1 <= Out
  <2>1. Out < c_acq - 1
    BY <1>2 DEF QueueIInv, QueueOrder
  <2> QED BY <2>1, QueueCountsType, SMT
<1>4. stored = (Out + 1) % Capacity /\ stored \in Slots
  <2>1. stored = (Out + 1) % Capacity
    BY <1>3, QueueSlotsOfCounts, QueueConstants, WrappedIncrement DEF Wrapped
  <2>2. Out + 1 \in Int
    BY <1>3, SMT
  <2> HIDE DEF stored
  <2> QED BY <2>1, <2>2, QueueConstants, RemainderRange DEF Slots
<1>5. c_out = sent[Out + 1] /\ Out + 1 \in 1 .. In
  <2>1. Out + 1 \in Out + 1 .. In /\ (Out + 1) - 1 = Out /\ Out + 1 \in 1 .. In
    BY <1>3, SMT
  <2>2. m_buffer[Out % Capacity] = sent[Out + 1]
    BY <2>1 DEF QueueIInv, QueueResident
  <2>3. /\ m_buffer[Out % Capacity] \in [1 .. Words -> 0 .. MaxElements]
        /\ c_out \in [1 .. Words -> 0 .. MaxElements]
    BY QueueSlotsOfCounts DEF QueueIInv, QueueTypeOK
  <2>4. \A w \in 1 .. Words : c_out[w] = m_buffer[Out % Capacity][w]
    BY <1>1 DEF QueueIInv, QueueCopied
  <2>5. c_out = m_buffer[Out % Capacity]
    <3> DEFINE cell == m_buffer[Out % Capacity]
               S == 1 .. Words
               T == 0 .. MaxElements
    <3>1. cell \in [S -> T] /\ c_out \in [S -> T] /\ \A w \in S : c_out[w] = cell[w]
      BY <2>3, <2>4
    <3> HIDE DEF cell, S, T
    <3>2. c_out = [w \in S |-> c_out[w]] /\ cell = [w \in S |-> cell[w]]
      BY <3>1
    <3>3. [w \in S |-> c_out[w]] = [w \in S |-> cell[w]]
      BY <3>1
    <3> QED BY <3>2, <3>3 DEF cell
  <2> QED BY <2>1, <2>2, <2>5
<1> HIDE DEF stored
<1>6. /\ got \in Seq([1 .. Words -> 0 .. MaxElements]) /\ m_head \in Seq(Slots)
      /\ c_out \in [1 .. Words -> 0 .. MaxElements] /\ Len(m_head) = Out + 1
  BY QueueCountsType DEF QueueIInv, QueueTypeOK
<1>7. /\ got' \in Seq([1 .. Words -> 0 .. MaxElements])
      /\ Out' = Out + 1 /\ got'[Out + 1] = c_out
      /\ \A k \in 1 .. Out : got'[k] = got[k]
  <2> DEFINE E == [1 .. Words -> 0 .. MaxElements]
  <2>1. got \in Seq(E) /\ c_out \in E
    BY <1>6
  <2> HIDE DEF E
  <2>2. /\ got' \in Seq(E) /\ Out' = Out + 1 /\ got'[Out + 1] = c_out
        /\ \A k \in 1 .. Out : got'[k] = got[k]
    BY <1>1, <2>1, SMT DEF Out
  <2> QED BY <2>2 DEF E
<1>8. /\ m_head' \in Seq(Slots) /\ m_head' # <<>>
      /\ Len(m_head') = Out + 2 /\ m_head'[Out + 2] = stored
      /\ \A k \in 1 .. Out + 1 : m_head'[k] = m_head[k]
  <2> HIDE DEF Out
  <2> QED BY <1>1, <1>3, <1>4, <1>6, SMT
<1> HIDE DEF In, Out
<1>9. QueueTypeOK'
  <2>1. p_acq' \in 1 .. Len(m_head') /\ c_word' \in NotInside .. Words
    BY <1>1, <1>3, <1>8, QueueConstants, SMT DEF NotInside
  <2> QED BY <1>1, <1>7, <1>8, <2>1 DEF QueueIInv, QueueTypeOK
<1>10. QueueCounts'
  <2>1. \A k \in 1 .. Out + 2 : m_head'[k] = (k - 1) % Capacity
    <3> SUFFICES ASSUME NEW k \in 1 .. Out + 2
                 PROVE  m_head'[k] = (k - 1) % Capacity
      OBVIOUS
    <3>1. CASE k = Out + 2
      <4>1. k - 1 = Out + 1
        BY <1>3, <3>1, SMT
      <4> QED BY <1>4, <1>8, <3>1, <4>1
    <3>2. CASE k # Out + 2
      <4>1. k \in 1 .. Out + 1
        BY <1>3, <3>2, SMT
      <4> QED BY <1>8, <4>1 DEF QueueIInv, QueueCounts
    <3> QED BY <3>1, <3>2
  <2>2. Out' + 1 = Out + 2
    BY <1>3, <1>7, SMT
  <2> QED BY <1>1, <1>8, <2>1, <2>2 DEF QueueIInv, QueueCounts
<1>11. QueueOrder'
  <2>1. Out + 1 <= c_acq - 1
    BY <1>3, SMT
  <2> QED BY <1>1, <1>7, <2>1 DEF QueueIInv, QueueOrder, Filling, Copying
<1>12. QueueResident'
  <2>1. \A k \in Out + 2 .. In : k \in Out + 1 .. In
    BY <1>3, SMT
  <2>2. Out' + 1 = Out + 2
    BY <1>3, <1>7, SMT
  <2> QED BY <1>1, <2>1, <2>2 DEF QueueIInv, QueueResident
<1>13. QueueFilled'
  BY <1>1 DEF QueueIInv, QueueFilled
<1>14. QueueCopied'
  BY <1>1, SMT DEF QueueCopied, NotInside
<1>15. QueueIntact'
  <2> SUFFICES ASSUME NEW k \in 1 .. Out + 1
               PROVE  got'[k] = sent[k]
    BY <1>1, <1>7 DEF QueueIntact
  <2>1. CASE k = Out + 1
    BY <1>5, <1>7, <2>1
  <2>2. CASE k # Out + 1
    <3>1. k \in 1 .. Out
      BY <1>3, <2>2, SMT
    <3> QED BY <1>7, <3>1 DEF QueueIInv, QueueIntact
  <2> QED BY <2>1, <2>2
<1>16. Out < In
  BY <1>3, SMT
<1> QED BY <1>5, <1>9, <1>10, <1>11, <1>12, <1>13, <1>14, <1>15, <1>16
        DEF QueueIInv
-----------------------------------------------------------------------------
(* Every step keeps the invariant and maps to a step of the FIFO, or to none. *)
LEMMA QueueStep ==
    ASSUME QueueIInv, [QueueNext]_queueVars
    PROVE  QueueIInv' /\ [Fifo!Next]_(Fifo!vars)
<1> USE DEF Fifo!Next, Fifo!vars
<1>1. CASE UNCHANGED queueVars
  <2>1. UNCHANGED <<m_buffer, m_head, m_tail, p_word, p_acq, c_word, c_out,
                    c_acq, sent, got>>
    BY <1>1 DEF queueVars, producerVars, consumerVars
  <2>2. QueueIInv'
    BY <2>1 DEF QueueIInv, QueueTypeOK, QueueCounts, QueueOrder, QueueResident,
                QueueFilled, QueueCopied, QueueIntact, In, Out, Filling, Copying
  <2> QED BY <2>1, <2>2
<1>2. ASSUME NEW k, Claim(k)
      PROVE  QueueIInv' /\ [Fifo!Next]_(Fifo!vars)
  BY <1>2, ClaimIInv DEF Claim, consumerVars
<1>3. CASE Fill
  BY <1>3, FillIInv DEF Fill, consumerVars
<1>4. CASE Publish
  <2>1. Fifo!Put(Element(In + 1))
    BY <1>4, PublishIInv DEF Fifo!Put, Publish, consumerVars, In, Out
  <2> QED BY <1>4, <2>1, PublishIInv
<1>5. ASSUME NEW k, Look(k)
      PROVE  QueueIInv' /\ [Fifo!Next]_(Fifo!vars)
  BY <1>5, LookIInv DEF Look, producerVars
<1>6. CASE Copy
  BY <1>6, CopyIInv DEF Copy, producerVars
<1>7. CASE Release
  <2>1. Fifo!Get
    BY <1>7, ReleaseIInv DEF Fifo!Get, Release, producerVars, In, Out
  <2> QED BY <1>7, <2>1, ReleaseIInv
<1> QED BY <1>1, <1>2, <1>3, <1>4, <1>5, <1>6, <1>7
        DEF QueueNext, Enqueue, Dequeue

(* The invariant rules out a race on a slot. *)
LEMMA NoRaceOnSlot ==
    ASSUME QueueIInv PROVE SlotsRaceFree
<1>1. Filling => In < (p_acq - 1) + (Capacity - 1)
  BY DEF QueueIInv, QueueOrder
<1>2. Copying => Out < c_acq - 1
  BY DEF QueueIInv, QueueOrder
<1>3. ASSUME Filling, Copying PROVE TailNow # HeadNow
  <2>1. Out \in Nat /\ Out <= Out /\ Out < In
    BY <1>2, <1>3, QueueCountsType, SMT
  <2>2. Out % Capacity # In % Capacity
    BY <1>3, <2>1, FilledSlotIsFree
  <2> QED BY <2>2, QueueSlotsOfCounts
<1> QED BY <1>1, <1>2, <1>3 DEF SlotsRaceFree, In, Out

(* size() tells each thread the difference of the counts it knows of. *)
LEMMA SizeIsCounted ==
    ASSUME QueueIInv PROVE SizeSafe
<1>1. ASSUME NEW k \in p_acq .. Len(m_head)
      PROVE  SizeSeen(TailNow, m_head[k]) = In - (k - 1)
  <2> DEFINE j == k - 1
  <2>0. k \in p_acq .. Out + 1
    BY QueueCountsType
  <2>1. k \in 1 .. Out + 1 /\ j \in Int /\ In \in Int /\ j <= In /\ In - j < Capacity
    BY <2>0, QueueCountsType, QueueConstants, SMTT(30)
  <2>2. m_head[k] = j % Capacity /\ TailNow = In % Capacity
    BY <2>1, QueueSlotsOfCounts DEF QueueIInv, QueueCounts
  <2> HIDE DEF j
  <2>3. ((In % Capacity) - (j % Capacity)) % Capacity = In - j
    BY <2>1, QueueConstants, WrappedDifference
  <2> QED BY <2>2, <2>3 DEF SizeSeen, Wrapped, j
<1>2. ASSUME NEW k \in c_acq .. Len(m_tail)
      PROVE  SizeSeen(m_tail[k], HeadNow) = (k - 1) - Out
  <2> DEFINE j == k - 1
  <2>0. k \in c_acq .. In + 1
    BY QueueCountsType
  <2>1. k \in 1 .. In + 1 /\ j \in Int /\ Out \in Int /\ Out <= j /\ j - Out < Capacity
    BY <2>0, QueueCountsType, QueueConstants, SMTT(30)
  <2>2. m_tail[k] = j % Capacity /\ HeadNow = Out % Capacity
    BY <2>1, QueueSlotsOfCounts DEF QueueIInv, QueueCounts
  <2> HIDE DEF j
  <2>3. ((j % Capacity) - (Out % Capacity)) % Capacity = j - Out
    BY <2>1, QueueConstants, WrappedDifference
  <2> QED BY <2>2, <2>3 DEF SizeSeen, Wrapped, j
<1> QED BY <1>1, <1>2 DEF SizeSafe, In, Out

(* The invariant holds in every reachable state. *)
THEOREM QueueInvariance == QueueSpec => []QueueIInv
<1>1. QueueIInv /\ [QueueNext]_queueVars => QueueIInv'
  BY QueueStep
<1> QED BY InitQueueIInv, <1>1, PTL DEF QueueSpec

(* The two threads never race on a slot, for any capacity and element size, *)
(* although a masked index names a slot again every lap (lines 88 and 112). *)
THEOREM QueueNoRace == QueueSpec => []SlotsRaceFree
BY QueueInvariance, NoRaceOnSlot, PTL

(* size() is exact for the counts each thread knows of, however stale its   *)
(* loads and however often the indices wrapped (lines 128-132).             *)
THEOREM QueueSizeExact == QueueSpec => []SizeSafe
BY QueueInvariance, SizeIsCounted, PTL

(* The queue is a bounded FIFO of Capacity - 1 whole elements: none is lost, *)
(* repeated, torn or reordered (lines 78-119).                               *)
THEOREM QueueIsFifo == QueueSpec => ImplementsFifo
<1>1. QueueInit => Fifo!Init
  BY DEF QueueInit, Fifo!Init
<1>2. QueueIInv /\ [QueueNext]_queueVars => [Fifo!Next]_(Fifo!vars)
  BY QueueStep
<1> QED BY QueueInvariance, <1>1, <1>2, PTL DEF QueueSpec, ImplementsFifo, Fifo!Spec
=============================================================================
