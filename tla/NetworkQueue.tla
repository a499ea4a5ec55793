---------------------------- MODULE NetworkQueue ----------------------------
(***************************************************************************)
(* core/sys/network_queue.hpp: the in-memory queue between the thread that *)
(* receives datagrams and the thread that persists them, one producer      *)
(* (enqueue) and one consumer (dequeue).                                   *)
(*                                                                         *)
(* Indices are stored already masked, so a full queue keeps one slot empty *)
(* and a slot is written again under the same index.  As in RingBuffer an  *)
(* atomic index is the sequence of the values stored to it, and an acquire *)
(* load of the other thread's index returns any store not older than the   *)
(* newest it has seen.  An element is copied word by word.                 *)
(***************************************************************************)
EXTENDS Integers, Sequences

CONSTANTS Capacity,    \* slots, one of them always empty
          Words,       \* words of an element
          MaxElements  \* bound: elements the producer has to send

ASSUME QueueAssumption ==
    /\ Capacity \in Nat \ {0, 1}
    /\ Words \in Nat \ {0}
    /\ MaxElements \in Nat

VARIABLES m_buffer,
          m_head,     \* stores to the head, oldest first
          m_tail,     \* stores to the tail, oldest first
          p_word,     \* words enqueue() has copied; -1 outside the call
          p_acq,      \* newest store to m_head the producer has seen
          c_word,     \* words dequeue() has copied; -1 outside the call
          c_out,      \* the consumer's `out`
          c_acq,      \* newest store to m_tail the consumer has seen
          sent,       \* history: elements whose enqueue returned true
          got         \* history: elements dequeue returned

producerVars == <<p_word, p_acq, m_tail, sent>>
consumerVars == <<c_word, c_out, c_acq, m_head, got>>
queueVars == <<m_buffer, producerVars, consumerVars>>
-----------------------------------------------------------------------------
NotInside == -1
Slots   == 0 .. Capacity - 1

\* An element, word by word: each word tells which element it came from.
Element(n) == [w \in 1 .. Words |-> n]
Elements   == {Element(n) : n \in 1 .. MaxElements}

Newest(stores) == stores[Len(stores)]
\* Mutant: the mask is Capacity, not Capacity - 1.
WrappedByCapacity(idx) == idx % (Capacity + 1)
Wrapped(idx) == idx % Capacity      \* idx & MASK, Capacity a power of two
HeadNow == Newest(m_head)
TailNow == Newest(m_tail)

\* Mutant: the next index is compared before it is masked.
IsFullUnmasked(tail, head) == tail + 1 = head
IsFull(tail, head) == Wrapped(tail + 1) = head

\* Mutant: the queue counts as empty one element early.
IsEmptyEarly(head, tail) == tail \in {head, Wrapped(head + 1)}
IsEmpty(head, tail) == head = tail

\* Mutant: the sign of the difference is lost.
SizeSwapped(tail, head) == Wrapped(head - tail)
SizeSeen(tail, head) == Wrapped(tail - head)

QueueInit ==
    /\ m_buffer = [s \in Slots |-> Element(0)]
    /\ m_head = <<0>> /\ m_tail = <<0>>
    /\ p_word = NotInside /\ p_acq = 1
    /\ c_word = NotInside /\ c_out = Element(0) /\ c_acq = 1
    /\ sent = <<>> /\ got = <<>>

\* enqueue(): both loads and the test; the load of the head returns store k.
\* A caller that is refused calls again with the same element.
Claim(k) ==
    /\ p_word = NotInside /\ Len(sent) < MaxElements
    /\ k \in p_acq .. Len(m_head)
    /\ p_acq' = k
    /\ p_word' = IF IsFull(TailNow, m_head[k]) THEN NotInside ELSE 0
    /\ UNCHANGED <<m_buffer, m_tail, sent, consumerVars>>

\* m_buffer[t] = value, one word.
Fill ==
    /\ p_word \in 0 .. Words - 1
    /\ p_word' = p_word + 1
    /\ m_buffer' = [m_buffer EXCEPT ![TailNow][p_word + 1] = Len(sent) + 1]
    /\ UNCHANGED <<p_acq, m_tail, sent, consumerVars>>

\* Mutant: the tail is stored before the element is copied whole.
PublishEarly ==
    /\ p_word \in {Words - 1, Words}
    /\ p_word' = NotInside
    /\ m_tail' = Append(m_tail, Wrapped(TailNow + 1))
    /\ sent' = Append(sent, Element(Len(sent) + 1))
    /\ UNCHANGED <<m_buffer, p_acq, consumerVars>>

Publish ==
    /\ p_word = Words
    /\ p_word' = NotInside
    /\ m_tail' = Append(m_tail, Wrapped(TailNow + 1))
    /\ sent' = Append(sent, Element(Len(sent) + 1))
    /\ UNCHANGED <<m_buffer, p_acq, consumerVars>>

\* dequeue(): both loads and the test; the load of the tail returns store k.
Look(k) ==
    /\ c_word = NotInside
    /\ k \in c_acq .. Len(m_tail)
    /\ c_acq' = k
    /\ c_word' = IF IsEmpty(HeadNow, m_tail[k]) THEN NotInside ELSE 0
    /\ UNCHANGED <<m_buffer, c_out, m_head, got, producerVars>>

\* out = m_buffer[h], one word.
Copy ==
    /\ c_word \in 0 .. Words - 1
    /\ c_word' = c_word + 1
    /\ c_out' = [c_out EXCEPT ![c_word + 1] = m_buffer[HeadNow][c_word + 1]]
    /\ UNCHANGED <<m_buffer, c_acq, m_head, got, producerVars>>

Release ==
    /\ c_word = Words
    /\ c_word' = NotInside
    /\ m_head' = Append(m_head, Wrapped(HeadNow + 1))
    /\ got' = Append(got, c_out)
    /\ UNCHANGED <<m_buffer, c_out, c_acq, producerVars>>
-----------------------------------------------------------------------------
Enqueue == (\E k \in 1 .. Len(m_head) : Claim(k)) \/ Fill \/ Publish
Dequeue == (\E k \in 1 .. Len(m_tail) : Look(k)) \/ Copy \/ Release

QueueNext == Enqueue \/ Dequeue

QueueSpec == QueueInit /\ [][QueueNext]_queueVars

\* Both threads keep calling and finish each call; a store becomes visible to a
\* thread that keeps loading.
QueueFairness ==
    /\ WF_queueVars(Claim(Len(m_head))) /\ WF_queueVars(Fill) /\ WF_queueVars(Publish)
    /\ WF_queueVars(Look(Len(m_tail))) /\ WF_queueVars(Copy) /\ WF_queueVars(Release)
-----------------------------------------------------------------------------
\* Types of the queue's variables.
QueueTypeOK ==
    /\ m_buffer \in [Slots -> [1 .. Words -> 0 .. MaxElements]]
    /\ m_head \in Seq(Slots) /\ m_head # <<>>
    /\ m_tail \in Seq(Slots) /\ m_tail # <<>>
    /\ p_word \in NotInside .. Words /\ p_acq \in 1 .. Len(m_head)
    /\ c_word \in NotInside .. Words /\ c_acq \in 1 .. Len(m_tail)
    /\ c_out \in [1 .. Words -> 0 .. MaxElements]
    /\ sent \in Seq(Elements)
    /\ got \in Seq([1 .. Words -> 0 .. MaxElements])

\* No data race on a slot (lines 88 and 112), although a masked index names the
\* same slot again every lap: the threads are never in one slot at once, the
\* producer reuses a slot only after acquiring the store that released it, and
\* the consumer copies one only after acquiring the store that published it.
Filling == p_word # NotInside
Copying == c_word # NotInside
SlotsRaceFree ==
    /\ Filling /\ Copying => TailNow # HeadNow
    /\ Filling => Len(sent) < (p_acq - 1) + (Capacity - 1)
    /\ Copying => Len(got) < c_acq - 1

\* size() (lines 128-132) whatever stale load it does: the producer never sees
\* fewer elements than the queue holds, nor the consumer more, and neither
\* takes a lap of the masked indices for an empty queue.
SizeSafe ==
    /\ \A k \in p_acq .. Len(m_head) :
          SizeSeen(TailNow, m_head[k]) = Len(sent) - (k - 1)
    /\ \A k \in c_acq .. Len(m_tail) :
          SizeSeen(m_tail[k], HeadNow) = (k - 1) - Len(got)

\* The queue is a bounded FIFO of Capacity - 1 whole elements.
Fifo == INSTANCE BoundedFifo WITH Capacity <- Capacity - 1, Record <- Elements
ImplementsFifo == Fifo!Spec

\* A producer that retries a refused enqueue gets every element through, and
\* every one of them is dequeued (lines 85-86 and 109-110: refusals are not
\* final and no wake-up is lost).
AllThrough == Filling ~> Len(got) = MaxElements
=============================================================================
