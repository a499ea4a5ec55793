---------------------------- MODULE PartsProofs ----------------------------
(***************************************************************************)
(* What the parts of the system promise on any instance: Parts runs one of *)
(* them at a time, so each part's invariant is proved for its own steps    *)
(* and carried over to PartsSpec at the end.  The queue's proof is in      *)
(* NetworkQueueProofs.                                                     *)
(***************************************************************************)
EXTENDS Parts, NetworkQueueProofs, SharedLemmas, FiniteSetTheorems,
        SequenceTheorems, WellFoundedInduction, TLAPS

-----------------------------------------------------------------------------
\* Numbers.
(* Min() of a set of numbers is its least one.                               *)
LEMMA MinIsLeast ==
    ASSUME NEW T, T \subseteq Nat, T # {}
    PROVE  Min(T) \in T /\ \A n \in T : Min(T) <= n
<1>1. \E m \in T : \A n \in T : m <= n
  BY LeastNumber
<1> QED BY <1>1 DEF Min

(* A set of numbers with a bound has a greatest one.                         *)
LEMMA GreatestNumber ==
    ASSUME NEW T, NEW b \in Nat, T \subseteq Nat, T # {}, \A n \in T : n <= b
    PROVE  \E m \in T : \A n \in T : n <= m
<1> DEFINE U == {d \in Nat : \E n \in T : n = b - d}
<1>1. \A n \in T : b - n \in U /\ n \in Nat
  <2> SUFFICES ASSUME NEW n \in T PROVE b - n \in U /\ n \in Nat
    OBVIOUS
  <2>1. n \in Nat /\ b - n \in Nat /\ n = b - (b - n)
    BY SMT
  <2> QED BY <2>1
<1>2. PICK d \in U : \A e \in U : d <= e
  <2>1. U # {} /\ U \subseteq Nat
    BY <1>1
  <2> HIDE DEF U
  <2> QED BY <2>1, LeastNumber
<1>3. PICK m \in T : m = b - d
  OBVIOUS
<1>4. ASSUME NEW n \in T PROVE n <= m
  <2>1. d <= b - n /\ n \in Nat /\ d \in Nat /\ m \in Nat
    BY <1>1, <1>2
  <2> QED BY <1>3, <2>1, SMT
<1> QED BY <1>4

-----------------------------------------------------------------------------
\* What a bag counts.
\* Where an array with the indices I holds something, and a bag as a set: how
\* often it holds each of the things in X.
Places(data, I, x) == {k \in I : data[k] = x}
Stored(X, bag) == UNION {{x} \X (1 .. bag[x]) : x \in X}

(* The places of a thing can be counted.                                     *)
LEMMA PlacesFinite ==
    ASSUME NEW data, NEW I, IsFiniteSet(I), NEW x
    PROVE  IsFiniteSet(Places(data, I, x)) /\ Cardinality(Places(data, I, x)) \in Nat
<1>1. Places(data, I, x) \subseteq I
  BY DEF Places
<1> QED BY <1>1, FS_Subset, FS_CardinalityType

(* A set with one element in the place of another is as big as before.       *)
LEMMA OneForAnother ==
    ASSUME NEW S, IsFiniteSet(S), NEW i \in S, NEW j, j \notin S
    PROVE  Cardinality((S \ {i}) \cup {j}) = Cardinality(S)
<1>1. /\ IsFiniteSet(S \ {i}) /\ Cardinality(S \ {i}) = Cardinality(S) - 1
      /\ Cardinality(S) \in Nat
  BY FS_RemoveElement, FS_CardinalityType
<1>2. Cardinality((S \ {i}) \cup {j}) = Cardinality(S \ {i}) + 1
  BY <1>1, FS_AddElement
<1> QED BY <1>1, <1>2, SMT

\* e is d with the values of i and j exchanged, over the indices in I.
TradedIn(d, e, I, i, j) ==
    \A k \in I : e[k] = IF k = i THEN d[j] ELSE IF k = j THEN d[i] ELSE d[k]

(* An exchange of two elements changes no count.                             *)
LEMMA ExchangeCounts ==
    ASSUME NEW I, IsFiniteSet(I), NEW d, NEW e, NEW i \in I, NEW j \in I, NEW x,
           TradedIn(d, e, I, i, j)
    PROVE  Cardinality(Places(e, I, x)) = Cardinality(Places(d, I, x))
<1> DEFINE S == Places(d, I, x)
           N == Places(e, I, x)
<1>1. IsFiniteSet(S)
  BY PlacesFinite
<1>2. \A k : k \in N <=> /\ k \in I
                         /\ (IF k = i THEN d[j] ELSE IF k = j THEN d[i] ELSE d[k]) = x
  BY DEF Places, TradedIn
<1>3. \A k : k \in S <=> k \in I /\ d[k] = x
  BY DEF Places
<1> HIDE DEF S, N
<1>4. CASE d[i] = x /\ d[j] # x
  <2>1. N = (S \ {i}) \cup {j} /\ i \in S /\ j \notin S
    BY <1>2, <1>3, <1>4
  <2> QED BY <1>1, <2>1, OneForAnother DEF S, N
<1>5. CASE d[i] # x /\ d[j] = x
  <2>1. N = (S \ {j}) \cup {i} /\ j \in S /\ i \notin S
    BY <1>2, <1>3, <1>5
  <2> QED BY <1>1, <2>1, OneForAnother DEF S, N
<1>6. CASE (d[i] = x) <=> (d[j] = x)
  <2>1. N = S
    BY <1>2, <1>3, <1>6
  <2> QED BY <2>1 DEF S, N
<1> QED BY <1>4, <1>5, <1>6

\* e is d over the indices in I.
AgreeOn(d, e, I) == \A k \in I : e[k] = d[k]

(* One more element at the end is one more of its kind.                      *)
LEMMA PushCounts ==
    ASSUME NEW I, IsFiniteSet(I), NEW n, n \notin I, NEW d, NEW e, NEW x,
           AgreeOn(d, e, I)
    PROVE  Cardinality(Places(e, I \cup {n}, x))
             = Cardinality(Places(d, I, x)) + (IF x = e[n] THEN 1 ELSE 0)
<1> DEFINE S == Places(d, I, x)
           N == Places(e, I \cup {n}, x)
<1>1. IsFiniteSet(S) /\ Cardinality(S) \in Nat
  BY PlacesFinite
<1>3. \A k : k \in N <=> (k = n /\ e[n] = x) \/ (k \in I /\ d[k] = x)
  BY DEF Places, AgreeOn
<1>4. \A k : k \in S <=> k \in I /\ d[k] = x
  BY DEF Places
<1> HIDE DEF S, N
<1>5. CASE x = e[n]
  <2>1. n \notin S
    BY <1>4
  <2>2. N = S \cup {n}
    BY <1>3, <1>4, <1>5
  <2> QED BY <1>1, <1>5, <2>1, <2>2, FS_AddElement DEF S, N
<1>6. CASE x # e[n]
  <2>1. N = S
    BY <1>3, <1>4, <1>6
  <2>2. Cardinality(N) = Cardinality(S) + 0
    BY <1>1, <2>1, SMT
  <2> QED BY <1>6, <2>2 DEF S, N
<1> QED BY <1>5, <1>6

(* The last element l in the place of the first, f, is one less of what was  *)
(* first.                                                                    *)
LEMMA PopCounts ==
    ASSUME NEW I, IsFiniteSet(I), NEW f \in I, NEW l \in I, NEW d, NEW e, NEW x,
           \A k \in I \ {l} : e[k] = IF k = f THEN d[l] ELSE d[k]
    PROVE  /\ Cardinality(Places(e, I \ {l}, x))
                = Cardinality(Places(d, I, x)) - (IF x = d[f] THEN 1 ELSE 0)
           /\ x = d[f] => Cardinality(Places(d, I, x)) > 0
<1> DEFINE S == Places(d, I, x)
           N == Places(e, I \ {l}, x)
<1>1. IsFiniteSet(S) /\ Cardinality(S) \in Nat
  BY PlacesFinite
<1>3. \A k : k \in N <=> k \in I /\ k # l /\ (IF k = f THEN d[l] ELSE d[k]) = x
  BY DEF Places
<1>4. \A k : k \in S <=> k \in I /\ d[k] = x
  BY DEF Places
<1> HIDE DEF S, N
<1>5. CASE x = d[f]
  <2>1. \E i \in S : N = S \ {i}
    <3>1. CASE d[l] = x
      <4>1. l \in S /\ N = S \ {l}
        BY <1>3, <1>4, <1>5, <3>1
      <4> QED BY <4>1
    <3>2. CASE d[l] # x
      <4>1. f \in S /\ N = S \ {f}
        BY <1>3, <1>4, <1>5, <3>2
      <4> QED BY <4>1
    <3> QED BY <3>1, <3>2
  <2>2. Cardinality(N) = Cardinality(S) - 1 /\ Cardinality(N) \in Nat
    BY <1>1, <2>1, FS_RemoveElement, FS_CardinalityType
  <2>3. Cardinality(S) > 0
    BY <1>1, <2>2, SMT
  <2> QED BY <1>5, <2>2, <2>3 DEF S, N
<1>6. CASE x # d[f]
  <2>1. Cardinality(N) = Cardinality(S)
    <3>1. CASE d[l] = x
      <4>1. l \in S /\ f \notin S /\ N = (S \ {l}) \cup {f}
        BY <1>3, <1>4, <1>6, <3>1
      <4> QED BY <1>1, <4>1, OneForAnother
    <3>2. CASE d[l] # x
      <4>1. N = S
        BY <1>3, <1>4, <1>6, <3>2
      <4> QED BY <4>1
    <3> QED BY <3>1, <3>2
  <2>2. Cardinality(N) = Cardinality(S) - 0
    BY <1>1, <2>1, SMT
  <2> QED BY <1>6, <2>2 DEF S, N
<1> QED BY <1>5, <1>6

(* One more of a kind makes a bag bigger by one.                             *)
LEMMA StoredMore ==
    ASSUME NEW X, NEW bag \in [X -> Nat], NEW x \in X, IsFiniteSet(Stored(X, bag)),
           NEW bag2, bag2 = [bag EXCEPT ![x] = @ + 1]
    PROVE  /\ IsFiniteSet(Stored(X, bag2))
           /\ Cardinality(Stored(X, bag2)) = Cardinality(Stored(X, bag)) + 1
<1> DEFINE new == <<x, bag[x] + 1>>
<1>1. \A y \in X : bag2[y] = IF y = x THEN bag[y] + 1 ELSE bag[y]
  OBVIOUS
<1>2. \A k : k \in 1 .. bag[x] + 1 <=> k \in 1 .. bag[x] \/ k = bag[x] + 1
  BY SMT
<1>3. bag[x] + 1 \notin 1 .. bag[x]
  BY SMT
<1>4. ASSUME NEW p
      PROVE  p \in Stored(X, bag2) <=> p \in Stored(X, bag) \/ p = new
  <2>1. p \in Stored(X, bag2) <=> \E y \in X : \E k \in 1 .. bag2[y] : p = <<y, k>>
    BY DEF Stored
  <2>2. p \in Stored(X, bag) <=> \E y \in X : \E k \in 1 .. bag[y] : p = <<y, k>>
    BY DEF Stored
  <2> QED BY <1>1, <1>2, <2>1, <2>2
<1>5. new \notin Stored(X, bag)
  <2>1. new \in Stored(X, bag) <=> \E y \in X : \E k \in 1 .. bag[y] : new = <<y, k>>
    BY DEF Stored
  <2> QED BY <1>3, <2>1
<1> HIDE DEF new
<1>6. Stored(X, bag2) = Stored(X, bag) \cup {new}
  BY <1>4
<1>7. /\ IsFiniteSet(Stored(X, bag) \cup {new})
      /\ Cardinality(Stored(X, bag) \cup {new}) = Cardinality(Stored(X, bag)) + 1
  BY <1>5, FS_AddElement
<1> QED BY <1>6, <1>7

(* One less of a kind makes it smaller by one.                               *)
LEMMA StoredLess ==
    ASSUME NEW X, NEW bag \in [X -> Nat], NEW x \in X, bag[x] > 0, IsFiniteSet(Stored(X, bag)),
           NEW bag2, bag2 = [bag EXCEPT ![x] = @ - 1]
    PROVE  /\ IsFiniteSet(Stored(X, bag2))
           /\ Cardinality(Stored(X, bag2)) = Cardinality(Stored(X, bag)) - 1
<1> DEFINE old == <<x, bag[x]>>
<1>1. \A y \in X : bag2[y] = IF y = x THEN bag[y] - 1 ELSE bag[y]
  OBVIOUS
<1>2. \A k : k \in 1 .. bag[x] - 1 <=> k \in 1 .. bag[x] /\ k # bag[x]
  BY SMT
<1>3. bag[x] \in 1 .. bag[x]
  BY SMT
<1>4. ASSUME NEW p
      PROVE  p \in Stored(X, bag2) <=> p \in Stored(X, bag) /\ p # old
  <2>1. p \in Stored(X, bag2) <=> \E y \in X : \E k \in 1 .. bag2[y] : p = <<y, k>>
    BY DEF Stored
  <2>2. p \in Stored(X, bag) <=> \E y \in X : \E k \in 1 .. bag[y] : p = <<y, k>>
    BY DEF Stored
  <2> QED BY <1>1, <1>2, <2>1, <2>2
<1>5. old \in Stored(X, bag)
  <2>1. old \in Stored(X, bag) <=> \E y \in X : \E k \in 1 .. bag[y] : old = <<y, k>>
    BY DEF Stored
  <2> QED BY <1>3, <2>1
<1> HIDE DEF old
<1>6. Stored(X, bag2) = Stored(X, bag) \ {old}
  BY <1>4
<1> QED BY <1>5, <1>6, FS_RemoveElement

-----------------------------------------------------------------------------
\* The pipeline over the ring of the kernel (IngestPipeline).
\* Every operation belongs to a packet cut so far, the write of this round's
\* packet is not submitted before its turn, and the completion that is being
\* looked at is still in the queue.
PipeIInv ==
    /\ PipeTypeOK /\ IsFiniteSet(u_pending)
    /\ \A op \in u_pending :
          /\ op.packet <= n_packet
          /\ n_pc = "wait" /\ op.tag = 2 => op.packet < n_packet
    /\ n_pc = "enqueue" => u_done # <<>>
    /\ n_pc \in {"wait", "enqueue"} => n_packet > 0
    /\ RingOwes

\* What a round that is under way has added to the balance.
Due == CASE n_pc = "wait" -> 1 [] n_pc = "enqueue" -> 2 [] OTHER -> 0

(* Nothing is owed at first. *)
LEMMA InitPipe == PipeInit => PipeIInv
<1> SUFFICES ASSUME PipeInit PROVE PipeIInv
  OBVIOUS
<1>1. IsFiniteSet(u_pending) /\ Cardinality(u_pending) = 0
  BY FS_EmptySet DEF PipeInit
<1>2. PipeTypeOK
  BY PipelineAssumption, SMT DEF PipeInit, PipeTypeOK
<1>3. Len(u_done) = 0 /\ Len(g_queue) = 0 /\ Len(processed) = 0
  BY DEF PipeInit
<1>4. RingOwes
  BY <1>1, <1>3 DEF PipeInit, RingOwes, Owed
<1> QED BY <1>1, <1>2, <1>4 DEF PipeInit, PipeIInv

(* The lengths and the number of operations are counts. *)
LEMMA PipeCounts ==
    ASSUME PipeIInv
    PROVE  /\ Cardinality(u_pending) \in Nat /\ Len(u_done) \in Nat
           /\ Len(g_queue) \in Nat /\ Len(processed) \in Nat /\ failed \in Nat
           /\ n_packet \in 0 .. Packets
           /\ u_done \in Seq([op : [tag : {1, 2}, packet : 1 .. Packets], ok : BOOLEAN])
           /\ g_queue \in Seq(1 .. Packets) /\ processed \in Seq(1 .. Packets)
           /\ u_pending \subseteq [tag : {1, 2}, packet : 1 .. Packets]
           /\ Packets \in Nat /\ QueueRoom \in Nat \ {0}
<1>1. Cardinality(u_pending) \in Nat
  BY FS_CardinalityType DEF PipeIInv
<1> QED BY <1>1, PipelineAssumption DEF PipeIInv, PipeTypeOK

(* An operation that was submitted completes once.                           *)
LEMMA CompleteKeeps ==
    ASSUME PipeIInv, NEW op \in u_pending, NEW ok \in BOOLEAN,
           Completes(op, ok), arrived' \subseteq 1 .. Packets
    PROVE  PipeIInv'
<1>1. /\ u_pending' = u_pending \ {op} /\ u_done' = Append(u_done, [op |-> op, ok |-> ok])
      /\ UNCHANGED <<n_pc, n_packet, g_queue, g_running, processed, failed>>
  BY DEF Completes
<1> DEFINE C == [op : [tag : {1, 2}, packet : 1 .. Packets], ok : BOOLEAN]
           cqe == [op |-> op, ok |-> ok]
<1>2. u_done \in Seq(C) /\ cqe \in C
  BY PipeCounts
<1> HIDE DEF C, cqe
<1>3. u_done' \in Seq(C) /\ u_done' # <<>> /\ Len(u_done') = Len(u_done) + 1
  BY <1>1, <1>2, AppendProperties DEF cqe
<1>4. IsFiniteSet(u_pending') /\ Cardinality(u_pending') = Cardinality(u_pending) - 1
  BY <1>1, FS_RemoveElement DEF PipeIInv
<1>5. RingOwes'
  <2>1. Owed = Len(g_queue) + Len(processed) + failed + Due
    BY DEF PipeIInv, RingOwes, Due
  <2>2. Cardinality(u_pending) \in Nat /\ Len(u_done) \in Nat
    BY PipeCounts
  <2>3. Owed' = Owed
    BY <1>3, <1>4, <2>2, SMT DEF Owed
  <2> QED BY <1>1, <2>1, <2>3 DEF RingOwes, Due
<1>6. PipeTypeOK'
  BY <1>1, <1>3 DEF C, PipeIInv, PipeTypeOK
<1> QED BY <1>1, <1>3, <1>4, <1>5, <1>6 DEF PipeIInv

(* A round submits a receive, and later a write, neither of which is pending. *)
LEMMA SubmitKeeps ==
    ASSUME PipeIInv, StartReceive \/ PacketTaken
    PROVE  PipeIInv'
<1>1. PICK op \in [tag : {1, 2}, packet : 1 .. Packets] :
         /\ op \notin u_pending /\ u_pending' = u_pending \cup {op}
         /\ UNCHANGED <<u_done, g_queue, g_running, processed, arrived, failed>>
         /\ n_packet' \in 0 .. Packets /\ n_packet' >= n_packet /\ op.packet = n_packet'
         /\ \/ /\ n_pc = "loop" /\ n_pc' = "wait" /\ op.tag = 1 /\ n_packet' = n_packet + 1
            \/ /\ n_pc = "wait" /\ n_pc' = "enqueue" /\ u_done # <<>>
  <2>1. CASE StartReceive
    <3> DEFINE op == Recv(n_packet + 1)
    <3>1. n_packet + 1 \in 1 .. Packets /\ ~(n_packet + 1 <= n_packet) /\ n_packet + 1 >= n_packet
      BY <2>1, PipeCounts, SMT DEF StartReceive
    <3>2. op \in [tag : {1, 2}, packet : 1 .. Packets] /\ op.packet = n_packet + 1 /\ op.tag = 1
      BY <3>1 DEF Recv
    <3>3. op \notin u_pending
      BY <3>1, <3>2 DEF PipeIInv
    <3>4. n_packet + 1 \in 0 .. Packets
      BY <3>1, SMT
    <3> QED BY <2>1, <3>1, <3>2, <3>3, <3>4 DEF StartReceive
  <2>2. CASE PacketTaken
    <3> DEFINE op == Write(n_packet)
    <3>1. n_packet \in 1 .. Packets /\ ~(n_packet < n_packet) /\ n_packet >= n_packet
      BY <2>2, PipeCounts, SMT DEF PacketTaken, PipeIInv
    <3>2. op \in [tag : {1, 2}, packet : 1 .. Packets] /\ op.packet = n_packet /\ op.tag = 2
      BY <3>1 DEF Write
    <3>3. op \notin u_pending
      BY <2>2, <3>1, <3>2 DEF PipeIInv, PacketTaken
    <3> QED BY <2>2, <3>1, <3>2, <3>3, PipeCounts DEF PacketTaken
  <2> QED BY <2>1, <2>2
<1>2. IsFiniteSet(u_pending') /\ Cardinality(u_pending') = Cardinality(u_pending) + 1
  BY <1>1, FS_AddElement DEF PipeIInv
<1>3. RingOwes'
  <2>1. Owed = Len(g_queue) + Len(processed) + failed + Due
    BY DEF PipeIInv, RingOwes, Due
  <2>2. Due' = Due + 1 /\ Due \in Nat
    BY <1>1 DEF Due
  <2>3. Owed' = Owed + 1 /\ Owed \in Nat
    <3>1. u_done' = u_done
      BY <1>1
    <3>2. Cardinality(u_pending) \in Nat /\ Len(u_done) \in Nat
      BY PipeCounts
    <3> QED BY <1>2, <3>1, <3>2, SMT DEF Owed
  <2>4. Len(g_queue') = Len(g_queue) /\ Len(processed') = Len(processed) /\ failed' = failed
    BY <1>1
  <2>5. Owed' = Len(g_queue') + Len(processed') + failed' + Due'
    <3>1. Len(g_queue) \in Nat /\ Len(processed) \in Nat /\ failed \in Nat
      BY PipeCounts
    <3> QED BY <2>1, <2>2, <2>3, <2>4, <3>1, SMT
  <2> QED BY <2>5 DEF RingOwes, Due
<1>4. PipeTypeOK'
  BY <1>1 DEF PipeIInv, PipeTypeOK
<1>5. n_packet' > 0
  BY <1>1, SMT
<1>6. ASSUME NEW o \in u_pending'
      PROVE  o.packet <= n_packet' /\ (n_pc' = "wait" /\ o.tag = 2 => o.packet < n_packet')
  <2>1. CASE o = op
    BY <1>1, <2>1, SMT
  <2>2. CASE o \in u_pending
    <3>1. o.packet <= n_packet /\ o.packet \in Int
      BY <2>2, PipeCounts, SMT DEF PipeIInv
    <3> QED BY <1>1, <3>1, PipeCounts, SMT
  <2> QED BY <1>1, <2>1, <2>2
<1> QED BY <1>1, <1>2, <1>3, <1>4, <1>5, <1>6 DEF PipeIInv

(* A completion that was looked at leaves its queue, and a packet may enter  *)
(* the other one.                                                            *)
LEMMA SeenKeeps ==
    ASSUME PipeIInv, PacketDropped \/ Dispatch
    PROVE  PipeIInv'
<1> DEFINE C == [op : [tag : {1, 2}, packet : 1 .. Packets], ok : BOOLEAN]
<1>1. /\ u_done # <<>> /\ u_done' = Tail(u_done) /\ n_pc' = "loop"
      /\ UNCHANGED <<n_packet, u_pending, g_running, processed, arrived, failed>>
      /\ u_done \in Seq(C) /\ n_pc \in {"wait", "enqueue"}
  BY PipeCounts DEF PacketDropped, Dispatch, PipeIInv
<1> HIDE DEF C
<1>2. u_done' \in Seq(C) /\ Len(u_done') = Len(u_done) - 1
  BY <1>1, HeadTailProperties
<1>3. /\ g_queue' \in Seq(1 .. Packets) /\ Len(g_queue') <= QueueRoom
      /\ Len(g_queue') = Len(g_queue) + (IF n_pc = "enqueue" THEN 1 ELSE 0)
  <2>1. CASE PacketDropped
    <3>1. n_pc = "wait" /\ g_queue' = g_queue
      BY <2>1 DEF PacketDropped
    <3>2. Len(g_queue) <= QueueRoom
      BY DEF PipeIInv, PipeTypeOK
    <3> QED BY <3>1, <3>2, PipeCounts, SMT
  <2>2. CASE Dispatch
    <3>1. /\ n_pc = "enqueue" /\ g_queue' = Append(g_queue, n_packet)
          /\ Len(g_queue) < QueueRoom
      BY <2>2 DEF Dispatch
    <3>2. g_queue \in Seq(1 .. Packets) /\ n_packet \in 1 .. Packets
      BY PipeCounts, <3>1, SMT DEF PipeIInv
    <3>3. g_queue' \in Seq(1 .. Packets) /\ Len(g_queue') = Len(g_queue) + 1
      BY <3>1, <3>2, AppendProperties
    <3> QED BY <3>1, <3>3, PipeCounts, SMT
  <2> QED BY <2>1, <2>2
<1>4. RingOwes'
  <2>1. Owed = Len(g_queue) + Len(processed) + failed + Due
    BY DEF PipeIInv, RingOwes, Due
  <2>2. Due' = 0 /\ Due = (IF n_pc = "enqueue" THEN 2 ELSE 1)
    BY <1>1 DEF Due
  <2>3. Owed' = Owed - 1 /\ Owed \in Nat
    <3>1. /\ u_pending' = u_pending
          /\ Cardinality(u_pending) \in Nat /\ Len(u_done) \in Nat
      BY <1>1, PipeCounts
    <3> QED BY <1>2, <3>1, SMT DEF Owed
  <2>4. Len(g_queue) \in Nat /\ Len(processed) \in Nat /\ failed \in Nat
    BY PipeCounts
  <2>5. Owed' = Len(g_queue') + Len(processed') + failed' + Due'
    <3>1. CASE n_pc = "enqueue"
      <4>1. /\ Due = 2 /\ Len(g_queue') = Len(g_queue) + 1
            /\ Len(processed') = Len(processed) /\ failed' = failed
        BY <1>1, <1>3, <2>2, <3>1
      <4> QED BY <2>1, <2>2, <2>3, <2>4, <4>1, SMT
    <3>2. CASE n_pc # "enqueue"
      <4>1. /\ Due = 1 /\ Len(g_queue') = Len(g_queue)
            /\ Len(processed') = Len(processed) /\ failed' = failed
        BY <1>1, <1>3, <2>2, <2>4, <3>2, SMT
      <4> QED BY <2>1, <2>2, <2>3, <2>4, <4>1, SMT
    <3> QED BY <3>1, <3>2
  <2> QED BY <2>5 DEF RingOwes, Due
<1>5. PipeTypeOK'
  BY <1>1, <1>2, <1>3 DEF C, PipeIInv, PipeTypeOK
<1> QED BY <1>1, <1>4, <1>5 DEF PipeIInv

(* The logic thread moves a packet from the queue to what it has processed.  *)
LEMMA ProcessKeeps ==
    ASSUME PipeIInv, Process
    PROVE  PipeIInv'
<1>1. /\ g_queue # <<>> /\ processed' = Append(processed, Head(g_queue))
      /\ g_queue' = Tail(g_queue) /\ g_running' \in BOOLEAN
      /\ UNCHANGED <<n_pc, n_packet, u_pending, u_done, arrived, failed>>
      /\ g_queue \in Seq(1 .. Packets) /\ processed \in Seq(1 .. Packets)
  BY PipeCounts DEF Process
<1>2. /\ Head(g_queue) \in 1 .. Packets
      /\ g_queue' \in Seq(1 .. Packets) /\ Len(g_queue') = Len(g_queue) - 1
  BY <1>1, HeadTailProperties
<1>3. processed' \in Seq(1 .. Packets) /\ Len(processed') = Len(processed) + 1
  BY <1>1, <1>2, AppendProperties
<1>4. Len(g_queue') <= QueueRoom
  BY <1>2, PipeCounts, SMT DEF PipeIInv, PipeTypeOK
<1>5. RingOwes'
  <2>1. Owed = Len(g_queue) + Len(processed) + failed + Due
    BY DEF PipeIInv, RingOwes, Due
  <2>2. Owed' = Owed /\ Due' = Due /\ failed' = failed
    BY <1>1 DEF Owed, Due
  <2>3. Len(g_queue) \in Nat /\ Len(processed) \in Nat /\ failed \in Nat /\ Due \in Nat
    BY PipeCounts DEF Due
  <2>4. Owed' = Len(g_queue') + Len(processed') + failed' + Due'
    BY <1>2, <1>3, <2>1, <2>2, <2>3, SMT
  <2> QED BY <2>4 DEF RingOwes, Due
<1>6. PipeTypeOK'
  BY <1>1, <1>2, <1>3, <1>4 DEF PipeIInv, PipeTypeOK
<1> QED BY <1>1, <1>5, <1>6 DEF PipeIInv

(* A wait that fails leaves its receive in the ring for good: one more owed. *)
LEMMA WaitFailsKeeps ==
    ASSUME PipeIInv, WaitFails
    PROVE  PipeIInv'
<1>1. /\ n_pc = "wait" /\ n_pc' = "loop" /\ failed' = failed + 1
      /\ UNCHANGED <<n_packet, u_pending, u_done, g_queue, g_running, processed, arrived>>
  BY DEF WaitFails
<1>2. failed \in Nat /\ Len(g_queue) \in Nat /\ Len(processed) \in Nat
  BY PipeCounts
<1>3. RingOwes'
  <2>1. Owed = Len(g_queue) + Len(processed) + failed + 1
    BY <1>1 DEF PipeIInv, RingOwes
  <2>2. Owed' = Owed
    BY <1>1 DEF Owed
  <2>3. Owed' = Len(g_queue') + Len(processed') + failed' + 0
    BY <1>1, <1>2, <2>1, <2>2, SMT
  <2> QED BY <1>1, <2>3 DEF RingOwes
<1>4. PipeTypeOK'
  BY <1>1, <1>2 DEF PipeIInv, PipeTypeOK
<1> QED BY <1>1, <1>3, <1>4 DEF PipeIInv

(* Every step of the two threads and of the kernel keeps the invariant. *)
LEMMA PipeStep ==
    ASSUME PipeIInv, [PipeNext]_pipeVars
    PROVE  PipeIInv'
<1>1. ASSUME NEW packet \in 1 .. n_packet, NEW ok \in BOOLEAN,
             KernelReceives(packet, ok) \/ KernelWrites(packet, ok)
      PROVE  PipeIInv'
  <2>1. packet \in 1 .. Packets /\ arrived \subseteq 1 .. Packets
    BY PipeCounts, SMT DEF PipeIInv, PipeTypeOK
  <2>2. arrived' \subseteq 1 .. Packets
    BY <1>1, <2>1 DEF KernelReceives, KernelWrites
  <2> QED BY <1>1, <2>2, CompleteKeeps DEF KernelReceives, KernelWrites
<1>2. CASE StopReceive
  BY <1>2 DEF StopReceive, PipeIInv, PipeTypeOK, RingOwes, Owed
<1>3. CASE UNCHANGED pipeVars
  BY <1>3 DEF pipeVars, PipeIInv, PipeTypeOK, RingOwes, Owed
<1> QED BY <1>1, <1>2, <1>3, SubmitKeeps, SeenKeeps, WaitFailsKeeps,
        ProcessKeeps DEF PipeNext

-----------------------------------------------------------------------------
\* The scheduler on its max-heap (MaxHeap, TaskScheduler).
HeapIInv ==
    /\ HeapTypeOK /\ HeapOrder
    /\ h_pc = "rise" => h_i < h_size

\* The priority of the element at a node, before and after a step.
KeyAt(i)  == Priority[h_data[i]]
NewKey(i) == Priority[h_data'[i]]

(* Parent and children are each other's inverse. *)
LEMMA ParentChild ==
    ASSUME NEW i \in Nat, i > 0
    PROVE  /\ Parent(i) \in Nat /\ Parent(i) < i
           /\ \A j \in Nat : Parent(i) = j <=> (i = LeftOf(j) \/ i = RightOf(j))
BY SMT DEF Parent, LeftOf, RightOf

(* The parent of a node of an array is a node of it, and so is the parent's. *)
LEMMA ParentBelow ==
    ASSUME NEW n \in Nat, NEW i \in 1 .. n - 1
    PROVE  /\ i \in Nat /\ i > 0 /\ i \in 0 .. n - 1
           /\ Parent(i) \in Nat /\ Parent(i) < i /\ Parent(i) \in 0 .. n - 1
           /\ Parent(i) > 0 => Parent(i) \in 1 .. n - 1 /\ Parent(Parent(i)) \in 0 .. n - 1
BY SMT DEF Parent

(* Below the size there are tasks, and their order is that of their keys. *)
LEMMA HeapTypes ==
    ASSUME HeapIInv
    PROVE  /\ h_size \in Nat /\ h_i \in Nat /\ h_size <= HeapRoom /\ h_i < HeapRoom
           /\ HeapRoom \in Nat \ {0}
           /\ h_data \in [0 .. HeapRoom - 1 -> Tasks \cup {Unwritten}]
           /\ \A i \in 0 .. h_size - 1 :
                 /\ i \in 0 .. HeapRoom - 1 /\ h_data[i] \in Tasks /\ KeyAt(i) \in Nat
                 /\ \A j \in 0 .. h_size - 1 : Less(h_data[i], h_data[j]) <=> KeyAt(i) < KeyAt(j)
<1>1. /\ h_size \in Nat /\ h_i \in Nat /\ h_size <= HeapRoom /\ h_i < HeapRoom
      /\ HeapRoom \in Nat \ {0} /\ Priority \in [Tasks -> Nat]
      /\ \A i \in 0 .. h_size - 1 : h_data[i] \in Tasks
      /\ h_data \in [0 .. HeapRoom - 1 -> Tasks \cup {Unwritten}]
  BY HeapAssumption, SMT DEF HeapIInv, HeapTypeOK
<1>2. \A i \in 0 .. h_size - 1 : i \in 0 .. HeapRoom - 1
  BY <1>1, SMT
<1> QED BY <1>1, <1>2 DEF KeyAt, Less

(* The heap is ordered by keys, but for the exceptions HeapOrder makes. *)
LEMMA OrderOfKeys ==
    ASSUME HeapIInv, NEW i \in 1 .. h_size - 1
    PROVE  /\ Parent(i) \in 0 .. h_size - 1 /\ Parent(i) < i /\ i \in 0 .. h_size - 1
           /\ \/ h_pc = "rise" /\ i = h_i
              \/ h_pc = "descend" /\ Parent(i) = h_i
              \/ KeyAt(i) <= KeyAt(Parent(i))
           /\ h_pc # "idle" /\ Parent(i) = h_i /\ h_i > 0 => KeyAt(i) <= KeyAt(Parent(h_i))
<1>1. h_size \in Nat /\ h_i \in Nat /\ i \in Nat /\ i > 0
  BY HeapTypes, SMT
<1>2. Parent(i) \in Nat /\ Parent(i) < i
  BY <1>1, ParentChild
<1>3. Parent(i) \in 0 .. h_size - 1 /\ i \in 0 .. h_size - 1
  BY <1>1, <1>2, SMT
<1>4. ~Less(h_data[Parent(i)], h_data[i]) <=> KeyAt(i) <= KeyAt(Parent(i))
  <2>1. /\ Less(h_data[Parent(i)], h_data[i]) <=> KeyAt(Parent(i)) < KeyAt(i)
        /\ KeyAt(i) \in Nat /\ KeyAt(Parent(i)) \in Nat
    BY <1>3, HeapTypes
  <2> QED BY <2>1, SMT
<1>5. ASSUME Parent(i) = h_i, h_i > 0, ~Less(h_data[Parent(h_i)], h_data[i])
      PROVE  KeyAt(i) <= KeyAt(Parent(h_i))
  <2>1. Parent(h_i) \in Nat /\ Parent(h_i) < h_i
    BY <1>1, <1>5, ParentChild
  <2>2. Parent(h_i) \in 0 .. h_size - 1
    BY <1>1, <1>3, <1>5, <2>1, SMT
  <2>3. /\ Less(h_data[Parent(h_i)], h_data[i]) <=> KeyAt(Parent(h_i)) < KeyAt(i)
        /\ KeyAt(i) \in Nat /\ KeyAt(Parent(h_i)) \in Nat
    BY <1>3, <2>2, HeapTypes
  <2> QED BY <1>5, <2>3, SMT
<1> QED BY <1>2, <1>3, <1>4, <1>5 DEF HeapIInv, HeapOrder, Ordered, SpansMoving

(* An exchange inside the heap leaves tasks below the size, and moves keys.  *)
LEMMA ExchangeTypes ==
    ASSUME HeapIInv, NEW i \in 0 .. h_size - 1, NEW j \in 0 .. h_size - 1, i # j,
           h_data' = Exchanged(i, j)
    PROVE  /\ h_data' \in [0 .. HeapRoom - 1 -> Tasks \cup {Unwritten}]
           /\ \A k \in 0 .. h_size - 1 :
                 /\ h_data'[k] = IF k = i THEN h_data[j]
                                  ELSE IF k = j THEN h_data[i] ELSE h_data[k]
                 /\ h_data'[k] \in Tasks /\ NewKey(k) \in Nat
                 /\ NewKey(k) = IF k = i THEN KeyAt(j) ELSE IF k = j THEN KeyAt(i) ELSE KeyAt(k)
<1>1. /\ i \in 0 .. HeapRoom - 1 /\ j \in 0 .. HeapRoom - 1
      /\ h_data[i] \in Tasks /\ h_data[j] \in Tasks
      /\ h_data \in [0 .. HeapRoom - 1 -> Tasks \cup {Unwritten}]
  BY HeapTypes
<1>2. h_data' \in [0 .. HeapRoom - 1 -> Tasks \cup {Unwritten}]
  BY <1>1 DEF Exchanged
<1>3. ASSUME NEW k \in 0 .. h_size - 1
      PROVE  h_data'[k] = IF k = i THEN h_data[j] ELSE IF k = j THEN h_data[i] ELSE h_data[k]
  <2>1. k \in 0 .. HeapRoom - 1
    BY HeapTypes
  <2> QED BY <1>1, <2>1 DEF Exchanged
<1>4. \A k \in 0 .. h_size - 1 : h_data[k] \in Tasks /\ KeyAt(k) \in Nat
  BY HeapTypes
<1> QED BY <1>1, <1>2, <1>3, <1>4 DEF KeyAt, NewKey

(* A state with ordered keys is in the invariant. *)
LEMMA HeapFromKeys ==
    ASSUME HeapTypeOK',
           h_pc' = "rise" => h_i' < h_size',
           \A i \in 1 .. h_size' - 1 :
              \/ h_pc' = "rise" /\ i = h_i'
              \/ h_pc' = "descend" /\ Parent(i) = h_i'
              \/ NewKey(i) <= NewKey(Parent(i)),
           \A i \in 1 .. h_size' - 1 :
              h_pc' # "idle" /\ Parent(i) = h_i' /\ h_i' > 0
                 => NewKey(i) <= NewKey(Parent(h_i'))
    PROVE  HeapIInv'
<1>1. h_size' \in 0 .. HeapRoom /\ h_i' \in 0 .. HeapRoom - 1
  BY DEF HeapTypeOK
<1>2. h_size' \in Nat /\ h_i' \in Nat
  BY <1>1, HeapAssumption, SMT
<1>3. \A i \in 0 .. h_size' - 1 : h_data'[i] \in Tasks /\ NewKey(i) \in Nat
  <2>1. \A i \in 0 .. h_size' - 1 : h_data'[i] \in Tasks
    BY DEF HeapTypeOK
  <2> QED BY <2>1, HeapAssumption DEF NewKey
<1>4. ASSUME NEW i \in 1 .. h_size' - 1
      PROVE  /\ \/ h_pc' = "rise" /\ i = h_i'
                \/ h_pc' = "descend" /\ Parent(i) = h_i'
                \/ ~(NewKey(Parent(i)) < NewKey(i))
             /\ h_pc' # "idle" /\ Parent(i) = h_i' /\ h_i' > 0
                  => ~(NewKey(Parent(h_i')) < NewKey(i))
  <2>1. /\ i \in 0 .. h_size' - 1 /\ Parent(i) \in 0 .. h_size' - 1
        /\ Parent(i) > 0 => Parent(Parent(i)) \in 0 .. h_size' - 1
    BY <1>2, ParentBelow
  <2>4. NewKey(i) \in Nat /\ NewKey(Parent(i)) \in Nat
    BY <1>3, <2>1
  <2>5. NewKey(i) <= NewKey(Parent(i))
           => ~(NewKey(Parent(i)) < NewKey(i))
    BY <2>4, SMT
  <2>6. ASSUME h_pc' # "idle", Parent(i) = h_i', h_i' > 0
        PROVE  ~(NewKey(Parent(h_i')) < NewKey(i))
    <3>2. Parent(h_i') \in 0 .. h_size' - 1
      BY <2>1, <2>6
    <3>3. NewKey(Parent(h_i')) \in Nat
      BY <1>3, <3>2
    <3>4. NewKey(i) <= NewKey(Parent(h_i'))
      BY <2>6
    <3> QED BY <2>4, <3>3, <3>4, SMT
  <2>7. \/ h_pc' = "rise" /\ i = h_i'
        \/ h_pc' = "descend" /\ Parent(i) = h_i'
        \/ NewKey(i) <= NewKey(Parent(i))
    OBVIOUS
  <2> QED BY <2>5, <2>6, <2>7
<1>5. HeapOrder'
  BY <1>4 DEF HeapOrder, Ordered, SpansMoving, Less, NewKey
<1> QED BY <1>5 DEF HeapIInv

(* push() up to its loop: the new element is the last, and nobody's parent. *)
LEMMA PushKeeps ==
    ASSUME HeapIInv, NEW x \in Tasks, Push(x)
    PROVE  HeapIInv'
<1>1. CASE h_size >= HeapRoom
  <2>1. UNCHANGED heapVars
    BY <1>1 DEF Push, heapVars
  <2> QED BY <2>1 DEF heapVars, HeapIInv, HeapTypeOK, HeapOrder, Ordered, SpansMoving, Less
<1>2. CASE ~(h_size >= HeapRoom)
  <2>1. /\ h_data' = [h_data EXCEPT ![h_size] = x] /\ h_size' = h_size + 1
        /\ h_i' = h_size /\ h_pc' = "rise" /\ h_pc = "idle" /\ h_root' = h_root
    BY <1>2 DEF Push
  <2>2. /\ h_size \in Nat /\ HeapRoom \in Nat \ {0} /\ h_size < HeapRoom
        /\ h_size \in 0 .. HeapRoom - 1 /\ h_size' \in 0 .. HeapRoom
        /\ h_data \in [0 .. HeapRoom - 1 -> Tasks \cup {Unwritten}]
    BY <1>2, <2>1, HeapTypes, SMT
  <2>3. /\ h_data' \in [0 .. HeapRoom - 1 -> Tasks \cup {Unwritten}]
        /\ \A i \in 0 .. HeapRoom - 1 : h_data'[i] = IF i = h_size THEN x ELSE h_data[i]
    BY <2>1, <2>2
  <2>4. ASSUME NEW i \in 0 .. h_size' - 1
        PROVE  i \in 0 .. HeapRoom - 1 /\ (i = h_size \/ i \in 0 .. h_size - 1)
    BY <2>1, <2>2, SMT
  <2>5. \A i \in 0 .. h_size' - 1 : h_data'[i] \in Tasks
    BY <2>3, <2>4, HeapTypes
  <2>6. HeapTypeOK'
    BY <2>1, <2>2, <2>3, <2>5 DEF HeapIInv, HeapTypeOK
  <2>7. ASSUME NEW i \in 1 .. h_size' - 1, i # h_size
        PROVE  NewKey(i) <= NewKey(Parent(i))
    <3>1. i \in 1 .. h_size - 1 /\ i \in 0 .. HeapRoom - 1
      BY <2>1, <2>2, <2>7, SMT
    <3>2. KeyAt(i) <= KeyAt(Parent(i)) /\ Parent(i) \in 0 .. h_size - 1
      BY <2>1, <3>1, OrderOfKeys
    <3>3. Parent(i) # h_size /\ Parent(i) \in 0 .. HeapRoom - 1
      BY <2>2, <3>2, SMT
    <3> QED BY <2>3, <2>7, <3>1, <3>2, <3>3 DEF KeyAt, NewKey
  <2>8. ASSUME NEW i \in 1 .. h_size' - 1
        PROVE  Parent(i) # h_size
    <3>1. i \in Nat /\ i > 0 /\ i <= h_size
      BY <2>1, <2>2, SMT
    <3> QED BY <2>2, <3>1, ParentChild, SMT
  <2>9. h_i' < h_size'
    BY <2>1, <2>2, SMT
  <2> QED BY <2>1, <2>6, <2>7, <2>8, <2>9, HeapFromKeys
<1> QED BY <1>1, <1>2

(* A round of push(): the new element rises above a lesser parent, which is  *)
(* not less than the other child and than the children it gets.              *)
LEMMA RiseKeeps ==
    ASSUME HeapIInv, Rise
    PROVE  HeapIInv'
<1>0. /\ h_pc = "rise" /\ UNCHANGED <<h_size, h_root>> /\ h_size \in Nat /\ h_i \in Nat
      /\ h_i < h_size /\ h_i \in 0 .. h_size - 1
  <2>1. h_pc = "rise" /\ UNCHANGED <<h_size, h_root>> /\ h_i < h_size
    BY DEF Rise, HeapIInv
  <2> QED BY <2>1, HeapTypes, SMT
<1>1. CASE h_i > 0 /\ Less(h_data[Parent(h_i)], h_data[h_i])
  <2> DEFINE p == Parent(h_i)
  <2>1. h_data' = Exchanged(h_i, p) /\ h_i' = p /\ h_pc' = "rise"
    BY <1>0, <1>1 DEF Rise
  <2>2. p \in Nat /\ p < h_i /\ p \in 0 .. h_size - 1 /\ p # h_i
    <3>1. p \in Nat /\ p < h_i
      BY <1>0, <1>1, ParentChild
    <3> HIDE DEF p
    <3> QED BY <1>0, <3>1, SMT
  <2>3. KeyAt(p) < KeyAt(h_i) /\ KeyAt(p) \in Nat /\ KeyAt(h_i) \in Nat
    BY <1>0, <1>1, <2>2, HeapTypes
  <2>4. /\ h_data' \in [0 .. HeapRoom - 1 -> Tasks \cup {Unwritten}]
        /\ \A k \in 0 .. h_size - 1 :
              /\ h_data'[k] \in Tasks /\ NewKey(k) \in Nat
              /\ NewKey(k) = IF k = h_i THEN KeyAt(p) ELSE IF k = p THEN KeyAt(h_i) ELSE KeyAt(k)
    BY <1>0, <2>1, <2>2, ExchangeTypes
  <2> HIDE DEF p
  <2>5. p \in 0 .. HeapRoom - 1
    BY <2>2, HeapTypes
  <2>6. HeapTypeOK'
    BY <1>0, <2>1, <2>4, <2>5 DEF HeapIInv, HeapTypeOK
  <2>8. ASSUME NEW i \in 1 .. h_size - 1, i # p
        PROVE  NewKey(i) <= NewKey(Parent(i))
    <3>1. /\ Parent(i) \in 0 .. h_size - 1 /\ Parent(i) < i /\ i \in 0 .. h_size - 1
          /\ i # h_i => KeyAt(i) <= KeyAt(Parent(i))
          /\ Parent(i) = h_i => KeyAt(i) <= KeyAt(p)
      BY <1>0, <1>1, OrderOfKeys DEF p
    <3>2. KeyAt(Parent(i)) \in Nat /\ KeyAt(i) \in Nat
      BY <3>1, HeapTypes
    <3>3. i = h_i => Parent(i) = p
      BY DEF p
    <3>4. i # h_i => NewKey(i) = KeyAt(i)
      BY <2>4, <2>8, <3>1
    <3>5. CASE Parent(i) = p
      <4>1. NewKey(Parent(i)) = KeyAt(h_i)
        BY <2>2, <2>4, <3>5
      <4>2. CASE i = h_i
        <5>1. NewKey(i) = KeyAt(p)
          BY <2>4, <3>1, <4>2
        <5> QED BY <2>3, <4>1, <5>1, SMT
      <4>3. CASE i # h_i
        <5>1. NewKey(i) = KeyAt(i) /\ KeyAt(i) <= KeyAt(p)
          BY <3>1, <3>4, <3>5, <4>3
        <5> QED BY <2>3, <3>2, <4>1, <5>1, SMT
      <4> QED BY <4>2, <4>3
    <3>6. CASE Parent(i) = h_i
      <4>1. i # h_i /\ NewKey(i) = KeyAt(i) /\ NewKey(Parent(i)) = KeyAt(p)
        BY <1>0, <2>4, <2>8, <3>1, <3>6, SMT
      <4> QED BY <3>1, <3>6, <4>1
    <3>7. CASE Parent(i) # p /\ Parent(i) # h_i
      <4>1. NewKey(i) = KeyAt(i) /\ NewKey(Parent(i)) = KeyAt(Parent(i))
        BY <2>4, <2>8, <3>1, <3>3, <3>7
      <4> QED BY <3>1, <3>3, <3>7, <4>1
    <3> QED BY <3>5, <3>6, <3>7
  <2>9. ASSUME NEW i \in 1 .. h_size - 1, Parent(i) = p, p > 0
        PROVE  NewKey(i) <= NewKey(Parent(p))
    <3>1. p \in 1 .. h_size - 1
      BY <1>0, <2>2, <2>9, SMT
    <3>2. /\ Parent(p) \in 0 .. h_size - 1 /\ Parent(p) < p /\ KeyAt(p) <= KeyAt(Parent(p))
          /\ i \in 0 .. h_size - 1 /\ Parent(i) < i
          /\ i # h_i => KeyAt(i) <= KeyAt(p)
      BY <1>0, <2>2, <2>9, <3>1, OrderOfKeys
    <3>3. NewKey(Parent(p)) = KeyAt(Parent(p)) /\ KeyAt(Parent(p)) \in Nat /\ KeyAt(i) \in Nat
      <4>1. Parent(p) # p /\ Parent(p) # h_i
        BY <1>0, <2>2, <3>2, SMT
      <4> QED BY <2>4, <3>2, <4>1, HeapTypes
    <3>4. i # p /\ NewKey(i) = IF i = h_i THEN KeyAt(p) ELSE KeyAt(i)
      BY <2>2, <2>4, <2>9, <3>2, SMT
    <3> QED BY <2>3, <3>2, <3>3, <3>4, SMT
  <2>10. p < h_size
    BY <1>0, <2>2, SMT
  <2> QED BY <1>0, <2>1, <2>6, <2>8, <2>9, <2>10, HeapFromKeys
<1>2. CASE ~(h_i > 0 /\ Less(h_data[Parent(h_i)], h_data[h_i]))
  <2>1. h_pc' = "idle" /\ UNCHANGED <<h_data, h_i, h_size, h_root>>
    BY <1>2 DEF Rise
  <2>2. ASSUME NEW i \in 1 .. h_size - 1
        PROVE  Ordered(i)
    <3>1. CASE i # h_i
      BY <1>0, <3>1 DEF HeapIInv, HeapOrder
    <3>2. CASE i = h_i
      <4>1. i > 0
        BY <1>0, SMT
      <4> QED BY <1>2, <3>2, <4>1 DEF Ordered
    <3> QED BY <3>1, <3>2
  <2> QED BY <2>1, <2>2 DEF HeapIInv, HeapTypeOK, HeapOrder, Ordered, SpansMoving, Less
<1> QED BY <1>1, <1>2

(* pop() up to max_heapify(0): the last element is the new top, and its      *)
(* children are the only ones it may be less than.                           *)
LEMMA PopKeeps ==
    ASSUME HeapIInv, Pop
    PROVE  HeapIInv'
<1>1. /\ h_size > 0 /\ h_root' = h_data[0] /\ h_size' = h_size - 1
      /\ h_data' = [h_data EXCEPT ![0] = h_data[h_size - 1]]
      /\ h_i' = 0 /\ h_pc' = "descend"
  BY DEF Pop
<1>2. /\ h_size \in Nat /\ HeapRoom \in Nat \ {0} /\ h_size <= HeapRoom
      /\ h_data \in [0 .. HeapRoom - 1 -> Tasks \cup {Unwritten}]
  BY HeapTypes
<1>3. /\ 0 \in 0 .. h_size - 1 /\ h_size - 1 \in 0 .. h_size - 1 /\ 0 \in 0 .. HeapRoom - 1
      /\ h_size - 1 \in 0 .. HeapRoom /\ h_size - 1 \in Nat
  BY <1>1, <1>2, SMT
<1>4. h_data[0] \in Tasks /\ h_data[h_size - 1] \in Tasks
  BY <1>3, HeapTypes
<1>5. /\ h_data' \in [0 .. HeapRoom - 1 -> Tasks \cup {Unwritten}]
      /\ \A k \in 0 .. HeapRoom - 1 :
            h_data'[k] = IF k = 0 THEN h_data[h_size - 1] ELSE h_data[k]
  BY <1>1, <1>2, <1>3, <1>4
<1>6. \A k \in 0 .. h_size' - 1 : k \in 0 .. h_size - 1 /\ k \in 0 .. HeapRoom - 1
  BY <1>1, <1>2, SMT
<1>7. \A k \in 0 .. h_size' - 1 : h_data'[k] \in Tasks
  BY <1>4, <1>5, <1>6, HeapTypes
<1>8. HeapTypeOK'
  BY <1>1, <1>3, <1>4, <1>5, <1>7 DEF HeapTypeOK
<1>9. ASSUME NEW i \in 1 .. h_size' - 1, Parent(i) # 0
      PROVE  NewKey(i) <= NewKey(Parent(i))
  <2>1. /\ i \in 0 .. h_size' - 1 /\ Parent(i) \in 0 .. h_size' - 1 /\ i > 0
    BY <1>1, <1>3, ParentBelow
  <2>2. i # 0 /\ i \in 1 .. h_size - 1
    BY <1>1, <1>2, SMT
  <2>3. KeyAt(i) <= KeyAt(Parent(i))
    BY <2>2, OrderOfKeys DEF Pop
  <2>4. h_data'[i] = h_data[i] /\ h_data'[Parent(i)] = h_data[Parent(i)]
    BY <1>5, <1>6, <1>9, <2>1, <2>2
  <2> QED BY <2>3, <2>4 DEF KeyAt, NewKey
<1> QED BY <1>1, <1>8, <1>9, HeapFromKeys

(* The comparison of max_heapify: the larger of a node and a child, if the   *)
(* child is there.                                                           *)
LEMMA LargerOf ==
    ASSUME HeapIInv, NEW i \in 0 .. h_size - 1, NEW j \in Nat
    PROVE  /\ Larger(i, j) \in 0 .. h_size - 1 /\ KeyAt(i) <= KeyAt(Larger(i, j))
           /\ \/ Larger(i, j) = i
              \/ Larger(i, j) = j /\ j < h_size /\ KeyAt(i) < KeyAt(j)
           /\ j < h_size => KeyAt(j) <= KeyAt(Larger(i, j))
<1>1. h_size \in Nat /\ KeyAt(i) \in Nat
  BY HeapTypes
<1>2. CASE j < h_size
  <2>1. j \in 0 .. h_size - 1
    BY <1>1, <1>2, SMT
  <2>2. KeyAt(j) \in Nat /\ (Less(h_data[i], h_data[j]) <=> KeyAt(i) < KeyAt(j))
    BY <2>1, HeapTypes
  <2>3. CASE KeyAt(i) < KeyAt(j)
    BY <1>1, <1>2, <2>1, <2>2, <2>3, SMT DEF Larger
  <2>4. CASE ~(KeyAt(i) < KeyAt(j))
    BY <1>1, <1>2, <2>1, <2>2, <2>4, SMT DEF Larger
  <2> QED BY <2>3, <2>4
<1>3. CASE ~(j < h_size)
  BY <1>1, <1>3, SMT DEF Larger
<1> QED BY <1>2, <1>3

(* max_heapify compares a node with both of its children.                    *)
LEMMA LargestOf ==
    ASSUME HeapIInv
    PROVE  /\ Largest(h_i) # h_i =>
                /\ Largest(h_i) \in 1 .. h_size - 1 /\ Parent(Largest(h_i)) = h_i
                /\ h_i \in 0 .. h_size - 1 /\ KeyAt(h_i) < KeyAt(Largest(h_i))
           /\ \A c \in 1 .. h_size - 1 : Parent(c) = h_i => KeyAt(c) <= KeyAt(Largest(h_i))
<1> DEFINE l == LeftOf(h_i)
           r == RightOf(h_i)
           m == Larger(h_i, l)
<1>1. h_size \in Nat /\ h_i \in Nat
  BY HeapTypes
<1>2. /\ l \in Nat /\ r \in Nat /\ l > h_i /\ r > h_i /\ l > 0 /\ r > 0
  BY <1>1, SMT DEF LeftOf, RightOf
<1>3. Parent(l) = h_i /\ Parent(r) = h_i
  BY <1>1, SMT DEF LeftOf, RightOf, Parent
<1>4. \A c \in 1 .. h_size - 1 : Parent(c) = h_i => c \in 0 .. h_size - 1 /\ (c = l \/ c = r)
  BY <1>1, ParentBelow, ParentChild
<1>5. Largest(h_i) = Larger(m, r)
  BY DEF Largest
<1> HIDE DEF l, r
<1>6. CASE h_i < h_size
  <2>1. h_i \in 0 .. h_size - 1
    BY <1>1, <1>6, SMT
  <2>2. /\ m \in 0 .. h_size - 1 /\ KeyAt(h_i) <= KeyAt(m)
        /\ m = h_i \/ (m = l /\ l < h_size /\ KeyAt(h_i) < KeyAt(l))
        /\ l < h_size => KeyAt(l) <= KeyAt(m)
    BY <1>2, <2>1, LargerOf
  <2> HIDE DEF m
  <2>3. /\ Larger(m, r) \in 0 .. h_size - 1 /\ KeyAt(m) <= KeyAt(Larger(m, r))
        /\ Larger(m, r) = m \/ (Larger(m, r) = r /\ r < h_size /\ KeyAt(m) < KeyAt(r))
        /\ r < h_size => KeyAt(r) <= KeyAt(Larger(m, r))
    BY <1>2, <2>2, LargerOf
  <2>4. /\ KeyAt(h_i) \in Nat /\ KeyAt(m) \in Nat /\ KeyAt(Larger(m, r)) \in Nat
        /\ l < h_size => KeyAt(l) \in Nat
    <3>1. l < h_size => l \in 0 .. h_size - 1
      BY <1>1, <1>2, SMT
    <3> QED BY <2>1, <2>2, <2>3, <3>1, HeapTypes
  <2>5. l < h_size => KeyAt(l) <= KeyAt(Larger(m, r))
    BY <2>2, <2>3, <2>4, SMT
  <2>6. ASSUME NEW c \in 1 .. h_size - 1, Parent(c) = h_i
        PROVE  KeyAt(c) <= KeyAt(Largest(h_i))
    <3>1. c < h_size
      BY <1>1, SMT
    <3>2. CASE c = l
      BY <1>5, <2>5, <3>1, <3>2
    <3>3. CASE c = r
      BY <1>5, <2>3, <3>1, <3>3
    <3> QED BY <1>4, <2>6, <3>2, <3>3
  <2>7. ASSUME Largest(h_i) # h_i
        PROVE  /\ Largest(h_i) \in 1 .. h_size - 1 /\ Parent(Largest(h_i)) = h_i
               /\ KeyAt(h_i) < KeyAt(Largest(h_i))
    <3>1. CASE Larger(m, r) = m
      <4>1. m = l /\ l < h_size /\ KeyAt(h_i) < KeyAt(l)
        BY <1>5, <2>2, <2>7, <3>1
      <4>2. l \in 1 .. h_size - 1
        BY <1>1, <1>2, <4>1, SMT
      <4> QED BY <1>3, <1>5, <3>1, <4>1, <4>2
    <3>2. CASE Larger(m, r) = r /\ r < h_size /\ KeyAt(m) < KeyAt(r)
      <4>1. r \in 1 .. h_size - 1
        BY <1>1, <1>2, <3>2, SMT
      <4>2. KeyAt(h_i) < KeyAt(r)
        <5>1. KeyAt(r) \in Nat /\ KeyAt(m) < KeyAt(r)
          BY <2>4, <3>2
        <5> QED BY <2>2, <2>4, <5>1, SMT
      <4> QED BY <1>3, <1>5, <3>2, <4>1, <4>2
    <3> QED BY <2>3, <3>1, <3>2
  <2> QED BY <2>1, <2>6, <2>7
<1>7. CASE ~(h_i < h_size)
  <2>1. ~(l < h_size) /\ ~(r < h_size)
    BY <1>1, <1>2, <1>7, SMT
  <2>2. Largest(h_i) = h_i
    BY <1>5, <2>1 DEF Larger
  <2>3. ASSUME NEW c \in 1 .. h_size - 1, Parent(c) = h_i
        PROVE  FALSE
    <3>1. c < h_size
      BY <1>1, SMT
    <3> QED BY <1>4, <2>1, <2>3, <3>1
  <2> QED BY <2>2, <2>3
<1> QED BY <1>6, <1>7

(* A round of max_heapify: the element that sinks goes below the greater of  *)
(* its children, which the other child and the element above are not less    *)
(* and not greater than.                                                     *)
LEMMA DescendKeeps ==
    ASSUME HeapIInv, Descend
    PROVE  HeapIInv'
<1> DEFINE L == Largest(h_i)
<1>1. /\ h_pc = "descend" /\ L # h_i /\ h_data' = Exchanged(h_i, L) /\ h_i' = L
      /\ h_size' = h_size /\ h_pc' = "descend" /\ h_root' = h_root
  BY DEF Descend
<1>2. /\ L \in 1 .. h_size - 1 /\ Parent(L) = h_i
      /\ h_i \in 0 .. h_size - 1 /\ KeyAt(h_i) < KeyAt(L)
      /\ \A c \in 1 .. h_size - 1 : Parent(c) = h_i => KeyAt(c) <= KeyAt(L)
  BY <1>1, LargestOf
<1> HIDE DEF L
<1>3. h_size \in Nat /\ h_i \in Nat
  BY HeapTypes
<1>4. L \in Nat /\ L > 0 /\ L \in 0 .. h_size - 1 /\ h_i < L
  BY <1>2, <1>3, ParentBelow
<1>5. /\ h_data' \in [0 .. HeapRoom - 1 -> Tasks \cup {Unwritten}]
      /\ \A k \in 0 .. h_size - 1 :
            /\ h_data'[k] \in Tasks /\ NewKey(k) \in Nat
            /\ NewKey(k) = IF k = h_i THEN KeyAt(L) ELSE IF k = L THEN KeyAt(h_i) ELSE KeyAt(k)
  BY <1>1, <1>2, <1>4, ExchangeTypes
<1>6. L \in 0 .. HeapRoom - 1 /\ KeyAt(L) \in Nat /\ KeyAt(h_i) \in Nat
  BY <1>2, <1>4, HeapTypes
<1>7. HeapTypeOK'
  BY <1>1, <1>5, <1>6 DEF HeapIInv, HeapTypeOK
<1>8. ASSUME NEW i \in 1 .. h_size - 1, Parent(i) # L
      PROVE  NewKey(i) <= NewKey(Parent(i))
  <2>1. i \in 0 .. h_size - 1 /\ Parent(i) \in 0 .. h_size - 1 /\ i > 0 /\ i # Parent(i)
    <3>1. i \in 0 .. h_size - 1 /\ Parent(i) \in 0 .. h_size - 1 /\ i > 0 /\ Parent(i) < i /\ i \in Nat
      BY <1>3, ParentBelow
    <3>2. i # Parent(i)
      BY <3>1, SMT
    <3> QED BY <3>1, <3>2
  <2>2. CASE i = L
    <3>1. NewKey(i) = KeyAt(h_i) /\ NewKey(Parent(i)) = KeyAt(L)
      BY <1>1, <1>2, <1>4, <1>5, <2>2
    <3> QED BY <1>2, <1>6, <3>1, SMT
  <2>3. CASE i = h_i
    <3>1. NewKey(i) = KeyAt(L) /\ NewKey(Parent(i)) = KeyAt(Parent(i))
      BY <1>2, <1>5, <1>8, <2>1, <2>3
    <3>2. KeyAt(L) <= KeyAt(Parent(h_i))
      BY <1>1, <1>2, <2>1, <2>3, OrderOfKeys
    <3> QED BY <2>3, <3>1, <3>2
  <2>4. CASE i # L /\ i # h_i
    <3>1. NewKey(i) = KeyAt(i)
      BY <1>5, <2>1, <2>4
    <3>2. CASE Parent(i) = h_i
      <4>1. NewKey(Parent(i)) = KeyAt(L)
        BY <1>2, <1>5, <3>2
      <4> QED BY <1>2, <3>1, <3>2, <4>1
    <3>3. CASE Parent(i) # h_i
      <4>1. NewKey(Parent(i)) = KeyAt(Parent(i))
        BY <1>5, <1>8, <2>1, <3>3
      <4> QED BY <1>1, <3>1, <3>3, <4>1, OrderOfKeys
    <3> QED BY <3>2, <3>3
  <2> QED BY <2>2, <2>3, <2>4
<1>9. ASSUME NEW i \in 1 .. h_size - 1, Parent(i) = L
      PROVE  NewKey(i) <= NewKey(Parent(L))
  <2>1. i \in Nat /\ i \in 0 .. h_size - 1 /\ L < i
    BY <1>3, <1>9, ParentBelow
  <2>2. i # L /\ i # h_i /\ L # h_i
    BY <1>3, <1>4, <2>1, SMT
  <2>3. NewKey(i) = KeyAt(i) /\ NewKey(Parent(L)) = KeyAt(L)
    BY <1>2, <1>5, <2>1, <2>2
  <2>4. KeyAt(i) <= KeyAt(L)
    BY <1>1, <1>9, <2>2, OrderOfKeys
  <2> QED BY <2>3, <2>4
<1> QED BY <1>1, <1>7, <1>8, <1>9, HeapFromKeys

(* max_heapify ends at a node that neither child is greater than.            *)
LEMMA PopReturnsKeeps ==
    ASSUME HeapIInv, PopReturns
    PROVE  HeapIInv'
<1>1. /\ h_pc = "descend" /\ Largest(h_i) = h_i /\ h_pc' = "idle"
      /\ h_data' = h_data /\ h_size' = h_size /\ h_i' = h_i /\ h_root' = h_root
  BY DEF PopReturns
<1>2. HeapTypeOK'
  BY <1>1 DEF HeapIInv, HeapTypeOK
<1>3. ASSUME NEW i \in 1 .. h_size - 1
      PROVE  NewKey(i) <= NewKey(Parent(i))
  <2>1. KeyAt(i) <= KeyAt(Parent(i))
    BY <1>1, LargestOf, OrderOfKeys
  <2> QED BY <1>1, <2>1 DEF KeyAt, NewKey
<1> QED BY <1>1, <1>2, <1>3, HeapFromKeys

LEMMA InitHeap == SchedInit => HeapIInv
<1> SUFFICES ASSUME SchedInit PROVE HeapIInv
  OBVIOUS
<1>1. /\ h_data = [i \in 0 .. HeapRoom - 1 |-> Unwritten] /\ h_size = 0
      /\ h_pc = "idle" /\ h_i = 0 /\ h_root = Unwritten
  BY DEF SchedInit, HeapInit
<1>2. 0 \in 0 .. HeapRoom - 1 /\ 0 \in 0 .. HeapRoom
  BY HeapAssumption, SMT
<1>3. 0 .. h_size - 1 = {} /\ 1 .. h_size - 1 = {}
  BY <1>1, SMT
<1>4. HeapTypeOK
  BY <1>1, <1>2, <1>3 DEF HeapTypeOK
<1> QED BY <1>1, <1>3, <1>4 DEF HeapIInv, HeapOrder

(* Every step of the scheduler keeps the heap's invariant.                   *)
LEMMA HeapStep == HeapIInv /\ [SchedNext]_schedVars => HeapIInv'
<1> SUFFICES ASSUME HeapIInv, [SchedNext]_schedVars PROVE HeapIInv'
  OBVIOUS
<1>1. CASE \E x \in Tasks : Schedule(x)
  BY <1>1, PushKeeps DEF Schedule
<1>2. CASE Rise
  BY <1>2, RiseKeeps
<1>3. CASE DispatchNext
  BY <1>3, PopKeeps DEF DispatchNext
<1>4. CASE Descend
  BY <1>4, DescendKeeps
<1>5. CASE Runs
  BY <1>5, PopReturnsKeeps DEF Runs
<1>6. CASE UNCHANGED heapVars
  BY <1>6 DEF heapVars, HeapIInv, HeapTypeOK, HeapOrder, Ordered, SpansMoving, Less
<1> QED BY <1>1, <1>2, <1>3, <1>4, <1>5, <1>6 DEF SchedNext, EntryReturns, schedVars

-----------------------------------------------------------------------------
\* The heap as a priority queue (PriorityBag).
\* The heap is ordered, and the bag of its tasks is as big as the heap.
BagIInv ==
    /\ HeapIInv
    /\ IsFiniteSet(Stored(Tasks, HeapBag)) /\ Cardinality(Stored(Tasks, HeapBag)) = h_size

(* What the bag of the heap counts.                                          *)
LEMMA BagTypes ==
    ASSUME HeapIInv
    PROVE  /\ HeapBag \in [Tasks -> Nat]
           /\ \A x \in Tasks : HeapBag[x] = Cardinality(Places(h_data, 0 .. h_size - 1, x))
<1>1. HeapBag = [x \in Tasks |-> Cardinality(Places(h_data, 0 .. h_size - 1, x))]
  BY DEF HeapBag, Places
<1>2. IsFiniteSet(0 .. h_size - 1)
  <2>1. h_size - 1 \in Int
    BY HeapTypes, SMT
  <2> QED BY <2>1, FS_Interval
<1> DEFINE I == 0 .. h_size - 1
<1> HIDE DEF I
<1>3. \A x \in Tasks : Cardinality(Places(h_data, I, x)) \in Nat
  BY <1>2, PlacesFinite DEF I
<1> QED BY <1>1, <1>3 DEF I

(* In a heap that is ordered nothing outranks the top: of what did, the      *)
(* first would have a parent that does.                                      *)
LEMMA TopIsGreatest ==
    ASSUME HeapIInv, h_pc = "idle", NEW i \in 0 .. h_size - 1
    PROVE  KeyAt(i) <= KeyAt(0)
<1> DEFINE T == {k \in 0 .. h_size - 1 : ~(KeyAt(k) <= KeyAt(0))}
<1> SUFFICES ASSUME T # {} PROVE FALSE
  OBVIOUS
<1>1. h_size \in Nat /\ 0 \in 0 .. h_size - 1
  BY HeapTypes, SMT
<1>2. PICK m \in T : \A k \in T : m <= k
  <2>1. T \subseteq Nat
    BY SMT
  <2> HIDE DEF T
  <2> QED BY <2>1, LeastNumber
<1>3. m \in 0 .. h_size - 1 /\ ~(KeyAt(m) <= KeyAt(0)) /\ KeyAt(m) \in Nat /\ KeyAt(0) \in Nat
  BY <1>1, HeapTypes
<1>4. m # 0
  BY <1>3, SMT
<1>5. m \in 1 .. h_size - 1
  BY <1>1, <1>3, <1>4, SMT
<1>6. Parent(m) \in 0 .. h_size - 1 /\ Parent(m) < m /\ KeyAt(m) <= KeyAt(Parent(m))
  BY <1>5, OrderOfKeys
<1>7. KeyAt(Parent(m)) \in Nat
  BY <1>6, HeapTypes
<1>8. Parent(m) \in T
  <2>1. ~(KeyAt(Parent(m)) <= KeyAt(0))
    BY <1>3, <1>6, <1>7, SMT
  <2> QED BY <1>6, <2>1
<1>9. m <= Parent(m) /\ m \in Nat /\ Parent(m) \in Nat
  BY <1>2, <1>3, <1>6, <1>8, SMT
<1> QED BY <1>6, <1>9, SMT

(* push() puts a task into the bag, pop() takes one out that no other        *)
(* outranks, and their loops leave the bag alone.                            *)
LEMMA HeapSimulates ==
    ASSUME BagIInv, [SchedNext]_schedVars
    PROVE  BagIInv' /\ [Queue!Next]_<<HeapBag, h_root>>
<1>1. /\ HeapIInv /\ HeapIInv' /\ h_size \in Nat
      /\ IsFiniteSet(Stored(Tasks, HeapBag)) /\ Cardinality(Stored(Tasks, HeapBag)) = h_size
  BY HeapStep, HeapTypes DEF BagIInv
<1>20. IsFiniteSet(0 .. h_size - 1)
  <2>1. h_size - 1 \in Int
    BY <1>1, SMT
  <2> QED BY <2>1, FS_Interval
<1>2. /\ HeapBag \in [Tasks -> Nat]
      /\ \A x \in Tasks : HeapBag[x] = Cardinality(Places(h_data, 0 .. h_size - 1, x))
  BY <1>1, BagTypes
<1>3. HeapBag' = [x \in Tasks |-> Cardinality(Places(h_data', 0 .. h_size' - 1, x))]
  BY DEF HeapBag, Places
<1>4. ASSUME h_size' = h_size, h_root' = h_root,
             \A x \in Tasks : Cardinality(Places(h_data', 0 .. h_size - 1, x))
                                = Cardinality(Places(h_data, 0 .. h_size - 1, x))
      PROVE  BagIInv' /\ [Queue!Next]_<<HeapBag, h_root>>
  <2>1. HeapBag' = HeapBag
    BY <1>2, <1>3, <1>4
  <2>2. Stored(Tasks, HeapBag)' = Stored(Tasks, HeapBag)
    BY <2>1 DEF Stored
  <2> QED BY <1>1, <1>4, <2>1, <2>2 DEF BagIInv
<1>5. ASSUME NEW x \in Tasks, Schedule(x)
      PROVE  BagIInv' /\ [Queue!Next]_<<HeapBag, h_root>>
  <2>1. CASE h_size >= HeapRoom
    <3>1. h_data' = h_data /\ h_size' = h_size /\ h_root' = h_root
      BY <1>5, <2>1 DEF Schedule, Push
    <3> QED BY <1>4, <3>1
  <2>2. CASE ~(h_size >= HeapRoom)
    <3>1. /\ h_data' = [h_data EXCEPT ![h_size] = x] /\ h_size' = h_size + 1
          /\ h_root' = h_root
      BY <1>5, <2>2 DEF Schedule, Push
    <3>2. /\ HeapRoom \in Nat \ {0} /\ h_size < HeapRoom /\ h_size \in 0 .. HeapRoom - 1
          /\ h_data \in [0 .. HeapRoom - 1 -> Tasks \cup {Unwritten}]
          /\ \A k \in 0 .. h_size - 1 : k \in 0 .. HeapRoom - 1 /\ k # h_size
      BY <1>1, <2>2, HeapTypes, SMT
    <3>3. h_data'[h_size] = x /\ \A k \in 0 .. h_size - 1 : h_data'[k] = h_data[k]
      BY <3>1, <3>2
    <3>4. ASSUME NEW y \in Tasks
          PROVE  HeapBag'[y] = HeapBag[y] + (IF y = x THEN 1 ELSE 0)
      <4>1. /\ 0 .. h_size' - 1 = (0 .. h_size - 1) \cup {h_size}
            /\ h_size \notin 0 .. h_size - 1
        BY <1>1, <3>1, SMT
      <4>2. Cardinality(Places(h_data', (0 .. h_size - 1) \cup {h_size}, y))
              = Cardinality(Places(h_data, 0 .. h_size - 1, y)) + (IF y = x THEN 1 ELSE 0)
        <5> DEFINE I == 0 .. h_size - 1
        <5>1. IsFiniteSet(I) /\ h_size \notin I /\ AgreeOn(h_data, h_data', I)
          BY <1>20, <3>3, <4>1 DEF AgreeOn
        <5> HIDE DEF I
        <5>2. Cardinality(Places(h_data', I \cup {h_size}, y))
                = Cardinality(Places(h_data, I, y)) + (IF y = h_data'[h_size] THEN 1 ELSE 0)
          BY <5>1, PushCounts
        <5> QED BY <3>3, <5>2 DEF I
      <4> QED BY <1>2, <1>3, <4>1, <4>2
    <3>5. HeapBag' = [HeapBag EXCEPT ![x] = @ + 1]
      <4>1. \A y \in Tasks : HeapBag'[y] = IF y = x THEN HeapBag[y] + 1 ELSE HeapBag[y]
        BY <1>2, <3>4
      <4>2. HeapBag' = [y \in Tasks |-> HeapBag'[y]]
        BY <1>3
      <4> QED BY <1>2, <4>1, <4>2
    <3>6. IsFiniteSet(Stored(Tasks, HeapBag')) /\ Cardinality(Stored(Tasks, HeapBag')) = h_size + 1
      BY <1>1, <1>2, <3>5, StoredMore
    <3>7. Queue!Put(x)
      <4>1. Queue!Size = Cardinality(Stored(Tasks, HeapBag))
        BY DEF Queue!Size, Queue!Cardinality, Cardinality, Stored
      <4>2. Queue!Size < HeapRoom
        BY <1>1, <3>2, <4>1
      <4> QED BY <3>1, <3>5, <4>2 DEF Queue!Put
    <3>8. Stored(Tasks, HeapBag)' = Stored(Tasks, HeapBag')
      BY DEF Stored
    <3> QED BY <1>1, <3>1, <3>6, <3>7, <3>8 DEF BagIInv, Queue!Next
  <2> QED BY <2>1, <2>2
<1>6. CASE Rise
  <2>1. h_size' = h_size /\ h_root' = h_root /\ h_pc = "rise" /\ h_i < h_size /\ h_i \in Nat
    BY <1>1, <1>6, HeapTypes DEF Rise, HeapIInv
  <2>2. CASE h_data' = h_data
    BY <1>4, <2>1, <2>2
  <2>3. CASE ~(h_data' = h_data)
    <3>1. h_data' = Exchanged(h_i, Parent(h_i)) /\ h_i > 0
      BY <1>6, <2>3 DEF Rise
    <3>2. h_i \in 0 .. h_size - 1 /\ h_i \in 1 .. h_size - 1
      BY <1>1, <2>1, <3>1, SMT
    <3>3. Parent(h_i) \in 0 .. h_size - 1 /\ Parent(h_i) # h_i
      <4>1. Parent(h_i) \in 0 .. h_size - 1 /\ Parent(h_i) < h_i
        BY <1>1, <3>2, ParentBelow
      <4> QED BY <2>1, <4>1, SMT
    <3>4. \A k \in 0 .. h_size - 1 :
             h_data'[k] = IF k = h_i THEN h_data[Parent(h_i)]
                          ELSE IF k = Parent(h_i) THEN h_data[h_i] ELSE h_data[k]
      BY <1>1, <3>1, <3>2, <3>3, ExchangeTypes
    <3>5. \A x \in Tasks : Cardinality(Places(h_data', 0 .. h_size - 1, x))
                              = Cardinality(Places(h_data, 0 .. h_size - 1, x))
      <4> DEFINE I == 0 .. h_size - 1
                 p == Parent(h_i)
      <4>1. /\ IsFiniteSet(I) /\ h_i \in I /\ p \in I /\ p # h_i
            /\ TradedIn(h_data, h_data', I, h_i, p)
        BY <1>20, <3>2, <3>3, <3>4 DEF TradedIn
      <4> HIDE DEF I, p
      <4>2. \A x \in Tasks : Cardinality(Places(h_data', I, x)) = Cardinality(Places(h_data, I, x))
        BY <4>1, ExchangeCounts
      <4> QED BY <4>2 DEF I
    <3> QED BY <1>4, <2>1, <3>5
  <2> QED BY <2>2, <2>3
<1>7. CASE Descend
  <2> DEFINE L == Largest(h_i)
  <2>1. h_size' = h_size /\ h_root' = h_root /\ L # h_i /\ h_data' = Exchanged(h_i, L)
    BY <1>7 DEF Descend
  <2>2. L \in 1 .. h_size - 1 /\ h_i \in 0 .. h_size - 1
    BY <1>1, <2>1, LargestOf
  <2> HIDE DEF L
  <2>3. L \in 0 .. h_size - 1
    BY <1>1, <2>2, ParentBelow
  <2>4. \A k \in 0 .. h_size - 1 :
           h_data'[k] = IF k = h_i THEN h_data[L] ELSE IF k = L THEN h_data[h_i] ELSE h_data[k]
    BY <1>1, <2>1, <2>2, <2>3, ExchangeTypes
  <2>5. \A x \in Tasks : Cardinality(Places(h_data', 0 .. h_size - 1, x))
                            = Cardinality(Places(h_data, 0 .. h_size - 1, x))
    <3> DEFINE I == 0 .. h_size - 1
    <3>1. /\ IsFiniteSet(I) /\ h_i \in I /\ L \in I /\ L # h_i
          /\ TradedIn(h_data, h_data', I, h_i, L)
      BY <1>20, <2>1, <2>2, <2>3, <2>4 DEF TradedIn
    <3> HIDE DEF I
    <3>2. \A x \in Tasks : Cardinality(Places(h_data', I, x)) = Cardinality(Places(h_data, I, x))
      BY <3>1, ExchangeCounts
    <3> QED BY <3>2 DEF I
  <2> QED BY <1>4, <2>1, <2>5
<1>8. CASE Pop
  <2> DEFINE top == h_data[0]
  <2>1. /\ h_pc = "idle" /\ h_size > 0 /\ h_root' = top /\ h_size' = h_size - 1
        /\ h_data' = [h_data EXCEPT ![0] = h_data[h_size - 1]]
    BY <1>8 DEF Pop
  <2>2. /\ h_size <= HeapRoom /\ HeapRoom \in Nat \ {0} /\ 0 \in 0 .. h_size - 1
        /\ h_data \in [0 .. HeapRoom - 1 -> Tasks \cup {Unwritten}]
    BY <1>1, <2>1, HeapTypes, SMT
  <2>3. 0 \in 0 .. HeapRoom - 1 /\ \A k \in 0 .. h_size - 2 : k \in 0 .. HeapRoom - 1
    BY <1>1, <2>2, SMT
  <2>4. \A k \in 0 .. h_size - 2 : h_data'[k] = IF k = 0 THEN h_data[h_size - 1] ELSE h_data[k]
    BY <2>1, <2>2, <2>3
  <2>5. ASSUME NEW y \in Tasks
        PROVE  /\ HeapBag'[y] = HeapBag[y] - (IF y = top THEN 1 ELSE 0)
               /\ y = top => HeapBag[y] > 0
    <3>1. /\ Cardinality(Places(h_data', 0 .. h_size' - 1, y))
               = Cardinality(Places(h_data, 0 .. h_size - 1, y)) - (IF y = h_data[0] THEN 1 ELSE 0)
          /\ y = h_data[0] => Cardinality(Places(h_data, 0 .. h_size - 1, y)) > 0
      <4> DEFINE I == 0 .. h_size - 1
                 l == h_size - 1
      <4>1. /\ 0 .. h_size' - 1 = I \ {l} /\ 0 \in I /\ l \in I /\ IsFiniteSet(I)
            /\ \A k \in I \ {l} : k \in 0 .. h_size - 2
        <5>1. h_size \in Nat /\ h_size > 0 /\ h_size' = h_size - 1
          BY <1>1, <2>1
        <5>2. \A k : k \in 0 .. h_size' - 1 <=> k \in I /\ k # l
          BY <5>1, SMT
        <5>3. 0 \in I /\ l \in I /\ \A k \in I \ {l} : k \in 0 .. h_size - 2
          BY <5>1, SMT
        <5>4. 0 .. h_size' - 1 = I \ {l}
          <6> HIDE DEF I, l
          <6> QED BY <5>2
        <5> QED BY <1>20, <5>3, <5>4
      <4>2. \A k \in I \ {l} : h_data'[k] = IF k = 0 THEN h_data[l] ELSE h_data[k]
        BY <2>4, <4>1
      <4> HIDE DEF I, l
      <4>3. /\ Cardinality(Places(h_data', I \ {l}, y))
                 = Cardinality(Places(h_data, I, y)) - (IF y = h_data[0] THEN 1 ELSE 0)
            /\ y = h_data[0] => Cardinality(Places(h_data, I, y)) > 0
        BY <4>1, <4>2, PopCounts
      <4> QED BY <4>1, <4>3 DEF I
    <3> QED BY <1>2, <1>3, <2>1, <3>1 DEF top
  <2>6. top \in Tasks /\ HeapBag[top] > 0
    BY <1>1, <2>2, <2>5, HeapTypes
  <2> HIDE DEF top
  <2>7. HeapBag' = [HeapBag EXCEPT ![top] = @ - 1]
    <3>1. \A y \in Tasks : HeapBag'[y] = IF y = top THEN HeapBag[y] - 1 ELSE HeapBag[y]
      BY <1>2, <2>5
    <3>2. HeapBag' = [y \in Tasks |-> HeapBag'[y]]
      BY <1>3
    <3> QED BY <1>2, <3>1, <3>2
  <2>8. IsFiniteSet(Stored(Tasks, HeapBag')) /\ Cardinality(Stored(Tasks, HeapBag')) = h_size - 1
    BY <1>1, <1>2, <2>6, <2>7, StoredLess
  <2>9. ASSUME NEW y \in Tasks, HeapBag[y] > 0
        PROVE  ~Greater(y, top)
    <3>1. Places(h_data, 0 .. h_size - 1, y) # {}
      <4>1. SUFFICES ASSUME Places(h_data, 0 .. h_size - 1, y) = {} PROVE FALSE
        OBVIOUS
      <4>2. HeapBag[y] = 0
        BY <1>2, <4>1, FS_EmptySet
      <4> QED BY <2>9, <4>2, SMT
    <3>2. PICK k \in 0 .. h_size - 1 : h_data[k] = y
      BY <3>1 DEF Places
    <3>3. KeyAt(k) <= KeyAt(0) /\ KeyAt(k) \in Nat /\ KeyAt(0) \in Nat
      BY <1>1, <2>1, <2>2, TopIsGreatest, HeapTypes
    <3>4. KeyAt(k) = Priority[y] /\ KeyAt(0) = Priority[top]
      BY <3>2 DEF KeyAt, top
    <3> QED BY <3>3, <3>4, SMT DEF Greater, Less
  <2>10. Queue!Take(top)
    BY <2>1, <2>6, <2>7, <2>9 DEF Queue!Take
  <2>11. Stored(Tasks, HeapBag)' = Stored(Tasks, HeapBag')
    BY DEF Stored
  <2> QED BY <1>1, <2>1, <2>6, <2>8, <2>10, <2>11 DEF BagIInv, Queue!Next
<1>9. CASE h_data' = h_data /\ h_size' = h_size /\ h_root' = h_root
  BY <1>4, <1>9
<1>10. CASE Runs \/ EntryReturns \/ UNCHANGED schedVars
  BY <1>9, <1>10 DEF Runs, PopReturns, EntryReturns, schedVars, heapVars
<1> QED BY <1>5, <1>6, <1>7, <1>8, <1>10 DEF SchedNext, DispatchNext

(* The heap is empty at first, and so is the bag.                            *)
LEMMA InitBag == SchedInit => BagIInv /\ Queue!Init
<1> SUFFICES ASSUME SchedInit PROVE BagIInv /\ Queue!Init
  OBVIOUS
<1>1. HeapIInv /\ h_size = 0 /\ h_root = Unwritten
  BY InitHeap DEF SchedInit, HeapInit
<1>2. \A x \in Tasks : HeapBag[x] = 0
  <2>1. ASSUME NEW x \in Tasks PROVE Places(h_data, 0 .. h_size - 1, x) = {}
    BY <1>1, SMT DEF Places
  <2> QED BY <1>1, <2>1, BagTypes, FS_EmptySet
<1>3. HeapBag = [x \in Tasks |-> 0]
  BY <1>1, <1>2, BagTypes
<1>4. Stored(Tasks, HeapBag) = {}
  <2>1. \A x \in Tasks : 1 .. HeapBag[x] = {}
    BY <1>2, SMT
  <2> QED BY <2>1 DEF Stored
<1>5. Unwritten \notin Tasks
  BY HeapAssumption DEF Unwritten
<1> QED BY <1>1, <1>3, <1>4, <1>5, FS_EmptySet DEF BagIInv, Queue!Init

-----------------------------------------------------------------------------
\* The heap of points (BinaryHeap).
\* a may be above b.
AtMost(a, b) == ~NodeLess(b, a)

(* Points are in a total order of classes of equal points.                   *)
LEMMA PointsOrdered ==
    ASSUME NEW a \in Nodes, NEW b \in Nodes, NEW c \in Nodes
    PROVE  /\ AtMost(a, a) /\ (AtMost(a, b) \/ AtMost(b, a))
           /\ NodeLess(a, b) => AtMost(a, b)
           /\ AtMost(a, b) /\ AtMost(b, c) => AtMost(a, c)
<1>1. /\ Point[a].x \in Int /\ Point[a].y \in Int /\ Point[b].x \in Int
      /\ Point[b].y \in Int /\ Point[c].x \in Int /\ Point[c].y \in Int
  BY PointAssumption
<1> QED BY <1>1, SMT DEF AtMost, NodeLess, PointLess

(* Where the children of a node are, counting from 1.                        *)
LEMMA HalfIsParent ==
    ASSUME NEW n \in Nat, NEW k \in 2 .. n
    PROVE  /\ k \in 1 .. n /\ k \div 2 \in 1 .. n /\ k \div 2 < k /\ k \in Nat
           /\ \A i \in Nat : k \div 2 = i <=> k = 2 * i \/ k = 2 * i + 1
           /\ k \div 2 > 1 => k \div 2 \in 2 .. n
BY SMT

(* What an exchange does to a heap.                                          *)
LEMMA SwapsTwo ==
    ASSUME NEW s \in Seq(Nodes), NEW i \in 1 .. Len(s), NEW j \in 1 .. Len(s), i # j
    PROVE  /\ Swapped(s, i, j) \in Seq(Nodes) /\ Len(Swapped(s, i, j)) = Len(s)
           /\ TradedIn(s, Swapped(s, i, j), 1 .. Len(s), i, j)
<1>1. /\ s \in [1 .. Len(s) -> Nodes] /\ Len(s) \in Nat
  BY LenProperties, ElementOfSeq
<1>2. Swapped(s, i, j) = [k \in 1 .. Len(s) |-> IF k = i THEN s[j] ELSE IF k = j THEN s[i] ELSE s[k]]
  BY <1>1 DEF Swapped
<1>3. Swapped(s, i, j) \in [1 .. Len(s) -> Nodes]
  BY <1>1, <1>2
<1>4. Swapped(s, i, j) \in Seq(Nodes)
  BY <1>1, <1>3, IsASeq
<1>5. DOMAIN Swapped(s, i, j) = 1 .. Len(s)
  BY <1>2
<1>6. Len(Swapped(s, i, j)) = Len(s)
  BY <1>1, <1>4, <1>5, LenProperties
<1> QED BY <1>2, <1>4, <1>6 DEF TradedIn

\* In t each node is as often as in s.
SameNodes(s, t) ==
    /\ t \in Seq(Nodes) /\ Len(t) = Len(s)
    /\ \A x \in Nodes : Cardinality(Places(t, 1 .. Len(t), x)) = Cardinality(Places(s, 1 .. Len(s), x))

LEMMA SwapKeepsNodes ==
    ASSUME NEW s \in Seq(Nodes), NEW i \in 1 .. Len(s), NEW j \in 1 .. Len(s), i # j
    PROVE  SameNodes(s, Swapped(s, i, j))
<1> DEFINE I == 1 .. Len(s)
<1>1. /\ Swapped(s, i, j) \in Seq(Nodes) /\ Len(Swapped(s, i, j)) = Len(s)
      /\ TradedIn(s, Swapped(s, i, j), I, i, j)
  BY SwapsTwo
<1>2. IsFiniteSet(I) /\ i \in I /\ j \in I
  BY LenProperties, FS_Interval
<1> HIDE DEF I
<1>3. \A x \in Nodes : Cardinality(Places(Swapped(s, i, j), I, x)) = Cardinality(Places(s, I, x))
  BY <1>1, <1>2, ExchangeCounts
<1> QED BY <1>1, <1>3 DEF SameNodes, I

\* Every node is below its parent; all but the one at i are; all but those below i.
InOrder(s) == \A k \in 2 .. Len(s) : AtMost(s[k \div 2], s[k])
Spans(s, i) ==
    i > 1 => \A k \in 2 .. Len(s) : k \div 2 = i => AtMost(s[i \div 2], s[k])
InOrderButAt(s, i) == \A k \in 2 .. Len(s) : k # i => AtMost(s[k \div 2], s[k])
InOrderButBelow(s, i) == \A k \in 2 .. Len(s) : k \div 2 # i => AtMost(s[k \div 2], s[k])

(* A round of push() moves the element that may be out of order up.          *)
LEMMA RisesOnce ==
    ASSUME NEW s \in Seq(Nodes), NEW i \in 1 .. Len(s), InOrderButAt(s, i), Spans(s, i)
    PROVE  IF i > 1 /\ NodeLess(s[i], s[i \div 2])
             THEN /\ i \div 2 \in 1 .. Len(s) /\ i \div 2 < i
                  /\ SameNodes(s, Swapped(s, i, i \div 2))
                  /\ InOrderButAt(Swapped(s, i, i \div 2), i \div 2)
                  /\ Spans(Swapped(s, i, i \div 2), i \div 2)
             ELSE InOrder(s)
<1> DEFINE n == Len(s)
           t == Swapped(s, i, i \div 2)
<1>1. n \in Nat /\ i \in Nat /\ i \in 1 .. n /\ \A k \in 1 .. n : s[k] \in Nodes
  BY LenProperties, ElementOfSeq
<1>2. CASE ~(i > 1 /\ NodeLess(s[i], s[i \div 2]))
  <2>1. ASSUME NEW k \in 2 .. n PROVE AtMost(s[k \div 2], s[k])
    <3>1. CASE k # i
      BY <3>1 DEF InOrderButAt
    <3>2. CASE k = i
      BY <1>1, <1>2, <3>2 DEF AtMost
    <3> QED BY <3>1, <3>2
  <2> QED BY <1>2, <2>1 DEF InOrder
<1>3. CASE i > 1 /\ NodeLess(s[i], s[i \div 2])
  <2> DEFINE p == i \div 2
  <2>1. /\ p \in 1 .. n /\ p < i /\ p \in Nat /\ i \in 2 .. n
        /\ p > 1 => p \in 2 .. n /\ p \div 2 \in 1 .. n /\ p \div 2 < p
    <3>1. i \in 2 .. n
      BY <1>1, <1>3
    <3> QED BY <1>1, <3>1, HalfIsParent
  <2>2. p # i
    BY <1>1, <2>1
  <2>3. /\ SameNodes(s, t) /\ Len(t) = n
        /\ \A k \in 1 .. n : t[k] = IF k = i THEN s[p] ELSE IF k = p THEN s[i] ELSE s[k]
    BY <2>1, <2>2, SwapKeepsNodes, SwapsTwo, ZenonT(60) DEF TradedIn
  <2>4. NodeLess(s[i], s[p])
    BY <1>3
  <2>5. \A k \in 2 .. n : /\ k \in 1 .. n /\ k \div 2 \in 1 .. n /\ k \in Nat
                          /\ k \div 2 \in Nat /\ k \div 2 < k
    BY <1>1, HalfIsParent
  <2>6. /\ \A k \in 2 .. n : k # i => AtMost(s[k \div 2], s[k])
        /\ \A k \in 2 .. n : k \div 2 = i => AtMost(s[p], s[k])
    BY <1>3 DEF InOrderButAt, Spans
  <2> HIDE DEF t, n
  <2>7. p > 1 => AtMost(s[p \div 2], s[p])
    BY <2>1, <2>2, <2>6
  <2>8. i \div 2 = p
    OBVIOUS
  <2> HIDE DEF p
  <2>9. AtMost(s[i], s[p])
    BY <1>1, <2>1, <2>4, PointsOrdered
  <2>10. ASSUME NEW k \in 2 .. n, k # p PROVE AtMost(t[k \div 2], t[k])
    <3> DEFINE q == k \div 2
    <3>1. k \in 1 .. n /\ q \in 1 .. n /\ q < k /\ k \in Nat /\ q \in Nat
      BY <2>5
    <3>2. CASE k = i
      BY <2>2, <2>3, <2>8, <2>9, <3>1, <3>2
    <3>3. CASE k # i /\ q = i
      BY <2>2, <2>3, <2>6, <2>10, <3>1, <3>3
    <3>4. CASE k # i /\ q = p
      <4>1. AtMost(s[p], s[k])
        BY <2>6, <3>4
      <4>2. AtMost(s[i], s[k])
        BY <1>1, <2>1, <2>9, <3>1, <4>1, PointsOrdered
      <4> QED BY <2>2, <2>3, <2>10, <3>1, <3>4, <4>2
    <3>5. CASE k # i /\ q # i /\ q # p
      BY <2>3, <2>6, <2>10, <3>1, <3>5
    <3> QED BY <3>2, <3>3, <3>4, <3>5
  <2>11. ASSUME p > 1, NEW k \in 2 .. n, k \div 2 = p PROVE AtMost(t[p \div 2], t[k])
    <3> DEFINE g == p \div 2
    <3>1. g \in 1 .. n /\ g # p /\ g # i /\ k \in 1 .. n /\ k # p
      BY <1>1, <2>1, <2>5, <2>11
    <3>2. t[g] = s[g] /\ AtMost(s[g], s[p])
      BY <2>3, <2>7, <2>11, <3>1
    <3>3. CASE k = i
      BY <2>3, <3>1, <3>2, <3>3
    <3>4. CASE k # i
      <4>1. AtMost(s[p], s[k])
        BY <2>6, <2>11, <3>4
      <4>2. AtMost(s[g], s[k])
        BY <1>1, <2>1, <3>1, <3>2, <4>1, PointsOrdered
      <4> QED BY <2>3, <3>1, <3>2, <3>4, <4>2
    <3> QED BY <3>3, <3>4
  <2>12. InOrderButAt(t, p) /\ Spans(t, p)
    BY <2>3, <2>10, <2>11 DEF InOrderButAt, Spans
  <2> QED BY <1>3, <2>1, <2>3, <2>12 DEF t, p, n
<1> QED BY <1>2, <1>3

(* Of a node and its children min_heapify() takes a least one.               *)
LEMMA SmallestOf ==
    ASSUME NEW s \in Seq(Nodes), NEW i \in 1 .. Len(s)
    PROVE  LET m == Smallest(s, i)
           IN  /\ m \in {i, 2 * i, 2 * i + 1} /\ m \in 1 .. Len(s)
               /\ m # i => NodeLess(s[m], s[i])
               /\ \A k \in 2 .. Len(s) : k \div 2 = i => AtMost(s[m], s[k])
<1> DEFINE n == Len(s)
           l == Lesser(s, i, 2 * i)
           m == Smallest(s, i)
<1>1. n \in Nat /\ i \in Nat /\ i \in 1 .. n /\ \A k \in 1 .. n : s[k] \in Nodes
  BY LenProperties, ElementOfSeq
<1>2. 2 * i \in Nat /\ 2 * i + 1 \in Nat /\ 2 * i > 0 /\ 2 * i # i /\ 2 * i + 1 # i
  BY <1>1
<1>3. /\ 2 * i <= n => 2 * i \in 1 .. n
      /\ 2 * i + 1 <= n => 2 * i + 1 \in 1 .. n
  BY <1>1, <1>2
<1>4. /\ l \in {i, 2 * i} /\ l \in 1 .. n /\ AtMost(s[l], s[i])
      /\ l # i => NodeLess(s[l], s[i])
      /\ 2 * i <= n => AtMost(s[l], s[2 * i])
  <2>1. CASE 2 * i <= n /\ NodeLess(s[2 * i], s[i])
    <3>1. l = 2 * i
      BY <2>1 DEF Lesser
    <3> QED BY <1>1, <1>3, <2>1, <3>1, PointsOrdered
  <2>2. CASE ~(2 * i <= n /\ NodeLess(s[2 * i], s[i]))
    <3>1. l = i
      BY <2>2 DEF Lesser
    <3> QED BY <1>1, <1>3, <2>2, <3>1, PointsOrdered DEF AtMost
  <2> QED BY <2>1, <2>2
<1>5. m = Lesser(s, l, 2 * i + 1)
  BY DEF Smallest
<1> HIDE DEF l, m
<1>6. /\ m \in {i, 2 * i, 2 * i + 1} /\ m \in 1 .. n
      /\ m # i => NodeLess(s[m], s[i])
      /\ 2 * i <= n => AtMost(s[m], s[2 * i])
      /\ 2 * i + 1 <= n => AtMost(s[m], s[2 * i + 1])
  <2>1. CASE 2 * i + 1 <= n /\ NodeLess(s[2 * i + 1], s[l])
    <3> DEFINE r == 2 * i + 1
    <3>1. m = r /\ r \in 1 .. n /\ NodeLess(s[r], s[l])
      BY <1>3, <1>5, <2>1 DEF Lesser
    <3> HIDE DEF r
    <3>2. s[r] \in Nodes /\ s[l] \in Nodes /\ s[i] \in Nodes
      BY <1>1, <1>4, <3>1
    <3>3. AtMost(s[r], s[l]) /\ AtMost(s[r], s[r])
      BY <3>1, <3>2, PointsOrdered
    <3>4. NodeLess(s[r], s[i])
      <4>1. CASE l = i
        BY <3>1, <4>1
      <4>2. CASE AtMost(s[i], s[r])
        <5>1. AtMost(s[l], s[r])
          BY <1>4, <3>2, <4>2, PointsOrdered
        <5> QED BY <3>1, <5>1 DEF AtMost
      <4> QED BY <4>2 DEF AtMost
    <3>5. 2 * i <= n => AtMost(s[r], s[2 * i])
      <4> SUFFICES ASSUME 2 * i <= n PROVE AtMost(s[r], s[2 * i])
        OBVIOUS
      <4>1. s[2 * i] \in Nodes /\ AtMost(s[l], s[2 * i])
        BY <1>1, <1>3, <1>4
      <4> QED BY <3>2, <3>3, <4>1, PointsOrdered
    <3> QED BY <3>1, <3>3, <3>4, <3>5 DEF r
  <2>2. CASE ~(2 * i + 1 <= n /\ NodeLess(s[2 * i + 1], s[l]))
    <3>1. m = l
      BY <1>5, <2>2 DEF Lesser
    <3> QED BY <1>4, <2>2, <3>1 DEF AtMost
  <2> QED BY <2>1, <2>2
<1>7. ASSUME NEW k \in 2 .. n, k \div 2 = i PROVE AtMost(s[m], s[k])
  <2>1. (k = 2 * i \/ k = 2 * i + 1) /\ k <= n
    BY <1>1, <1>7, HalfIsParent
  <2> QED BY <1>6, <2>1
<1> QED BY <1>6, <1>7 DEF m, n

(* A round of min_heapify() moves the element that may be too low down.      *)
LEMMA SinksOnce ==
    ASSUME NEW s \in Seq(Nodes), NEW i \in 1 .. Len(s), InOrderButBelow(s, i), Spans(s, i)
    PROVE  LET m == Smallest(s, i)
           IN  IF m = i THEN InOrder(s)
               ELSE /\ m \in 1 .. Len(s) /\ i < m
                    /\ SameNodes(s, Swapped(s, i, m))
                    /\ InOrderButBelow(Swapped(s, i, m), m) /\ Spans(Swapped(s, i, m), m)
<1> DEFINE n == Len(s)
           m == Smallest(s, i)
           t == Swapped(s, i, m)
<1>1. n \in Nat /\ i \in Nat /\ i \in 1 .. n /\ \A k \in 1 .. n : s[k] \in Nodes
  BY LenProperties, ElementOfSeq
<1>2. /\ m \in {i, 2 * i, 2 * i + 1} /\ m \in 1 .. n
      /\ m # i => NodeLess(s[m], s[i])
      /\ \A k \in 2 .. n : k \div 2 = i => AtMost(s[m], s[k])
  BY SmallestOf
<1> HIDE DEF m
<1>3. CASE m = i
  BY <1>2, <1>3 DEF InOrder, InOrderButBelow, m
<1>4. CASE m # i
  <2>1. /\ SameNodes(s, t) /\ Len(t) = n
        /\ \A k \in 1 .. n : t[k] = IF k = i THEN s[m] ELSE IF k = m THEN s[i] ELSE s[k]
    BY <1>2, <1>4, SwapKeepsNodes, SwapsTwo DEF TradedIn
  <2>2. m \in Nat /\ i < m /\ m \in 2 .. n
    BY <1>1, <1>2, <1>4
  <2>3. m \div 2 = i
    BY <1>1, <1>2, <1>4, <2>2, HalfIsParent
  <2>4. \A k \in 2 .. n : /\ k \in 1 .. n /\ k \div 2 \in 1 .. n /\ k \in Nat
                          /\ k \div 2 \in Nat /\ k \div 2 < k
    BY <1>1, HalfIsParent
  <2>5. /\ \A k \in 2 .. n : k \div 2 # i => AtMost(s[k \div 2], s[k])
        /\ i > 1 => \A k \in 2 .. n : k \div 2 = i => AtMost(s[i \div 2], s[k])
    BY DEF InOrderButBelow, Spans
  <2>6. AtMost(s[m], s[i])
    BY <1>1, <1>2, <1>4, PointsOrdered
  <2> HIDE DEF t, n
  <2>7. ASSUME NEW k \in 2 .. n, k \div 2 # m PROVE AtMost(t[k \div 2], t[k])
    <3> DEFINE q == k \div 2
    <3>1. k \in 1 .. n /\ q \in 1 .. n /\ q < k /\ k \in Nat /\ q \in Nat /\ q # m
      BY <2>4, <2>7
    <3>2. CASE k = m
      BY <2>1, <2>3, <2>6, <3>1, <3>2, <1>4, <1>1, <1>2
    <3>3. CASE k # m /\ q = i
      <4>1. k # i /\ t[q] = s[m] /\ t[k] = s[k]
        BY <1>1, <2>1, <3>1, <3>3
      <4> QED BY <1>2, <3>3, <4>1
    <3>4. CASE k # m /\ q # i /\ k = i
      <4>1. i > 1 /\ t[q] = s[q] /\ t[k] = s[m] /\ q = i \div 2
        BY <1>1, <1>4, <2>1, <3>1, <3>4
      <4> QED BY <2>2, <2>3, <2>5, <4>1
    <3>5. CASE k # m /\ q # i /\ k # i
      <4>1. t[q] = s[q] /\ t[k] = s[k]
        BY <2>1, <3>1, <3>5
      <4> QED BY <2>5, <3>5, <4>1
    <3> QED BY <3>2, <3>3, <3>4, <3>5
  <2>8. ASSUME NEW k \in 2 .. n, k \div 2 = m PROVE AtMost(t[m \div 2], t[k])
    <3>1. k \in 1 .. n /\ k # m /\ k # i /\ m \div 2 = i /\ k \div 2 # i
      BY <1>1, <2>2, <2>3, <2>4, <2>8
    <3>2. t[i] = s[m] /\ t[k] = s[k]
      BY <1>1, <2>1, <3>1
    <3> QED BY <2>5, <2>8, <3>1, <3>2
  <2>9. InOrderButBelow(t, m) /\ Spans(t, m)
    BY <2>1, <2>7, <2>8 DEF InOrderButBelow, Spans
  <2> QED BY <1>2, <1>4, <2>1, <2>2, <2>9 DEF t, m, n
<1> QED BY <1>3, <1>4

\* f returns the heap where a loop that goes from p on to g[p] stops.
Follows(f, Stop, g) == f = [p \in Moving |-> IF p \in Stop THEN p[1] ELSE f[g[p]]]

\* m falls along g.
Falls(Stop, g, m) ==
    /\ Stop \subseteq Moving /\ g \in [Moving -> Moving] /\ m \in [Moving -> Nat]
    /\ \A p \in Moving \ Stop : m[g[p]] < m[p]

(* A loop that ends is a function, and one that keeps the nodes of the heap  *)
(* and stops in order returns the same nodes in order.                       *)
LEMMA HeapLoopReturns ==
    ASSUME NEW Stop, NEW g, NEW m, Falls(Stop, g, m)
    PROVE  \E f : Follows(f, Stop, g)
<1> DEFINE V == Seq(Nodes)
           base == [p \in Moving |-> p[1]]
           comb == [q \in Moving \X V |-> q[2]]
<1>1. /\ Stop \subseteq Moving /\ g \in [Moving -> Moving] /\ m \in [Moving -> Nat]
      /\ \A p \in Moving \ Stop : m[g[p]] < m[p]
  BY DEF Falls
<1>2. base \in [Moving -> V] /\ \A p \in Moving : base[p] = p[1]
  BY DEF Moving
<1>3. comb \in [Moving \X V -> V] /\ \A p \in Moving, v \in V : comb[<<p, v>>] = v
  OBVIOUS
<1> HIDE DEF base, comb
<1>4. LoopOver(Moving, V, Stop, g, m, base, comb)
  BY <1>1, <1>2, <1>3 DEF LoopOver
<1>5. PICK f \in [Moving -> V] : \A p \in Moving : f[p] = LoopRound(Stop, g, base, comb, f, p)
  BY <1>4, LoopReturns
<1>6. ASSUME NEW p \in Moving PROVE f[p] = IF p \in Stop THEN p[1] ELSE f[g[p]]
  <2>1. f[p] = IF p \in Stop THEN base[p] ELSE comb[<<p, f[g[p]]>>]
    BY <1>5 DEF LoopRound
  <2>2. f[g[p]] \in V
    BY <1>1, <1>5
  <2> QED BY <1>2, <1>3, <2>1, <2>2
<1>7. f = [p \in Moving |-> f[p]]
  OBVIOUS
<1> QED BY <1>6, <1>7 DEF Follows

LEMMA HeapLoopKeeps ==
    ASSUME NEW Stop, NEW g, NEW m, Falls(Stop, g, m), NEW f, Follows(f, Stop, g),
           NEW Good \in SUBSET Moving,
           \A p \in Good : IF p \in Stop THEN InOrder(p[1])
                           ELSE g[p] \in Good /\ SameNodes(p[1], g[p][1])
    PROVE  \A p \in Good : SameNodes(p[1], f[p]) /\ InOrder(f[p])
<1> DEFINE S == {p \in Good : ~(SameNodes(p[1], f[p]) /\ InOrder(f[p]))}
<1>1. ASSUME NEW p \in S PROVE p \notin Stop /\ g[p] \in S
  <2>1. p \in Moving /\ f[p] = IF p \in Stop THEN p[1] ELSE f[g[p]]
    BY DEF Follows
  <2>2. p \notin Stop
    <3> SUFFICES ASSUME p \in Stop PROVE FALSE
      OBVIOUS
    <3>1. f[p] = p[1] /\ InOrder(p[1]) /\ p[1] \in Seq(Nodes)
      BY <2>1 DEF Moving
    <3>2. SameNodes(p[1], p[1])
      BY <3>1 DEF SameNodes
    <3> QED BY <3>1, <3>2
  <2>3. g[p] \in Good /\ SameNodes(p[1], g[p][1]) /\ f[p] = f[g[p]]
    BY <2>1, <2>2
  <2>4. ASSUME SameNodes(g[p][1], f[p]) PROVE SameNodes(p[1], f[p])
    BY <2>3, <2>4 DEF SameNodes
  <2> QED BY <2>2, <2>3, <2>4
<1>2. S \in SUBSET Moving
  OBVIOUS
<1>3. S = {}
  <2> HIDE DEF S
  <2>1. /\ \A p \in S : p \notin Stop => g[p] \in S
        /\ \A p \in S : p \notin Stop
    BY <1>1
  <2>2. m \in [Moving -> Nat] /\ \A p \in Moving \ Stop : m[g[p]] < m[p]
    BY DEF Falls
  <2> QED BY <1>2, <2>1, <2>2, LoopEnds, Zenon
<1> QED BY <1>3

\* A round of push() that goes on, and the pair it goes on with.
Rises(p) == p[2] > 1 /\ NodeLess(p[1][p[2]], p[1][p[2] \div 2])
Above(p) == <<Swapped(p[1], p[2], p[2] \div 2), p[2] \div 2>>

(* push() puts its element where the heap is in order.                       *)
LEMMA RisenIsHeap ==
    ASSUME NEW s \in Seq(Nodes), NEW i \in 1 .. Len(s), InOrderButAt(s, i), Spans(s, i)
    PROVE  SameNodes(s, Risen[<<s, i>>]) /\ InOrder(Risen[<<s, i>>])
<1> DEFINE Stop == {p \in Moving : ~Rises(p)}
           g == [p \in Moving |-> IF Rises(p) THEN Above(p) ELSE p]
           m == [p \in Moving |-> p[2]]
           Good == {p \in Moving : InOrderButAt(p[1], p[2]) /\ Spans(p[1], p[2])}
<1>1. ASSUME NEW p \in Moving
      PROVE  /\ p[1] \in Seq(Nodes) /\ p[2] \in Nat /\ p[2] \in 1 .. Len(p[1])
             /\ p = <<p[1], p[2]>> /\ Len(p[1]) \in Nat
  BY LenProperties DEF Moving
<1>2. ASSUME NEW p \in Moving, Rises(p)
      PROVE  Above(p) \in Moving /\ p[2] \div 2 < p[2]
  <2> DEFINE t == Swapped(p[1], p[2], p[2] \div 2)
  <2>1. p[1] \in Seq(Nodes) /\ p[2] \in 2 .. Len(p[1]) /\ Len(p[1]) \in Nat
    BY <1>1, <1>2 DEF Rises
  <2>2. /\ p[2] \in 1 .. Len(p[1]) /\ p[2] \div 2 \in 1 .. Len(p[1])
        /\ p[2] \div 2 < p[2] /\ p[2] \in Nat
    BY <2>1, HalfIsParent
  <2>3. t \in Seq(Nodes) /\ Len(t) = Len(p[1])
    BY <2>1, <2>2, SwapsTwo
  <2>4. p[2] \div 2 \in Nat \ {0} /\ p[2] \div 2 <= Len(t)
    BY <2>1, <2>2, <2>3
  <2> HIDE DEF t
  <2>5. <<t, p[2] \div 2>> \in Moving
    BY <2>3, <2>4 DEF Moving
  <2> QED BY <2>2, <2>5 DEF t, Above
<1>3. Falls(Stop, g, m)
  <2>1. g \in [Moving -> Moving] /\ m \in [Moving -> Nat] /\ Stop \subseteq Moving
    BY <1>1, <1>2
  <2>2. ASSUME NEW p \in Moving \ Stop PROVE m[g[p]] < m[p]
    <3>1. Rises(p) /\ g[p] = Above(p) /\ Above(p)[2] = p[2] \div 2
      BY DEF Above
    <3> QED BY <1>2, <3>1
  <2> QED BY <2>1, <2>2 DEF Falls
<1>4. \E f : Follows(f, Stop, g)
  <2> HIDE DEF Stop, g, m
  <2> QED BY <1>3, HeapLoopReturns
<1>5. Follows(Risen, Stop, g)
  <2> DEFINE IsRisen(h) ==
                h = [p \in Moving |->
                       LET s_1 == p[1]
                           i_1 == p[2]
                       IN  IF i_1 > 1 /\ NodeLess(s_1[i_1], s_1[i_1 \div 2])
                             THEN h[<<Swapped(s_1, i_1, i_1 \div 2), i_1 \div 2>>]
                             ELSE s_1]
  <2>1. PICK f : Follows(f, Stop, g)
    BY <1>4
  <2>2. f = [p \in Moving |-> IF Rises(p) THEN f[Above(p)] ELSE p[1]]
    BY <2>1 DEF Follows
  <2>3. IsRisen(f)
    BY <2>2 DEF Rises, Above
  <2>4. Risen = CHOOSE h : IsRisen(h)
    BY DEF Risen
  <2>5. IsRisen(Risen)
    <3> HIDE DEF IsRisen
    <3> QED BY <2>3, <2>4
  <2>6. Risen = [p \in Moving |-> IF Rises(p) THEN Risen[Above(p)] ELSE p[1]]
    BY <2>5 DEF Rises, Above
  <2> QED BY <2>6 DEF Follows
<1>6. ASSUME NEW p \in Good
      PROVE  IF p \in Stop THEN InOrder(p[1])
             ELSE g[p] \in Good /\ SameNodes(p[1], g[p][1])
  <2> DEFINE s_1 == p[1]
             i_1 == p[2]
  <2>1. s_1 \in Seq(Nodes) /\ i_1 \in 1 .. Len(s_1) /\ InOrderButAt(s_1, i_1) /\ Spans(s_1, i_1)
    BY <1>1
  <2> HIDE DEF s_1, i_1
  <2>2. IF i_1 > 1 /\ NodeLess(s_1[i_1], s_1[i_1 \div 2])
          THEN /\ SameNodes(s_1, Swapped(s_1, i_1, i_1 \div 2))
               /\ InOrderButAt(Swapped(s_1, i_1, i_1 \div 2), i_1 \div 2)
               /\ Spans(Swapped(s_1, i_1, i_1 \div 2), i_1 \div 2)
          ELSE InOrder(s_1)
    BY <2>1, RisesOnce
  <2>3. IF Rises(p)
          THEN /\ SameNodes(p[1], Above(p)[1])
               /\ InOrderButAt(Above(p)[1], Above(p)[2]) /\ Spans(Above(p)[1], Above(p)[2])
          ELSE InOrder(p[1])
    BY <2>2 DEF s_1, i_1, Rises, Above
  <2> QED BY <1>2, <2>3
<1>7. <<s, i>> \in Good /\ <<s, i>>[1] = s
  BY LenProperties DEF Moving
<1>8. \A p \in Good : SameNodes(p[1], Risen[p]) /\ InOrder(Risen[p])
  <2>1. Good \in SUBSET Moving
    OBVIOUS
  <2> HIDE DEF Good, Stop, g, m
  <2> QED BY <1>3, <1>5, <1>6, <2>1, HeapLoopKeeps
<1> HIDE DEF Good
<1> QED BY <1>7, <1>8

\* A round of min_heapify() that goes on, and the pair it goes on with.
Sinks(p) == Smallest(p[1], p[2]) # p[2]
Below(p) == <<Swapped(p[1], p[2], Smallest(p[1], p[2])), Smallest(p[1], p[2])>>

(* min_heapify() does the same from a node whose subtrees are in order.      *)
LEMMA SunkIsHeap ==
    ASSUME NEW s \in Seq(Nodes), NEW i \in 1 .. Len(s), InOrderButBelow(s, i), Spans(s, i)
    PROVE  SameNodes(s, Sunk[<<s, i>>]) /\ InOrder(Sunk[<<s, i>>])
<1> DEFINE Stop == {p \in Moving : ~Sinks(p)}
           g == [p \in Moving |-> IF Sinks(p) THEN Below(p) ELSE p]
           m == [p \in Moving |-> Len(p[1]) - p[2]]
           Good == {p \in Moving : InOrderButBelow(p[1], p[2]) /\ Spans(p[1], p[2])}
<1>1. ASSUME NEW p \in Moving
      PROVE  /\ p[1] \in Seq(Nodes) /\ p[2] \in Nat /\ p[2] \in 1 .. Len(p[1])
             /\ p = <<p[1], p[2]>> /\ Len(p[1]) \in Nat
  BY LenProperties DEF Moving
<1>2. ASSUME NEW p \in Moving, Sinks(p)
      PROVE  /\ Below(p) \in Moving /\ p[2] < Below(p)[2] /\ Len(Below(p)[1]) = Len(p[1])
  <2> DEFINE l == Smallest(p[1], p[2])
             t == Swapped(p[1], p[2], l)
  <2>1. /\ p[1] \in Seq(Nodes) /\ p[2] \in 1 .. Len(p[1]) /\ Len(p[1]) \in Nat
        /\ p[2] \in Nat
    BY <1>1
  <2>2. l \in {p[2], 2 * p[2], 2 * p[2] + 1} /\ l \in 1 .. Len(p[1]) /\ l # p[2]
    BY <1>2, <2>1, SmallestOf DEF Sinks
  <2>3. t \in Seq(Nodes) /\ Len(t) = Len(p[1])
    BY <2>1, <2>2, SwapsTwo
  <2> HIDE DEF t, l
  <2>4. l \in Nat \ {0} /\ l <= Len(t) /\ p[2] < l
    BY <2>1, <2>2, <2>3
  <2>5. <<t, l>> \in Moving
    BY <2>3, <2>4 DEF Moving
  <2>6. Below(p) = <<t, l>>
    BY DEF t, l, Below
  <2> QED BY <2>3, <2>4, <2>5, <2>6
<1>3. Falls(Stop, g, m)
  <2>1. g \in [Moving -> Moving] /\ m \in [Moving -> Nat] /\ Stop \subseteq Moving
    BY <1>1, <1>2
  <2>2. ASSUME NEW p \in Moving \ Stop PROVE m[g[p]] < m[p]
    <3>1. Sinks(p) /\ g[p] = Below(p)
      OBVIOUS
    <3>2. /\ Below(p) \in Moving /\ p[2] < Below(p)[2] /\ Len(Below(p)[1]) = Len(p[1])
      BY <1>2, <3>1
    <3>3. /\ m[g[p]] = Len(p[1]) - Below(p)[2] /\ m[p] = Len(p[1]) - p[2]
          /\ Below(p)[2] \in Nat /\ p[2] \in Nat /\ Len(p[1]) \in Nat
      BY <1>1, <3>1, <3>2
    <3> HIDE DEF m, g
    <3> QED BY <3>2, <3>3
  <2> QED BY <2>1, <2>2 DEF Falls
<1>4. \E f : Follows(f, Stop, g)
  <2> HIDE DEF Stop, g, m
  <2> QED BY <1>3, HeapLoopReturns
<1>5. Follows(Sunk, Stop, g)
  <2> DEFINE IsSunk(h) ==
                h = [p \in Moving |->
                       LET s_1 == p[1]
                           i_1 == p[2]
                           least == Smallest(s_1, i_1)
                       IN  IF least = i_1 THEN s_1
                           ELSE h[<<Swapped(s_1, i_1, least), least>>]]
  <2>1. PICK f : Follows(f, Stop, g)
    BY <1>4
  <2>2. f = [p \in Moving |-> IF Sinks(p) THEN f[Below(p)] ELSE p[1]]
    BY <2>1 DEF Follows
  <2>3. IsSunk(f)
    BY <2>2 DEF Sinks, Below
  <2>4. Sunk = CHOOSE h : IsSunk(h)
    BY DEF Sunk
  <2>5. IsSunk(Sunk)
    <3> HIDE DEF IsSunk
    <3> QED BY <2>3, <2>4
  <2>6. Sunk = [p \in Moving |-> IF Sinks(p) THEN Sunk[Below(p)] ELSE p[1]]
    BY <2>5 DEF Sinks, Below
  <2> QED BY <2>6 DEF Follows
<1>6. ASSUME NEW p \in Good
      PROVE  IF p \in Stop THEN InOrder(p[1])
             ELSE g[p] \in Good /\ SameNodes(p[1], g[p][1])
  <2> DEFINE s_1 == p[1]
             i_1 == p[2]
  <2>1. s_1 \in Seq(Nodes) /\ i_1 \in 1 .. Len(s_1) /\ InOrderButBelow(s_1, i_1) /\ Spans(s_1, i_1)
    BY <1>1
  <2> HIDE DEF s_1, i_1
  <2>2. LET l == Smallest(s_1, i_1)
        IN  IF l = i_1 THEN InOrder(s_1)
            ELSE /\ SameNodes(s_1, Swapped(s_1, i_1, l))
                 /\ InOrderButBelow(Swapped(s_1, i_1, l), l) /\ Spans(Swapped(s_1, i_1, l), l)
    BY <2>1, SinksOnce
  <2>3. IF Sinks(p)
          THEN /\ SameNodes(p[1], Below(p)[1])
               /\ InOrderButBelow(Below(p)[1], Below(p)[2]) /\ Spans(Below(p)[1], Below(p)[2])
          ELSE InOrder(p[1])
    BY <2>2 DEF s_1, i_1, Sinks, Below
  <2> QED BY <1>2, <2>3
<1>7. <<s, i>> \in Good /\ <<s, i>>[1] = s
  BY LenProperties DEF Moving
<1>8. \A p \in Good : SameNodes(p[1], Sunk[p]) /\ InOrder(Sunk[p])
  <2>1. Good \in SUBSET Moving
    OBVIOUS
  <2> HIDE DEF Good, Stop, g, m
  <2> QED BY <1>3, <1>5, <1>6, <2>1, HeapLoopKeeps
<1> HIDE DEF Good
<1> QED BY <1>7, <1>8

\* The heap is in order, and the bag of its nodes is as big as the heap.
MinIInv ==
    /\ MinTypeOK /\ InOrder(b_data)
    /\ IsFiniteSet(Stored(Nodes, MinBag)) /\ Cardinality(Stored(Nodes, MinBag)) = Len(b_data)

(* No node of a heap in order is less than the top: of those that are, the   *)
(* first would have a parent that is.                                        *)
LEMMA TopIsLeast ==
    ASSUME NEW s \in Seq(Nodes), InOrder(s), NEW i \in 1 .. Len(s)
    PROVE  AtMost(s[1], s[i])
<1> DEFINE n == Len(s)
           T == {k \in 1 .. n : ~AtMost(s[1], s[k])}
<1> SUFFICES ASSUME T # {} PROVE FALSE
  OBVIOUS
<1>1. n \in Nat /\ 1 \in 1 .. n /\ \A k \in 1 .. n : s[k] \in Nodes
  BY LenProperties, ElementOfSeq
<1>2. PICK m \in T : \A k \in T : m <= k
  <2>1. T \subseteq Nat
    BY <1>1
  <2> HIDE DEF T
  <2> QED BY <2>1, LeastNumber
<1>3. m \in 1 .. n /\ m # 1 /\ ~AtMost(s[1], s[m]) /\ m \in Nat
  BY <1>1, PointsOrdered
<1> DEFINE p == m \div 2
<1>4. m \in 2 .. n
  BY <1>1, <1>3
<1>5. p \in 1 .. n /\ p < m /\ p \in Nat /\ AtMost(s[p], s[m])
  BY <1>1, <1>4, HalfIsParent DEF InOrder
<1> HIDE DEF p
<1>6. ~AtMost(s[1], s[p])
  BY <1>1, <1>3, <1>5, PointsOrdered
<1>7. p \in T
  BY <1>5, <1>6
<1>8. m <= p
  BY <1>2, <1>7
<1> QED BY <1>3, <1>5, <1>8

(* What the bag of the heap counts.                                          *)
LEMMA MinBagTypes ==
    ASSUME MinTypeOK
    PROVE  /\ MinBag \in [Nodes -> Nat] /\ IsFiniteSet(1 .. Len(b_data))
           /\ \A x \in Nodes : MinBag[x] = Cardinality(Places(b_data, 1 .. Len(b_data), x))
<1> DEFINE I == 1 .. Len(b_data)
<1>1. IsFiniteSet(I)
  BY LenProperties, FS_Interval DEF MinTypeOK
<1>2. MinBag = [x \in Nodes |-> Cardinality(Places(b_data, I, x))]
  BY DEF MinBag, Places
<1> HIDE DEF I
<1>3. \A x \in Nodes : Cardinality(Places(b_data, I, x)) \in Nat
  BY <1>1, PlacesFinite
<1> QED BY <1>1, <1>2, <1>3 DEF I

(* push() puts a node into the bag and pop() takes a least one out.          *)
LEMMA MinSimulates ==
    ASSUME MinIInv, [MinNext]_minVars
    PROVE  MinIInv' /\ [MinQueue!Next]_<<MinBag, b_out>>
<1> DEFINE n == Len(b_data)
<1>1. /\ MinTypeOK /\ b_data \in Seq(Nodes) /\ n \in Nat /\ n <= MinRoom /\ MinRoom \in Nat
      /\ \A k \in 1 .. n : b_data[k] \in Nodes
      /\ b_out \in Nodes \cup {NoNode} /\ InOrder(b_data)
      /\ IsFiniteSet(Stored(Nodes, MinBag)) /\ Cardinality(Stored(Nodes, MinBag)) = n
  BY PointAssumption, LenProperties, ElementOfSeq DEF MinIInv, MinTypeOK
<1>2. /\ MinBag \in [Nodes -> Nat] /\ IsFiniteSet(1 .. n)
      /\ \A x \in Nodes : MinBag[x] = Cardinality(Places(b_data, 1 .. n, x))
  BY <1>1, MinBagTypes
<1>3. MinBag' = [x \in Nodes |-> Cardinality(Places(b_data', 1 .. Len(b_data'), x))]
  BY DEF MinBag, Places
<1>4. Stored(Nodes, MinBag)' = Stored(Nodes, MinBag')
  BY DEF Stored
<1>5. ASSUME NEW x \in Nodes, MinPush(x)
      PROVE  MinIInv' /\ [MinQueue!Next]_<<MinBag, b_out>>
  <2> DEFINE s == Append(b_data, x)
             I == 1 .. n
  <2>1. n < MinRoom /\ b_data' = Risen[<<s, n + 1>>] /\ b_out' = b_out
    BY <1>5 DEF MinPush
  <2>2. /\ s \in Seq(Nodes) /\ Len(s) = n + 1 /\ s[n + 1] = x
        /\ \A k \in 1 .. n : s[k] = b_data[k]
    BY <1>1, AppendProperties
  <2> HIDE DEF s
  <2>3. n + 1 \in 1 .. Len(s)
    BY <1>1, <2>2
  <2>4. \A k \in 2 .. Len(s) : k \div 2 # n + 1 /\ (k # n + 1 => k \in 2 .. n)
    <3>1. \A k \in 2 .. n + 1 : k \div 2 < k /\ k \in Nat /\ k \div 2 \in Nat
      BY <1>1, SMT
    <3>2. \A k \in 2 .. n + 1 : k \div 2 # n + 1 /\ (k # n + 1 => k \in 2 .. n)
      BY <1>1, <3>1
    <3> QED BY <2>2, <3>2
  <2>5. InOrderButAt(s, n + 1) /\ Spans(s, n + 1)
    <3>1. ASSUME NEW k \in 2 .. Len(s), k # n + 1 PROVE AtMost(s[k \div 2], s[k])
      <4>1. k \in 2 .. n
        BY <2>4, <3>1
      <4>2. k \in 1 .. n /\ k \div 2 \in 1 .. n
        BY <1>1, <4>1, HalfIsParent
      <4> QED BY <1>1, <2>2, <4>1, <4>2 DEF InOrder
    <3> QED BY <2>4, <3>1 DEF InOrderButAt, Spans
  <2>6. SameNodes(s, b_data') /\ InOrder(b_data')
    BY <2>1, <2>2, <2>3, <2>5, RisenIsHeap
  <2>7. 1 .. n + 1 = I \cup {n + 1} /\ n + 1 \notin I
    BY <1>1
  <2>8. IsFiniteSet(I) /\ \A k \in I : s[k] = b_data[k]
    BY <1>2, <2>2
  <2>9. ASSUME NEW y \in Nodes
        PROVE  MinBag'[y] = IF y = x THEN MinBag[y] + 1 ELSE MinBag[y]
    <3>1. MinBag[y] = Cardinality(Places(b_data, I, y)) /\ MinBag[y] \in Nat
      BY <1>2
    <3>2. MinBag'[y] = Cardinality(Places(s, 1 .. n + 1, y))
      BY <1>3, <2>2, <2>6 DEF SameNodes
    <3> DEFINE last == n + 1
    <3>3. last \notin I /\ IsFiniteSet(I) /\ AgreeOn(b_data, s, I)
      BY <2>7, <2>8 DEF AgreeOn
    <3> HIDE DEF I, n, last
    <3>4. Cardinality(Places(s, I \cup {last}, y))
            = Cardinality(Places(b_data, I, y)) + (IF y = s[last] THEN 1 ELSE 0)
      BY <3>3, PushCounts
    <3>5. I \cup {last} = 1 .. n + 1 /\ s[last] = x
      BY <2>2, <2>7 DEF last
    <3>6. MinBag'[y] = MinBag[y] + (IF y = x THEN 1 ELSE 0)
      BY <3>1, <3>2, <3>4, <3>5
    <3> QED BY <3>1, <3>6
  <2>10. MinBag' = [MinBag EXCEPT ![x] = @ + 1]
    <3>1. MinBag' = [y \in Nodes |-> MinBag'[y]]
      BY <1>3
    <3> QED BY <1>2, <2>9, <3>1
  <2>11. IsFiniteSet(Stored(Nodes, MinBag')) /\ Cardinality(Stored(Nodes, MinBag')) = n + 1
    <3> HIDE DEF n
    <3>1. MinBag \in [Nodes -> Nat] /\ IsFiniteSet(Stored(Nodes, MinBag))
      BY <1>1, <1>2
    <3>2. /\ IsFiniteSet(Stored(Nodes, MinBag'))
          /\ Cardinality(Stored(Nodes, MinBag')) = Cardinality(Stored(Nodes, MinBag)) + 1
      BY <2>10, <3>1, StoredMore
    <3> QED BY <1>1, <3>2
  <2>12. MinQueue!Put(x)
    <3>1. MinQueue!Size = Cardinality(Stored(Nodes, MinBag))
      BY DEF MinQueue!Size, MinQueue!Cardinality, Cardinality, Stored
    <3>2. MinQueue!Size < MinRoom
      BY <1>1, <2>1, <3>1
    <3> QED BY <2>1, <2>10, <3>2 DEF MinQueue!Put
  <2>13. MinTypeOK' /\ Len(b_data') = n + 1
    BY <1>1, <2>1, <2>2, <2>6 DEF MinTypeOK, SameNodes
  <2>14. MinIInv'
    BY <1>4, <2>6, <2>11, <2>13 DEF MinIInv, InOrder
  <2> QED BY <2>12, <2>14 DEF MinQueue!Next
<1>6. CASE MinPop
  <2> DEFINE top == b_data[1]
             e == [b_data EXCEPT ![1] = b_data[n]]
             kept == SubSeq(e, 1, n - 1)
             I == 1 .. n
  <2>1. /\ b_data # <<>> /\ b_out' = top
        /\ b_data' = IF kept = <<>> THEN kept ELSE Sunk[<<kept, 1>>]
    BY <1>6 DEF MinPop
  <2>2. n > 0 /\ n \in I /\ 1 \in I /\ top \in Nodes
    BY <1>1, <2>1, EmptySeq
  <2>3. /\ e \in Seq(Nodes) /\ Len(e) = n
        /\ \A k \in 1 .. n : e[k] = IF k = 1 THEN b_data[n] ELSE b_data[k]
    BY <1>1, <2>2, ExceptSeq
  <2> HIDE DEF e
  <2>4. /\ kept \in Seq(Nodes) /\ Len(kept) = n - 1
        /\ \A k \in 1 .. n - 1 : kept[k] = e[k]
    <3>1. \A k \in 1 .. n - 1 : e[k] \in Nodes
      BY <1>1, <2>2, <2>3
    <3>2. /\ kept \in Seq(Nodes) /\ Len(kept) = (n - 1) - 1 + 1
          /\ \A k \in 1 .. (n - 1) - 1 + 1 : kept[k] = e[1 + k - 1]
      BY <1>1, <2>2, <2>3, <3>1, SubSeqProperties
    <3>3. (n - 1) - 1 + 1 = n - 1 /\ \A k \in 1 .. n - 1 : 1 + k - 1 = k
      BY <1>1
    <3> QED BY <3>2, <3>3
  <2> HIDE DEF kept
  <2>5. \A k \in 1 .. n - 1 : k \in 1 .. n /\ kept[k] = IF k = 1 THEN b_data[n] ELSE b_data[k]
    BY <1>1, <2>3, <2>4
  <2>6. SameNodes(kept, b_data') /\ InOrder(b_data')
    <3>1. CASE kept = <<>>
      <4>1. b_data' = kept /\ Len(kept) = 0
        BY <2>1, <3>1, EmptySeq
      <4>2. SameNodes(kept, kept)
        BY <2>4 DEF SameNodes
      <4>3. InOrder(kept)
        BY <4>1 DEF InOrder
      <4> QED BY <4>1, <4>2, <4>3
    <3>2. CASE kept # <<>>
      <4>1. 1 \in 1 .. Len(kept) /\ Len(kept) \in Nat
        BY <2>4, <3>2, EmptySeq, LenProperties
      <4>2. ASSUME NEW k \in 2 .. Len(kept), k \div 2 # 1
            PROVE  AtMost(kept[k \div 2], kept[k])
        <5>1. k \in 1 .. n - 1 /\ k \div 2 \in 1 .. n - 1 /\ k \in 2 .. n /\ k # 1
          BY <1>1, <2>4, <4>1, HalfIsParent
        <5>2. kept[k \div 2] = b_data[k \div 2] /\ kept[k] = b_data[k]
          BY <2>5, <4>2, <5>1
        <5> QED BY <1>1, <5>1, <5>2 DEF InOrder
      <4>3. InOrderButBelow(kept, 1) /\ Spans(kept, 1)
        BY <4>2 DEF InOrderButBelow, Spans
      <4> QED BY <2>1, <2>4, <3>2, <4>1, <4>3, SunkIsHeap
    <3> QED BY <3>1, <3>2
  <2>7. 1 .. n - 1 = I \ {n}
    BY <1>1, <2>2
  <2>8. IsFiniteSet(I) /\ \A k \in I \ {n} : kept[k] = IF k = 1 THEN b_data[n] ELSE b_data[k]
    BY <1>2, <2>5, <2>7
  <2>9. ASSUME NEW y \in Nodes
        PROVE  /\ MinBag'[y] = IF y = top THEN MinBag[y] - 1 ELSE MinBag[y]
               /\ y = top => MinBag[y] > 0
    <3>1. MinBag[y] = Cardinality(Places(b_data, I, y)) /\ MinBag[y] \in Nat
      BY <1>2
    <3>2. MinBag'[y] = Cardinality(Places(kept, 1 .. n - 1, y))
      BY <1>3, <2>4, <2>6 DEF SameNodes
    <3> HIDE DEF I, n
    <3>3. /\ Cardinality(Places(kept, I \ {n}, y))
               = Cardinality(Places(b_data, I, y)) - (IF y = b_data[1] THEN 1 ELSE 0)
          /\ y = b_data[1] => Cardinality(Places(b_data, I, y)) > 0
      BY <2>2, <2>8, PopCounts
    <3>4. MinBag'[y] = MinBag[y] - (IF y = top THEN 1 ELSE 0)
      BY <2>7, <3>1, <3>2, <3>3
    <3>5. y = top => MinBag[y] > 0
      BY <3>1, <3>3
    <3> HIDE DEF top
    <3> QED BY <3>1, <3>4, <3>5
  <2>10. MinBag' = [MinBag EXCEPT ![top] = @ - 1]
    <3>1. MinBag' = [y \in Nodes |-> MinBag'[y]]
      BY <1>3
    <3> HIDE DEF top
    <3> QED BY <1>2, <2>9, <3>1
  <2>11. MinBag[top] > 0
    BY <2>2, <2>9
  <2>12. IsFiniteSet(Stored(Nodes, MinBag')) /\ Cardinality(Stored(Nodes, MinBag')) = n - 1
    <3> HIDE DEF top, n
    <3>1. MinBag \in [Nodes -> Nat] /\ IsFiniteSet(Stored(Nodes, MinBag))
      BY <1>1, <1>2
    <3>2. /\ IsFiniteSet(Stored(Nodes, MinBag'))
          /\ Cardinality(Stored(Nodes, MinBag')) = Cardinality(Stored(Nodes, MinBag)) - 1
      BY <2>2, <2>10, <2>11, <3>1, StoredLess
    <3> QED BY <1>1, <3>2
  <2>13. ASSUME NEW y \in Nodes, MinBag[y] > 0 PROVE ~NodeLess(y, top)
    <3>1. PICK k \in 1 .. n : b_data[k] = y
      <4>1. Places(b_data, 1 .. n, y) # {}
        <5> SUFFICES ASSUME Places(b_data, 1 .. n, y) = {} PROVE FALSE
          OBVIOUS
        <5>1. MinBag[y] = 0
          BY <1>2, FS_EmptySet
        <5> QED BY <2>13, <5>1
      <4> QED BY <4>1 DEF Places
    <3>2. AtMost(top, y)
      BY <1>1, <3>1, TopIsLeast
    <3> QED BY <3>2 DEF AtMost
  <2>14. MinQueue!Take(top)
    BY <2>1, <2>10, <2>11, <2>13 DEF MinQueue!Take
  <2>15. MinTypeOK' /\ Len(b_data') = n - 1
    BY <1>1, <2>1, <2>2, <2>4, <2>6 DEF MinTypeOK, SameNodes
  <2>16. MinIInv'
    BY <1>4, <2>6, <2>12, <2>15 DEF MinIInv, InOrder
  <2> QED BY <2>2, <2>14, <2>16 DEF MinQueue!Next
<1>7. CASE UNCHANGED minVars
  <2>1. MinBag' = MinBag /\ b_out' = b_out /\ b_data' = b_data
    BY <1>7 DEF minVars, MinBag
  <2> QED BY <1>4, <2>1 DEF MinIInv, MinTypeOK, InOrder
<1> QED BY <1>5, <1>6, <1>7 DEF MinNext

(* The heap is empty at first, and so is its bag.                            *)
LEMMA InitMin == MinInit => MinIInv /\ MinQueue!Init
<1> SUFFICES ASSUME MinInit PROVE MinIInv /\ MinQueue!Init
  OBVIOUS
<1>1. b_data = <<>> /\ b_out = NoNode /\ Len(b_data) = 0 /\ b_data \in Seq(Nodes)
  BY EmptySeq DEF MinInit
<1>2. MinTypeOK
  BY <1>1, PointAssumption DEF MinTypeOK
<1>3. \A x \in Nodes : MinBag[x] = 0
  <2>1. \A x \in Nodes : Places(b_data, 1 .. Len(b_data), x) = {}
    BY <1>1 DEF Places
  <2> QED BY <1>2, <2>1, MinBagTypes, FS_EmptySet
<1>4. Stored(Nodes, MinBag) = {}
  <2>1. \A p : p \in Stored(Nodes, MinBag) <=> \E y \in Nodes : \E k \in 1 .. MinBag[y] : p = <<y, k>>
    BY DEF Stored
  <2> QED BY <1>3, <2>1
<1>5. MinIInv
  BY <1>1, <1>2, <1>4, FS_EmptySet DEF MinIInv, InOrder
<1>6. MinBag = [x \in Nodes |-> 0]
  <2>1. MinBag = [x \in Nodes |-> MinBag[x]]
    BY DEF MinBag
  <2> QED BY <1>3, <2>1
<1> QED BY <1>1, <1>5, <1>6, PointAssumption DEF MinQueue!Init

-----------------------------------------------------------------------------
\* The mesh (FullMesh).
MeshIInv == MeshTypeOK

(* A named number that exists is a node. *)
LEMMA NamedNodes == \A i \in Named : i < NODES <=> i \in MeshNodes
BY MeshAssumption, SMT DEF MeshNodes

(* A node is joined to nodes only, whatever numbers callers name. *)
LEMMA MeshStep ==
    ASSUME MeshIInv, [MeshNext]_meshVars
    PROVE  MeshIInv'
<1> USE DEF MeshIInv, MeshTypeOK
<1>1. ASSUME NEW i \in Named, Broadcast(i)
      PROVE  MeshIInv'
  <2>1. i \in MeshNodes
    BY <1>1, NamedNodes DEF Broadcast
  <2> QED BY <1>1, <2>1 DEF Broadcast
<1>2. ASSUME NEW i \in Named, NEW j \in Named, Connect(i, j)
      PROVE  MeshIInv'
  <2>1. i \in MeshNodes /\ j \in MeshNodes
    BY <1>2, NamedNodes DEF Connect
  <2> QED BY <1>2, <2>1 DEF Connect
<1>3. CASE UNCHANGED meshVars
  BY <1>3 DEF meshVars
<1> QED BY <1>1, <1>2, <1>3 DEF MeshNext

LEMMA InitMesh == MeshInit => MeshIInv
BY DEF MeshInit, MeshIInv, MeshTypeOK

-----------------------------------------------------------------------------
\* The vector kernels (Kernels).
\* The elements below n were loaded, and stored once, and no others.
CoveredTo(read, output, n) ==
    /\ read = 0 .. n - 1
    /\ output \in [Buffer -> Nat]
    /\ \A i \in Buffer : output[i] = IF i < n THEN 1 ELSE 0

\* The counter is the end of what is covered, until the kernel has returned:
\* the masked round does not move it.
KernelIInv ==
    /\ KernelTypeOK
    /\ k_pc = "idle" => k_i = 0 /\ k_count = 0
    /\ k_pc # "returned" => k_i <= k_count /\ CoveredTo(k_read, k_output, k_i)
    /\ k_pc = "returned" => CoveredTo(k_read, k_output, k_count)

(* The kernels begin with nothing loaded or stored. *)
LEMMA InitKernel == KernelInit => KernelIInv
<1> SUFFICES ASSUME KernelInit PROVE KernelIInv
  OBVIOUS
<1>1. MaxCount \in Nat /\ 0 \in 0 .. MaxCount /\ 0 .. 0 - 1 = {} /\ 0 \in Nat /\ 0 <= 0
  BY KernelAssumption, SMT
<1>2. k_output \in [Buffer -> Nat] /\ \A i \in Buffer : k_output[i] = 0
  BY SMT DEF KernelInit
<1>3. \A i \in Buffer : ~(i < 0)
  BY <1>1, SMT DEF Buffer
<1>4. CoveredTo(k_read, k_output, 0)
  BY <1>1, <1>2, <1>3 DEF CoveredTo, KernelInit
<1> QED BY <1>1, <1>2, <1>4 DEF KernelInit, KernelIInv, KernelTypeOK

(* A round that processes the elements from the counter up to n, and no      *)
(* others, covers what lies below n.                                         *)
LEMMA RoundCovers ==
    ASSUME k_i \in Nat, k_count \in 0 .. MaxCount, CoveredTo(k_read, k_output, k_i),
           NEW n \in Nat, NEW S, S = k_i .. n - 1, k_i <= n, n <= k_count, Processes(S)
    PROVE  CoveredTo(k_read', k_output', n) /\ k_read' \subseteq Buffer
<1>0. MaxCount \in Nat
  BY KernelAssumption
<1>1. /\ k_output \in [Buffer -> Nat] /\ k_read = 0 .. k_i - 1
      /\ \A i \in Buffer : k_output[i] = IF i < k_i THEN 1 ELSE 0
  BY DEF CoveredTo
<1>2. /\ k_output' = [i \in Buffer |-> IF i \in S THEN k_output[i] + 1 ELSE k_output[i]]
      /\ k_read' = k_read \cup S
  BY DEF Processes
<1>3. (0 .. k_i - 1) \cup S = 0 .. n - 1 /\ 0 .. n - 1 \subseteq Buffer
  BY <1>0, SMT DEF Buffer
<1>4. k_read' = 0 .. n - 1 /\ k_read' \subseteq Buffer
  BY <1>1, <1>2, <1>3
<1>5. ASSUME NEW i \in Buffer
      PROVE  k_output'[i] \in Nat /\ k_output'[i] = IF i < n THEN 1 ELSE 0
  <2>1. k_output'[i] = IF i \in S THEN k_output[i] + 1 ELSE k_output[i]
    BY <1>2
  <2>2. i \in Nat /\ (i \in S <=> k_i <= i /\ i < n)
    BY <1>0, SMT DEF Buffer
  <2>3. k_output[i] = IF i < k_i THEN 1 ELSE 0
    BY <1>1
  <2> QED BY <2>1, <2>2, <2>3, SMT
<1>6. k_output' \in [Buffer -> Nat]
  BY <1>2, <1>5
<1> QED BY <1>4, <1>5, <1>6 DEF CoveredTo

(* Doubling a number plus one and its divisor leaves the quotient. *)
LEMMA HalvedQuotient ==
    ASSUME NEW m \in Nat, NEW x \in Nat \ {0}
    PROVE  (2 * m + 1) \div (2 * x) = m \div x
<1> DEFINE q == m \div x
           s == m % x
<1>1. q \in Int /\ s \in 0 .. x - 1 /\ m = x * q + s
  BY SMT
<1> HIDE DEF q, s
<1>2. 2 * m + 1 = (2 * x) * q + (2 * s + 1) /\ 2 * s + 1 \in 0 .. 2 * x - 1
  BY <1>1, SMT
<1> DEFINE y == 2 * x
           t == 2 * s + 1
<1>3. y \in Nat \ {0} /\ t \in 0 .. y - 1
  BY <1>1, <1>2, SMT
<1>4. (2 * m + 1) = y * q + t
  BY <1>2
<1> HIDE DEF y, t
<1>5. (y * q + t) \div y = q
  BY <1>1, <1>3, SMT
<1> QED BY <1>4, <1>5 DEF y, q

(* A power of two, and the bits of a mask. *)
Power(n) == 2 ^ n
Bit(mask, l) == (mask \div Power(l)) % 2 = 1
LowBits(r) == \A l \in 0 .. 15 : Bit(Power(r) - 1, l) <=> l < r

(* The powers of two a 16-bit mask is made of. *)
LEMMA PowerDoubles ==
    ASSUME NEW n \in 0 .. 15
    PROVE  /\ Power(n) \in Nat /\ 1 <= Power(n) /\ Power(n) <= 32768
           /\ Power(n + 1) = 2 * Power(n)
<1>1. \/ n = 0 \/ n = 1 \/ n = 2 \/ n = 3 \/ n = 4 \/ n = 5 \/ n = 6 \/ n = 7
      \/ n = 8 \/ n = 9 \/ n = 10 \/ n = 11 \/ n = 12 \/ n = 13 \/ n = 14 \/ n = 15
  BY SMT
<1>2. CASE n = 0 BY <1>2, SMT DEF Power
<1>3. CASE n = 1 BY <1>3, SMT DEF Power
<1>4. CASE n = 2 BY <1>4, SMT DEF Power
<1>5. CASE n = 3 BY <1>5, SMT DEF Power
<1>6. CASE n = 4 BY <1>6, SMT DEF Power
<1>7. CASE n = 5 BY <1>7, SMT DEF Power
<1>8. CASE n = 6 BY <1>8, SMT DEF Power
<1>9. CASE n = 7 BY <1>9, SMT DEF Power
<1>10. CASE n = 8 BY <1>10, SMT DEF Power
<1>11. CASE n = 9 BY <1>11, SMT DEF Power
<1>12. CASE n = 10 BY <1>12, SMT DEF Power
<1>13. CASE n = 11 BY <1>13, SMT DEF Power
<1>14. CASE n = 12 BY <1>14, SMT DEF Power
<1>15. CASE n = 13 BY <1>15, SMT DEF Power
<1>16. CASE n = 14 BY <1>16, SMT DEF Power
<1>17. CASE n = 15 BY <1>17, SMT DEF Power
<1> QED BY <1>1, <1>2, <1>3, <1>4, <1>5, <1>6, <1>7, <1>8, <1>9,
           <1>10, <1>11, <1>12, <1>13, <1>14, <1>15, <1>16, <1>17

(* A mask of one bit more has the bits of the mask before it, moved up, and  *)
(* bit 0.                                                                    *)
LEMMA OneMoreBit ==
    ASSUME NEW r \in 0 .. 14, LowBits(r)
    PROVE  LowBits(r + 1)
<1> SUFFICES ASSUME NEW l \in 0 .. 15 PROVE Bit(Power(r + 1) - 1, l) <=> l < r + 1
  BY DEF LowBits
<1> DEFINE m == Power(r) - 1
<1>1. m \in Nat /\ Power(r + 1) - 1 = 2 * m + 1
  <2>1. r \in 0 .. 15
    BY SMT
  <2>2. Power(r) \in Nat /\ 1 <= Power(r) /\ Power(r + 1) = 2 * Power(r)
    BY <2>1, PowerDoubles
  <2> QED BY <2>2, SMT
<1> HIDE DEF m
<1>2. CASE l = 0
  <2>1. (2 * m + 1) \div 1 = 2 * m + 1 /\ (2 * m + 1) % 2 = 1
    BY <1>1, SMT
  <2>2. Power(0) = 1 /\ 0 < r + 1
    BY SMT DEF Power
  <2> QED BY <1>1, <1>2, <2>1, <2>2 DEF Bit
<1>3. CASE l # 0
  <2> DEFINE k == l - 1
  <2>1. k \in 0 .. 15 /\ l = k + 1 /\ (l < r + 1 <=> k < r)
    BY <1>3, SMT
  <2> HIDE DEF k
  <2>2. Power(l) = 2 * Power(k) /\ Power(k) \in Nat \ {0}
    <3>1. Power(k + 1) = 2 * Power(k) /\ Power(k) \in Nat /\ 1 <= Power(k)
      BY <2>1, PowerDoubles
    <3> QED BY <2>1, <3>1, SMT
  <2>3. (2 * m + 1) \div Power(l) = m \div Power(k)
    BY <1>1, <2>2, HalvedQuotient
  <2>4. Bit(m, k) <=> k < r
    BY <2>1 DEF LowBits, m
  <2> QED BY <1>1, <2>1, <2>3, <2>4 DEF Bit
<1> QED BY <1>2, <1>3

(* The mask of vcore_avx512.cpp line 68 has the bits below the rest's length. *)
LEMMA MaskOfRest ==
    ASSUME NEW r \in 0 .. 15, NEW l \in 0 .. 15
    PROVE  (((2 ^ r - 1) % 2 ^ 16) \div 2 ^ l) % 2 = 1 <=> l < r
<1>1. LowBits(0)
  <2>1. ASSUME NEW k \in 0 .. 15 PROVE Bit(Power(0) - 1, k) <=> k < 0
    <3>1. Power(k) \in Nat /\ 1 <= Power(k)
      BY PowerDoubles
    <3>2. 0 \div Power(k) = 0 /\ 0 % 2 = 0 /\ ~(k < 0)
      BY <3>1, SMT
    <3>3. Power(0) - 1 = 0
      BY SMT DEF Power
    <3> QED BY <3>2, <3>3, SMT DEF Bit
  <2> QED BY <2>1 DEF LowBits
<1>2. \A k \in 0 .. 14 : LowBits(k) => LowBits(k + 1)
  BY OneMoreBit
<1>3. LowBits(1) /\ LowBits(2) /\ LowBits(3) /\ LowBits(4) /\ LowBits(5)
  BY <1>1, <1>2, SMT
<1>4. LowBits(6) /\ LowBits(7) /\ LowBits(8) /\ LowBits(9) /\ LowBits(10)
  BY <1>2, <1>3, SMT
<1>5. LowBits(11) /\ LowBits(12) /\ LowBits(13) /\ LowBits(14) /\ LowBits(15)
  BY <1>2, <1>4, SMT
<1>6. LowBits(r)
  BY <1>1, <1>3, <1>4, <1>5, SMT
<1>7. (Power(r) - 1) % Power(16) = Power(r) - 1
  <2>1. Power(r) \in Nat /\ 1 <= Power(r) /\ Power(r) <= 32768
    BY PowerDoubles
  <2>2. Power(16) = 65536
    BY SMT DEF Power
  <2>3. (Power(r) - 1) % 65536 = Power(r) - 1
    BY <2>1, SMT
  <2> QED BY <2>2, <2>3
<1>8. (((Power(r) - 1) % Power(16)) \div Power(l)) % 2 = 1 <=> l < r
  BY <1>6, <1>7 DEF LowBits, Bit
<1> QED BY <1>8, Zenon DEF Power

(* What the invariant says of a kernel that runs, with plain numbers.        *)
LEMMA RunningKernel ==
    ASSUME KernelIInv, k_pc = "run"
    PROVE  /\ k_kernel \in Kernels \cup {"none"} /\ k_count \in 0 .. MaxCount /\ k_count \in Nat
           /\ k_i \in Nat /\ k_i <= k_count /\ CoveredTo(k_read, k_output, k_i)
<1>1. /\ k_kernel \in Kernels \cup {"none"} /\ k_count \in 0 .. MaxCount
      /\ k_i \in Nat /\ k_i <= k_count /\ CoveredTo(k_read, k_output, k_i)
  BY DEF KernelIInv, KernelTypeOK
<1>2. k_count \in Nat
  BY <1>1, KernelAssumption, SMT
<1> QED BY <1>1, <1>2

(* The last round takes the whole rest under its mask, and returns. *)
LEMMA TailCovers ==
    ASSUME KernelIInv, Tail512
    PROVE  KernelIInv'
<1> DEFINE r == k_count - k_i
           mask == (2 ^ r - 1) % 2 ^ 16
           S == {k_i + l : l \in {l \in 0 .. 15 : (mask \div 2 ^ l) % 2 = 1}}
<1>1. /\ k_kernel \in Kernels \cup {"none"} /\ k_count \in 0 .. MaxCount /\ k_count \in Nat
      /\ k_i \in Nat /\ k_i <= k_count /\ CoveredTo(k_read, k_output, k_i)
  BY RunningKernel DEF Tail512
<1>2. /\ k_kernel = "v512" /\ k_i' = k_i /\ k_i < k_count /\ ~BlockFits /\ Processes(S)
      /\ k_pc' = "returned"
  BY DEF Tail512
<1>3. r \in 0 .. 15
  BY <1>1, <1>2, SMT DEF BlockFits, Width
<1>4. \A l \in 0 .. 15 : (mask \div 2 ^ l) % 2 = 1 <=> l < r
  BY <1>3, MaskOfRest
<1>5. S = {k_i + l : l \in {l \in 0 .. 15 : l < r}}
  BY <1>4
<1> HIDE DEF S, mask
<1>6. S = k_i .. k_count - 1
  <2>1. ASSUME NEW j \in S PROVE j \in k_i .. k_count - 1
    <3>1. PICK l \in {l \in 0 .. 15 : l < r} : j = k_i + l
      BY <1>5
    <3> QED BY <3>1, <1>1, SMT
  <2>2. ASSUME NEW j \in k_i .. k_count - 1 PROVE j \in S
    <3>1. j - k_i \in 0 .. 15 /\ j - k_i < r /\ j = k_i + (j - k_i)
      BY <1>1, <1>3, SMT
    <3> QED BY <3>1, <1>5
  <2> QED BY <2>1, <2>2
<1>7. k_count <= k_count
  BY <1>1, SMT
<1>8. CoveredTo(k_read', k_output', k_count) /\ k_read' \subseteq Buffer
  BY <1>1, <1>2, <1>6, <1>7, RoundCovers
<1>9. k_kernel' = k_kernel /\ k_count' = k_count
  BY <1>2 DEF Processes
<1> QED BY <1>1, <1>2, <1>8, <1>9 DEF KernelIInv, KernelTypeOK, CoveredTo

(* A round that moves the counter to n keeps the invariant.                  *)
LEMMA RoundKeeps ==
    ASSUME KernelIInv, k_pc = "run", NEW n \in Nat, k_i <= n, n <= k_count,
           Processes(k_i .. n - 1), k_i' = n, k_pc' = k_pc
    PROVE  KernelIInv'
<1>1. /\ k_kernel \in Kernels \cup {"none"} /\ k_count \in 0 .. MaxCount
      /\ k_i \in Nat /\ CoveredTo(k_read, k_output, k_i)
  BY RunningKernel
<1>2. CoveredTo(k_read', k_output', n) /\ k_read' \subseteq Buffer
  BY <1>1, RoundCovers
<1>3. k_kernel' = k_kernel /\ k_count' = k_count
  BY DEF Processes
<1> QED BY <1>1, <1>2, <1>3 DEF KernelIInv, KernelTypeOK, CoveredTo

(* Every step of a kernel keeps the invariant. *)
LEMMA KernelStep ==
    ASSUME KernelIInv, [KernelNext]_kernelVars
    PROVE  KernelIInv'
<1>1. ASSUME NEW kernel \in Kernels, NEW count \in 0 .. MaxCount, CallKernel(kernel, count)
      PROVE  KernelIInv'
  <2>1. k_i = 0 /\ k_i' = 0 /\ k_read' = k_read /\ k_output' = k_output
    BY <1>1 DEF CallKernel, KernelIInv
  <2>2. k_kernel' = kernel /\ k_count' = count /\ k_pc = "idle" /\ k_pc' = "run"
    BY <1>1 DEF CallKernel
  <2>3. 0 <= count /\ 0 \in Nat
    BY <1>1, KernelAssumption, SMT
  <2> QED BY <1>1, <2>1, <2>2, <2>3 DEF KernelIInv, KernelTypeOK
<1>2. ASSUME NEW kernel, VectorRound(kernel)
      PROVE  KernelIInv'
  <2> DEFINE n == k_i + Width(kernel)
  <2>1. k_pc = "run" /\ k_count \in Nat /\ k_i \in Nat
    BY <1>2, RunningKernel DEF VectorRound
  <2>2. n \in Nat /\ k_i <= n /\ n <= k_count /\ k_i + Width(kernel) - 1 = n - 1
    BY <1>2, <2>1, SMT DEF VectorRound, BlockFits, Width
  <2>3. k_i' = n /\ k_pc' = k_pc /\ Processes(k_i .. n - 1)
    BY <1>2, <2>2 DEF VectorRound
  <2> HIDE DEF n
  <2> QED BY <2>1, <2>2, <2>3, RoundKeeps
<1>3. ASSUME NEW kernel, ScalarRound(kernel)
      PROVE  KernelIInv'
  <2> DEFINE n == k_i + 1
  <2>1. k_pc = "run" /\ k_count \in Nat /\ k_i \in Nat
    BY <1>3, RunningKernel DEF ScalarRound
  <2>2. n \in Nat /\ k_i <= n /\ n <= k_count /\ {k_i} = k_i .. n - 1
    BY <1>3, <2>1, SMT DEF ScalarRound
  <2>3. k_i' = n /\ k_pc' = k_pc /\ Processes(k_i .. n - 1)
    BY <1>3, <2>2 DEF ScalarRound
  <2> HIDE DEF n
  <2> QED BY <2>1, <2>2, <2>3, RoundKeeps
<1>4. CASE UNCHANGED kernelVars
  BY <1>4 DEF kernelVars, KernelIInv, KernelTypeOK
<1>5. CASE Block128 \/ Block256 \/ Block512
  BY <1>5, <1>2 DEF Block128, Block256, Block512
<1>6. CASE Tail128 \/ Tail256
  BY <1>6, <1>3 DEF Tail128, Tail256
<1>7. CASE KernelReturns
  <2>1. /\ k_count \in Nat /\ k_i \in Nat /\ k_i <= k_count /\ CoveredTo(k_read, k_output, k_i)
        /\ ~(k_i < k_count)
    BY <1>7, RunningKernel DEF KernelReturns
  <2>2. k_i = k_count
    BY <2>1, SMT
  <2> QED BY <1>7, <2>1, <2>2 DEF KernelReturns, KernelIInv, KernelTypeOK
<1> QED BY <1>1, <1>4, <1>5, <1>6, <1>7, TailCovers DEF KernelNext

(* Covering up to the counter, and to the count at the end, is exactness.    *)
LEMMA CoversExactly == KernelIInv => KernelsCoverExactly
<1> SUFFICES ASSUME KernelIInv PROVE KernelsCoverExactly
  OBVIOUS
<1>1. PICK n \in Nat : /\ n <= k_count /\ CoveredTo(k_read, k_output, n)
                       /\ k_pc = "returned" => n = k_count
  <2>1. k_count \in Nat /\ k_i \in Nat /\ k_count <= k_count
    BY KernelAssumption, SMT DEF KernelIInv, KernelTypeOK
  <2> QED BY <2>1 DEF KernelIInv
<1>2. k_count \in Nat /\ MaxCount \in Nat /\ k_count <= MaxCount
  BY KernelAssumption, SMT DEF KernelIInv, KernelTypeOK
<1>3. k_read \subseteq 0 .. k_count - 1
  BY <1>1, <1>2, SMT DEF CoveredTo
<1>4. ASSUME NEW i \in Buffer PROVE k_output[i] <= (IF i < k_count THEN 1 ELSE 0)
  <2>1. k_output[i] = IF i < n THEN 1 ELSE 0
    BY <1>1 DEF CoveredTo
  <2>2. i \in Nat
    BY <1>2, SMT DEF Buffer
  <2> QED BY <1>1, <1>2, <2>1, <2>2, SMT
<1>5. ASSUME k_pc = "returned", NEW i \in 0 .. k_count - 1 PROVE k_output[i] = 1
  <2>1. i \in Buffer /\ i < k_count
    BY <1>2, SMT DEF Buffer
  <2> QED BY <1>1, <1>5, <2>1 DEF CoveredTo
<1> QED BY <1>1, <1>3, <1>4, <1>5 DEF KernelsCoverExactly, CoveredTo

-----------------------------------------------------------------------------
\* The arenas of the threads (ThreadLocalArena).
\* A thread in initialize() has no block; the regions of a block lie below its
\* offset and apart.
HasBlock(t) == t_block[t] # None
NoBlockYet == \A t \in Owners : ~Outside(t) => ~HasBlock(t)
BelowOffset ==
    /\ \A t \in Owners : HasBlock(t) => t_block[t].offset <= t_block[t].capacity
    /\ \A g \in a_live :
          /\ HasBlock(g.owner) /\ g.memory = t_block[g.owner].memory
          /\ g.first + g.len <= t_block[g.owner].offset
RegionsApart ==
    \A g, k \in a_live : \/ k = g \/ k.memory # g.memory
                         \/ g.first + g.len <= k.first \/ k.first + k.len <= g.first
LocalIInv == LocalTypeOK /\ ChunksOwned /\ NoBlockYet /\ BelowOffset /\ RegionsApart

(* A block is not the null pointer, and a call in progress is not none. *)
LEMMA BlocksAreNotNull ==
    /\ \A b \in BlockRecord : b # None
    /\ \A c \in [object : Chunks, size : BlockSizes] : c # NotMaking
<1>1. ASSUME NEW b \in BlockRecord, b = None PROVE FALSE
  <2>1. "memory" \in DOMAIN b /\ "memory" \notin DOMAIN None
    BY DEF BlockRecord, None
  <2> QED BY <1>1, <2>1
<1>2. ASSUME NEW c \in [object : Chunks, size : BlockSizes], c = NotMaking PROVE FALSE
  <2>1. "size" \in DOMAIN c /\ "size" \notin DOMAIN NotMaking
    BY DEF NotMaking
  <2> QED BY <1>2, <2>1
<1> QED BY <1>1, <1>2

(* What the types say of a thread's pointer and of its call. *)
LEMMA LocalTypes ==
    ASSUME LocalIInv, NEW t \in Owners
    PROVE  /\ Outside(t) <=> a_making[t] = NotMaking
           /\ ~Outside(t) => a_making[t] \in [object : Chunks, size : BlockSizes]
           /\ HasBlock(t) => t_block[t] \in BlockRecord
           /\ t_block \in [Owners -> BlockRecord \cup {None}]
           /\ a_making \in [Owners -> [object : Chunks, size : BlockSizes] \cup {NotMaking}]
           /\ heap_used \subseteq Chunks
           /\ a_live \subseteq [owner : Owners, memory : Chunks, first : Nat, len : Nat]
           /\ ~Outside(t) => ~HasBlock(t)
BY DEF LocalIInv, LocalTypeOK, Outside, HasBlock, NoBlockYet

(* Rounding a size up gives a size. *)
LEMMA RoundedType ==
    ASSUME NEW size \in AskedSizes
    PROVE  RoundedUp(size) \in Nat
<1> DEFINE q == (size + Grain - 1) \div Grain
<1>1. Grain \in Nat \ {0} /\ size \in Nat
  BY BlockAssumption
<1>2. q \in Nat
  <2>1. size + Grain - 1 \in Nat
    BY <1>1, SMT
  <2> QED BY <1>1, <2>1, SMT
<1> HIDE DEF q
<1>3. q * Grain \in Nat
  BY <1>1, <1>2, SMT
<1> QED BY <1>3 DEF RoundedUp, q

(* The chunks stay with one thread each when one thread takes chunks that    *)
(* were free, or gives its own back.                                         *)
LEMMA OneThreadMoves ==
    ASSUME LocalIInv, NEW t \in Owners, NEW C,
           ChunksOf(t)' = C, \A u \in Owners \ {t} : ChunksOf(u)' = ChunksOf(u),
           heap_used' = (heap_used \ ChunksOf(t)) \cup C,
           C \cap (heap_used \ ChunksOf(t)) = {},
           \A u \in Owners : HasBlock(u)' => t_block'[u].object # t_block'[u].memory
    PROVE  ChunksOwned'
<1> DEFINE Of(u) == ChunksOf(u)
           New(u) == IF u = t THEN C ELSE ChunksOf(u)
<1>1. /\ heap_used = UNION {ChunksOf(u) : u \in Owners}
      /\ \A u, v \in Owners : u # v => ChunksOf(u) \cap ChunksOf(v) = {}
  BY DEF LocalIInv, ChunksOwned
<1>2. \A u \in Owners : ChunksOf(u)' = New(u)
  OBVIOUS
<1>3. heap_used \ ChunksOf(t) = UNION {ChunksOf(u) : u \in Owners \ {t}}
  BY <1>1
<1>4. heap_used' = UNION {New(u) : u \in Owners}
  BY <1>3
<1>5. \A u, v \in Owners : u # v => New(u) \cap New(v) = {}
  BY <1>1, <1>3
<1> HIDE DEF New
<1>6. heap_used' = UNION {ChunksOf(u)' : u \in Owners}
  BY <1>2, <1>4
<1>7. \A u, v \in Owners : u # v => ChunksOf(u)' \cap ChunksOf(v)' = {}
  BY <1>2, <1>5
<1> QED BY <1>6, <1>7 DEF ChunksOwned, HasBlock

(* A call of initialize() takes a chunk, or gives back the one it took.      *)
LEMMA InitializeKeeps ==
    ASSUME LocalIInv, NEW t \in Owners,
           \/ \E size \in BlockSizes : InitializeObject(t, size)
           \/ InitializeFails(t)
    PROVE  LocalIInv'
<1>1. PICK call \in [object : Chunks, size : BlockSizes] \cup {NotMaking} :
         /\ a_making' = [a_making EXCEPT ![t] = call] /\ UNCHANGED <<t_block, a_live>>
         /\ ~HasBlock(t)
         /\ \/ /\ Outside(t) /\ call # NotMaking /\ call.object \notin heap_used
               /\ heap_used' = heap_used \cup {call.object}
            \/ /\ ~Outside(t) /\ call = NotMaking
               /\ heap_used' = heap_used \ {a_making[t].object}
  <2>1. CASE \E size \in BlockSizes : InitializeObject(t, size)
    <3>1. PICK size \in BlockSizes, chunk \in Chunks :
             /\ Outside(t) /\ ~HasBlock(t) /\ chunk \notin heap_used
             /\ heap_used' = heap_used \cup {chunk} /\ UNCHANGED <<t_block, a_live>>
             /\ a_making' = [a_making EXCEPT ![t] = [object |-> chunk, size |-> size]]
      BY <2>1 DEF InitializeObject, AlignedAlloc, HasBlock
    <3> DEFINE call == [object |-> chunk, size |-> size]
    <3>2. call \in [object : Chunks, size : BlockSizes] /\ call.object = chunk
      OBVIOUS
    <3>3. call # NotMaking
      BY <3>2, BlocksAreNotNull
    <3> QED BY <3>1, <3>2, <3>3
  <2>2. CASE InitializeFails(t)
    BY <2>2, LocalTypes DEF InitializeFails, AlignedFree
  <2> QED BY <2>1, <2>2
<1>2. /\ \A u \in Owners : a_making'[u] = IF u = t THEN call ELSE a_making[u]
      /\ a_making' \in [Owners -> [object : Chunks, size : BlockSizes] \cup {NotMaking}]
      /\ a_making' = [a_making EXCEPT ![t] = call]
  BY <1>1, LocalTypes
<1>3. \A u \in Owners : /\ Outside(u)' <=> a_making'[u] = NotMaking
                        /\ HasBlock(u)' <=> HasBlock(u)
  BY <1>1 DEF Outside, HasBlock
<1>4. \A u \in Owners \ {t} : ChunksOf(u)' = ChunksOf(u)
  BY <1>1, <1>2, <1>3 DEF ChunksOf, Outside
<1>5. heap_used' \subseteq Chunks => LocalTypeOK'
  BY <1>1, <1>2, LocalTypes DEF LocalTypeOK
<1>6. NoBlockYet' /\ BelowOffset' /\ RegionsApart'
  <2>1. NoBlockYet'
    BY <1>1, <1>2, <1>3 DEF LocalIInv, NoBlockYet, Outside
  <2>2. BelowOffset' /\ RegionsApart'
    BY <1>1 DEF LocalIInv, BelowOffset, RegionsApart, HasBlock
  <2> QED BY <2>1, <2>2
<1>7. CASE Outside(t)
  <2>1. ChunksOf(t) = {} /\ ChunksOf(t)' = {call.object}
    BY <1>1, <1>2, <1>3, <1>7 DEF ChunksOf, HasBlock
  <2>2. call \in [object : Chunks, size : BlockSizes] /\ heap_used' \subseteq Chunks
    BY <1>1, <1>7, LocalTypes
  <2>3. ChunksOwned'
    <3>1. \A u \in Owners : HasBlock(u)' => t_block'[u].object # t_block'[u].memory
      BY <1>1, <1>3 DEF LocalIInv, ChunksOwned, HasBlock
    <3>2. {call.object} \cap (heap_used \ ChunksOf(t)) = {}
      BY <1>1, <1>7
    <3>3. heap_used' = (heap_used \ ChunksOf(t)) \cup {call.object}
      BY <1>1, <1>7, <2>1
    <3> QED BY <1>4, <2>1, <3>1, <3>2, <3>3, OneThreadMoves
  <2> QED BY <1>5, <1>6, <2>2, <2>3 DEF LocalIInv
<1>8. CASE ~Outside(t)
  <2>1. ChunksOf(t) = {a_making[t].object} /\ ChunksOf(t)' = {}
    BY <1>1, <1>2, <1>3, <1>8 DEF ChunksOf, HasBlock
  <2>2. ChunksOwned'
    <3>1. \A u \in Owners : HasBlock(u)' => t_block'[u].object # t_block'[u].memory
      BY <1>1, <1>3 DEF LocalIInv, ChunksOwned, HasBlock
    <3>2. heap_used' = (heap_used \ ChunksOf(t)) \cup {}
      BY <1>1, <1>8, <2>1
    <3> QED BY <1>4, <2>1, <3>1, <3>2, OneThreadMoves
  <2>3. heap_used' \subseteq Chunks
    BY <1>1, <1>8, LocalTypes
  <2> QED BY <1>5, <1>6, <2>2, <2>3 DEF LocalIInv
<1> QED BY <1>7, <1>8

(* Block(size) completes the block with a chunk that was free.               *)
LEMMA MemoryKeeps ==
    ASSUME LocalIInv, NEW t \in Owners, InitializeMemory(t)
    PROVE  LocalIInv'
<1>1. PICK chunk \in Chunks :
         /\ ~Outside(t) /\ chunk \notin heap_used /\ heap_used' = heap_used \cup {chunk}
         /\ t_block' = [t_block EXCEPT ![t] =
                [object |-> a_making[t].object, memory |-> chunk,
                 capacity |-> a_making[t].size, offset |-> 0]]
         /\ a_making' = [a_making EXCEPT ![t] = NotMaking] /\ a_live' = a_live
  BY DEF InitializeMemory, AlignedAlloc
<1>2. a_making[t] \in [object : Chunks, size : BlockSizes] /\ ~HasBlock(t)
  BY <1>1, LocalTypes
<1> DEFINE block == [object |-> a_making[t].object, memory |-> chunk,
                     capacity |-> a_making[t].size, offset |-> 0]
<1>3. /\ block \in BlockRecord /\ block.object = a_making[t].object
      /\ block.memory = chunk /\ block.offset = 0 /\ block.capacity \in BlockSizes
  BY <1>2, SMT DEF BlockRecord
<1>4. block # None /\ block.capacity \in Nat
  BY <1>3, BlocksAreNotNull, BlockAssumption
<1> HIDE DEF block
<1>5. /\ t_block' \in [Owners -> BlockRecord \cup {None}]
      /\ \A u \in Owners : t_block'[u] = IF u = t THEN block ELSE t_block[u]
      /\ a_making' \in [Owners -> [object : Chunks, size : BlockSizes] \cup {NotMaking}]
      /\ \A u \in Owners : a_making'[u] = IF u = t THEN NotMaking ELSE a_making[u]
  BY <1>1, <1>3, LocalTypes DEF block
<1>6. \A u \in Owners : /\ HasBlock(u)' <=> (u = t \/ HasBlock(u))
                        /\ Outside(u)' <=> (u = t \/ Outside(u))
  BY <1>4, <1>5 DEF HasBlock, Outside
<1>7. /\ \A u \in Owners \ {t} : ChunksOf(u)' = ChunksOf(u)
      /\ ChunksOf(t) = {a_making[t].object}
      /\ ChunksOf(t)' = {a_making[t].object, chunk}
  BY <1>1, <1>3, <1>5, <1>6 DEF ChunksOf, HasBlock, Outside
<1>8. a_making[t].object \in heap_used
  BY <1>7 DEF LocalIInv, ChunksOwned
<1>9. ChunksOwned'
  <2>1. \A u \in Owners : HasBlock(u)' => t_block'[u].object # t_block'[u].memory
    BY <1>1, <1>3, <1>5, <1>6, <1>8 DEF LocalIInv, ChunksOwned, HasBlock
  <2>2. /\ heap_used' = (heap_used \ ChunksOf(t)) \cup {a_making[t].object, chunk}
        /\ {a_making[t].object, chunk} \cap (heap_used \ ChunksOf(t)) = {}
    BY <1>1, <1>7, <1>8
  <2> QED BY <1>7, <2>1, <2>2, OneThreadMoves
<1>10. \A g \in a_live : g.owner # t /\ g.owner \in Owners
  BY <1>2, LocalTypes DEF LocalIInv, BelowOffset
<1>11. BelowOffset'
  <2>1. ASSUME NEW u \in Owners, HasBlock(u)'
        PROVE  t_block'[u].offset <= t_block'[u].capacity
    <3>1. CASE u = t
      <4>1. 0 <= block.capacity
        BY <1>4, SMT
      <4> QED BY <3>1, <1>3, <1>5, <4>1
    <3>2. CASE u # t
      BY <3>2, <2>1, <1>5, <1>6 DEF LocalIInv, BelowOffset
    <3> QED BY <3>1, <3>2
  <2>2. ASSUME NEW g \in a_live
        PROVE  /\ HasBlock(g.owner)' /\ g.memory = t_block'[g.owner].memory
               /\ g.first + g.len <= t_block'[g.owner].offset
    BY <1>5, <1>6, <1>10 DEF LocalIInv, BelowOffset
  <2> QED BY <1>1, <2>1, <2>2 DEF BelowOffset, HasBlock
<1>12. LocalTypeOK'
  BY <1>1, <1>5, LocalTypes DEF LocalTypeOK, LocalIInv
<1>13. NoBlockYet'
  BY <1>6 DEF LocalIInv, NoBlockYet
<1> QED BY <1>1, <1>9, <1>11, <1>12, <1>13 DEF LocalIInv, RegionsApart

(* allocate() takes the bytes above the offset, and moves the offset above   *)
(* them.                                                                     *)
LEMMA AllocateKeeps ==
    ASSUME LocalIInv, NEW t \in Owners, NEW size \in AskedSizes, Allocate(t, size)
    PROVE  LocalIInv'
<1> DEFINE n == RoundedUp(size)
           off == t_block[t].offset
           new == [owner |-> t, memory |-> t_block[t].memory, first |-> off, len |-> n]
           block == [t_block[t] EXCEPT !.offset = off + n]
<1>1. /\ Outside(t) /\ HasBlock(t) /\ off + n <= t_block[t].capacity
      /\ a_live' = a_live \cup {new}
      /\ t_block' = [t_block EXCEPT ![t] = block]
      /\ UNCHANGED <<a_making, heap_used>>
  BY DEF Allocate, Ready, HasBlock
<1>2. t_block[t] \in BlockRecord /\ n \in Nat /\ off \in Nat /\ t_block[t].memory \in Chunks
  BY <1>1, LocalTypes, RoundedType DEF BlockRecord
<1>3. /\ block \in BlockRecord /\ block.offset = off + n /\ off + n \in Nat
      /\ block.object = t_block[t].object /\ block.memory = t_block[t].memory
      /\ block.capacity = t_block[t].capacity
  <2> HIDE DEF n
  <2> QED BY <1>2, SMT DEF BlockRecord
<1>4. /\ new \in [owner : Owners, memory : Chunks, first : Nat, len : Nat]
      /\ new.owner = t /\ new.memory = t_block[t].memory /\ new.first = off /\ new.len = n
  BY <1>2
<1>5. block # None
  BY <1>3, BlocksAreNotNull
<1> HIDE DEF new, block
<1>6. /\ t_block' \in [Owners -> BlockRecord \cup {None}]
      /\ \A u \in Owners : t_block'[u] = IF u = t THEN block ELSE t_block[u]
  BY <1>1, <1>3, LocalTypes
<1>7. \A u \in Owners : /\ HasBlock(u)' <=> HasBlock(u)
                        /\ Outside(u)' <=> Outside(u)
                        /\ ChunksOf(u)' = ChunksOf(u)
  BY <1>1, <1>3, <1>5, <1>6 DEF HasBlock, Outside, ChunksOf
<1>8. ChunksOwned'
  <2>1. \A u \in Owners : HasBlock(u)' => t_block'[u].object # t_block'[u].memory
    BY <1>1, <1>3, <1>6, <1>7 DEF LocalIInv, ChunksOwned, HasBlock
  <2>2. heap_used' = (heap_used \ ChunksOf(t)) \cup ChunksOf(t)
    BY <1>1 DEF LocalIInv, ChunksOwned
  <2> QED BY <1>7, <2>1, <2>2, OneThreadMoves
<1>9. \A g \in a_live :
         /\ g.owner \in Owners /\ HasBlock(g.owner) /\ g.first \in Nat /\ g.len \in Nat
         /\ g.memory = t_block[g.owner].memory /\ g.first + g.len <= t_block[g.owner].offset
  BY LocalTypes DEF LocalIInv, BelowOffset
<1>10. BelowOffset'
  <2>1. ASSUME NEW u \in Owners, HasBlock(u)'
        PROVE  t_block'[u].offset <= t_block'[u].capacity
    BY <1>1, <1>3, <1>6, <1>7, <2>1 DEF LocalIInv, BelowOffset
  <2>2. ASSUME NEW g \in a_live
        PROVE  /\ HasBlock(g.owner)' /\ g.memory = t_block'[g.owner].memory
               /\ g.first + g.len <= t_block'[g.owner].offset
    <3>1. CASE g.owner = t
      <4>1. g.first + g.len <= off + n
        <5> HIDE DEF n, off
        <5>1. g.first + g.len <= off
          BY <1>9, <3>1 DEF off
        <5> QED BY <1>2, <1>9, <5>1, SMT
      <4> QED BY <1>3, <1>6, <1>7, <1>9, <3>1, <4>1
    <3>2. CASE g.owner # t
      BY <1>6, <1>7, <1>9, <3>2
    <3> QED BY <3>1, <3>2
  <2>3. ASSUME NEW g, g = new
        PROVE  /\ HasBlock(g.owner)' /\ g.memory = t_block'[g.owner].memory
               /\ g.first + g.len <= t_block'[g.owner].offset
    <3> HIDE DEF off, n
    <3>1. off + n <= off + n
      BY <1>3, SMT
    <3>2. t_block'[t] = block /\ HasBlock(t)'
      BY <1>1, <1>6, <1>7
    <3> QED BY <1>3, <1>4, <2>3, <3>1, <3>2
  <2>4. \A g \in a_live' : /\ HasBlock(g.owner)' /\ g.memory = t_block'[g.owner].memory
                          /\ g.first + g.len <= t_block'[g.owner].offset
    BY <1>1, <2>2, <2>3
  <2> QED BY <2>1, <2>4 DEF BelowOffset
<1>11. RegionsApart'
  <2>1. ASSUME NEW g \in a_live, g.memory = new.memory
        PROVE  g.first + g.len <= new.first
    <3>1. g.owner = t
      <4>1. \A u \in Owners : HasBlock(u) => t_block[u].memory \in ChunksOf(u)
        BY DEF ChunksOf, HasBlock, LocalIInv, NoBlockYet
      <4>2. new.memory \in ChunksOf(t) /\ new.memory \in ChunksOf(g.owner)
        BY <1>1, <1>4, <1>9, <2>1, <4>1
      <4> QED BY <1>9, <4>2 DEF LocalIInv, ChunksOwned
    <3> QED BY <1>4, <1>9, <3>1
  <2> QED BY <1>1, <2>1 DEF LocalIInv, RegionsApart
<1>12. LocalTypeOK'
  BY <1>1, <1>4, <1>6, LocalTypes DEF LocalTypeOK, LocalIInv
<1>13. NoBlockYet'
  BY <1>7 DEF LocalIInv, NoBlockYet
<1> QED BY <1>8, <1>10, <1>11, <1>12, <1>13 DEF LocalIInv

(* reset() and shutdown() end the use of the thread's regions, and shutdown()*)
(* gives its two chunks back.                                                *)
LEMMA ReleaseKeeps ==
    ASSUME LocalIInv, NEW t \in Owners, ResetBlock(t) \/ Shutdown(t)
    PROVE  LocalIInv'
<1>1. /\ Outside(t) /\ HasBlock(t) /\ a_live' = {g \in a_live : g.owner # t}
      /\ UNCHANGED a_making
  BY DEF ResetBlock, Shutdown, Ready, Released, HasBlock
<1>2. t_block[t] \in BlockRecord
  BY <1>1, LocalTypes
<1>3. PICK block \in BlockRecord \cup {None} :
         /\ t_block' = [t_block EXCEPT ![t] = block]
         /\ \/ /\ block # None /\ block.object = t_block[t].object
               /\ block.memory = t_block[t].memory /\ block.offset <= block.capacity
               /\ heap_used' = heap_used
            \/ /\ block = None
               /\ heap_used' = heap_used \ {t_block[t].object, t_block[t].memory}
  <2>1. CASE ResetBlock(t)
    <3> DEFINE block == [t_block[t] EXCEPT !.offset = 0]
    <3>1. /\ block \in BlockRecord /\ block.object = t_block[t].object
          /\ block.memory = t_block[t].memory /\ block.offset = 0
          /\ block.capacity \in Nat
      BY <1>2, BlockAssumption, SMT DEF BlockRecord
    <3>2. t_block' = [t_block EXCEPT ![t] = block] /\ heap_used' = heap_used
      BY <2>1 DEF ResetBlock
    <3> HIDE DEF block
    <3>3. block # None /\ block.offset <= block.capacity
      BY <3>1, BlocksAreNotNull, SMT
    <3> QED BY <3>1, <3>2, <3>3
  <2>2. CASE Shutdown(t)
    BY <2>2 DEF Shutdown, AlignedFree
  <2> QED BY <2>1, <2>2
<1>4. /\ t_block' \in [Owners -> BlockRecord \cup {None}]
      /\ \A u \in Owners : t_block'[u] = IF u = t THEN block ELSE t_block[u]
      /\ heap_used' \subseteq Chunks
  BY <1>3, LocalTypes
<1>5. \A u \in Owners : /\ HasBlock(u)' <=> IF u = t THEN block # None ELSE HasBlock(u)
                        /\ Outside(u)' <=> Outside(u)
                        /\ u # t => ChunksOf(u)' = ChunksOf(u)
  BY <1>1, <1>4 DEF HasBlock, Outside, ChunksOf
<1>6. /\ ChunksOf(t) = {t_block[t].object, t_block[t].memory}
      /\ ChunksOf(t)' = IF block = None THEN {} ELSE ChunksOf(t)
  BY <1>1, <1>3, <1>4, <1>5 DEF ChunksOf, HasBlock
<1>7. ChunksOwned'
  <2>1. \A u \in Owners : HasBlock(u)' => t_block'[u].object # t_block'[u].memory
    BY <1>1, <1>3, <1>4, <1>5 DEF LocalIInv, ChunksOwned, HasBlock
  <2>2. ChunksOf(t) \subseteq heap_used
    BY DEF LocalIInv, ChunksOwned
  <2>3. heap_used' = (heap_used \ ChunksOf(t)) \cup ChunksOf(t)'
    BY <1>3, <1>6, <2>2
  <2>4. ChunksOf(t)' \cap (heap_used \ ChunksOf(t)) = {}
    BY <1>6
  <2> QED BY <1>5, <2>1, <2>3, <2>4, OneThreadMoves
<1>8. \A g \in a_live' : g \in a_live /\ g.owner # t /\ g.owner \in Owners
  BY <1>1, LocalTypes
<1>9. BelowOffset'
  <2>1. ASSUME NEW u \in Owners, HasBlock(u)'
        PROVE  t_block'[u].offset <= t_block'[u].capacity
    BY <1>3, <1>4, <1>5, <2>1 DEF LocalIInv, BelowOffset
  <2>2. ASSUME NEW g \in a_live'
        PROVE  /\ HasBlock(g.owner)' /\ g.memory = t_block'[g.owner].memory
               /\ g.first + g.len <= t_block'[g.owner].offset
    BY <1>4, <1>5, <1>8 DEF LocalIInv, BelowOffset
  <2> QED BY <2>1, <2>2 DEF BelowOffset, HasBlock
<1>10. LocalTypeOK'
  BY <1>1, <1>4, LocalTypes DEF LocalTypeOK, LocalIInv
<1>11. NoBlockYet'
  BY <1>1, <1>5 DEF LocalIInv, NoBlockYet
<1>12. RegionsApart'
  BY <1>8 DEF LocalIInv, RegionsApart
<1> QED BY <1>7, <1>9, <1>10, <1>11, <1>12 DEF LocalIInv

(* Every step of a thread keeps the invariant. *)
LEMMA LocalStep ==
    ASSUME LocalIInv, [LocalNext]_localVars
    PROVE  LocalIInv'
<1>1. CASE UNCHANGED localVars
  <2>1. UNCHANGED <<t_block, a_making, heap_used, a_live>>
    BY <1>1 DEF localVars
  <2>2. LocalTypeOK' /\ NoBlockYet'
    BY <2>1 DEF LocalIInv, LocalTypeOK, NoBlockYet, HasBlock, Outside
  <2>3. BelowOffset' /\ RegionsApart'
    BY <2>1 DEF LocalIInv, BelowOffset, RegionsApart, HasBlock
  <2>4. ChunksOwned'
    BY <2>1, ZenonT(60) DEF LocalIInv, ChunksOwned, ChunksOf, Outside
  <2> QED BY <2>2, <2>3, <2>4 DEF LocalIInv
<1> QED BY <1>1, InitializeKeeps, MemoryKeeps, AllocateKeeps, ReleaseKeeps DEF LocalNext

(* No thread has a block at first. *)
LEMMA InitLocal == LocalInit => LocalIInv
<1> SUFFICES ASSUME LocalInit PROVE LocalIInv
  OBVIOUS
<1>1. \A t \in Owners : t_block[t] = None /\ a_making[t] = NotMaking
  BY DEF LocalInit
<1>2. \A t \in Owners : ChunksOf(t) = {}
  BY <1>1 DEF ChunksOf, Outside
<1>3. ChunksOwned
  BY <1>1, <1>2 DEF LocalInit, ChunksOwned
<1>4. LocalTypeOK
  BY DEF LocalInit, LocalTypeOK
<1> QED BY <1>1, <1>3, <1>4 DEF LocalInit, LocalIInv, NoBlockYet, HasBlock, BelowOffset, RegionsApart

(* What the invariant says of the regions in use. *)
LEMMA BlocksArePrivate == LocalIInv => BlocksPrivate
<1> SUFFICES ASSUME LocalIInv, NEW g \in a_live
             PROVE  /\ t_block[g.owner] # None /\ g.memory = t_block[g.owner].memory
                    /\ g.first + g.len <= t_block[g.owner].capacity
  BY DEF LocalIInv, BlocksPrivate, RegionsInBlock, RegionsApart
<1>1. /\ g.owner \in Owners /\ HasBlock(g.owner) /\ g.memory = t_block[g.owner].memory
      /\ g.first + g.len <= t_block[g.owner].offset /\ g.first \in Nat /\ g.len \in Nat
      /\ t_block[g.owner].offset <= t_block[g.owner].capacity
  <2>1. g \in [owner : Owners, memory : Chunks, first : Nat, len : Nat]
    BY DEF LocalIInv, LocalTypeOK
  <2> QED BY <2>1 DEF LocalIInv, BelowOffset
<1>2. t_block[g.owner].offset \in Nat /\ t_block[g.owner].capacity \in Nat
  BY <1>1, LocalTypes, BlockAssumption DEF BlockRecord
<1> QED BY <1>1, <1>2, SMT DEF HasBlock

-----------------------------------------------------------------------------
\* The audited ingest program (AuditLog).
\* The log has an entry for each datagram the worker is done with, as far as it
\* goes, and the worker is in the middle of at most one.
Logged == IF l_worker = "count" THEN l_packets + 1 ELSE l_packets
AuditIInv ==
    /\ AuditTypeOK
    /\ l_arrived = IF l_worker \in {"log", "count"} THEN l_packets + 1 ELSE l_packets
    /\ \A i \in 0 .. LogEntries - 1 : i < Logged => l_log[i] = Entry(i, i + 1)
    /\ CsvComplete
    /\ l_main = "done" => l_worker = "closed"

(* The program starts with an empty log. *)
LEMMA InitAudit == AuditInit => AuditIInv
<1> SUFFICES ASSUME AuditInit PROVE AuditIInv
  OBVIOUS
<1>1. NoEntry \in [seq : Nat, datagram : Nat]
  BY SMT DEF NoEntry, Entry
<1>2. l_log \in [0 .. LogEntries - 1 -> [seq : Nat, datagram : Nat]]
  BY <1>1 DEF AuditInit
<1>3. l_csv \in Seq([seq : Nat, datagram : Nat])
  BY DEF AuditInit
<1>4. AuditTypeOK
  BY <1>2, <1>3, AuditAssumption, SMT DEF AuditInit, AuditTypeOK
<1>5. \A i \in 0 .. LogEntries - 1 : ~(i < Logged)
  BY AuditAssumption, SMT DEF AuditInit, Logged
<1> QED BY <1>4, <1>5, SMT DEF AuditInit, AuditIInv, CsvComplete

(* Every step of the worker and of main() keeps it. *)
LEMMA AuditStep ==
    ASSUME AuditIInv, [AuditNext]_auditVars
    PROVE  AuditIInv'
<1>1. /\ l_packets \in 0 .. MaxAudited /\ l_arrived \in 0 .. MaxAudited
      /\ MaxAudited \in Nat /\ LogEntries \in Nat /\ ArenaPackets \in Nat \ {0}
      /\ Seconds \in Nat /\ l_taken \in 0 .. ArenaPackets /\ l_second \in 0 .. Seconds
      /\ l_log \in [0 .. LogEntries - 1 -> [seq : Nat, datagram : Nat]]
      /\ l_csv \in Seq([seq : Nat, datagram : Nat])
  BY AuditAssumption DEF AuditIInv, AuditTypeOK
<1>2. CASE OpenSocket \/ LeaveLoop \/ CutPacket \/ RecvAgain
  <2>1. /\ UNCHANGED <<l_running, l_packets, l_log, l_main, l_second, l_csv, l_arrived>>
        /\ l_worker' \in {"loop", "closed", "recv"}
        /\ l_worker \in {"open", "loop", "recv"}
        /\ l_taken' \in 0 .. ArenaPackets
    BY <1>1, <1>2, SMT DEF OpenSocket, LeaveLoop, CutPacket, RecvAgain
  <2> QED BY <2>1 DEF AuditIInv, AuditTypeOK, Logged, CsvComplete
<1>3. CASE RecvAudited
  BY <1>1, <1>3, SMT DEF RecvAudited, AuditIInv, AuditTypeOK, Logged, CsvComplete
<1>4. CASE CountAudited
  BY <1>1, <1>4, SMT DEF CountAudited, AuditIInv, AuditTypeOK, Logged, CsvComplete
<1>5. CASE EnterInLog
  <2>1. /\ l_worker = "log" /\ l_worker' = "count" /\ l_arrived = l_packets + 1
        /\ UNCHANGED <<l_running, l_taken, l_packets, l_main, l_second, l_csv, l_arrived>>
        /\ l_main # "done" /\ Logged' = l_packets + 1 /\ Logged = l_packets
    BY <1>5 DEF EnterInLog, AuditIInv, Logged
  <2>2. Entry(l_packets, l_arrived) \in [seq : Nat, datagram : Nat]
    BY <1>1, SMT DEF Entry
  <2>3. /\ l_log' \in [0 .. LogEntries - 1 -> [seq : Nat, datagram : Nat]]
        /\ \A i \in 0 .. LogEntries - 1 :
              l_log'[i] = IF i = l_packets THEN Entry(i, i + 1) ELSE l_log[i]
    <3>1. CASE l_packets < LogEntries
      BY <1>1, <1>5, <2>1, <2>2, <3>1 DEF EnterInLog
    <3>2. CASE ~(l_packets < LogEntries)
      <4>1. \A i \in 0 .. LogEntries - 1 : i # l_packets
        BY <1>1, <3>2, SMT
      <4> QED BY <1>1, <1>5, <3>2, <4>1 DEF EnterInLog
    <3> QED BY <3>1, <3>2
  <2>4. \A i \in 0 .. LogEntries - 1 : i < l_packets => l_log[i] = Entry(i, i + 1)
    BY <2>1 DEF AuditIInv
  <2>5. ASSUME NEW i \in 0 .. LogEntries - 1, i < l_packets + 1
        PROVE  l_log'[i] = Entry(i, i + 1)
    <3>1. i = l_packets \/ i < l_packets
      BY <1>1, <2>5, SMT
    <3> QED BY <3>1, <2>3, <2>4
  <2>6. AuditTypeOK'
    BY <1>1, <2>1, <2>3 DEF AuditTypeOK, AuditIInv
  <2> QED BY <2>1, <2>5, <2>6 DEF AuditIInv, CsvComplete
<1>6. CASE Watch \/ StopWorker
  <2>1. /\ UNCHANGED <<l_worker, l_taken, l_packets, l_log, l_csv, l_arrived>>
        /\ l_running' \in BOOLEAN /\ l_second' \in 0 .. Seconds
        /\ l_main' \in {"watch", "join"}
    <3>1. l_running \in BOOLEAN
      BY DEF AuditIInv, AuditTypeOK
    <3>2. CASE Watch
      BY <1>1, <3>1, <3>2, SMT DEF Watch
    <3>3. CASE StopWorker
      BY <1>1, <3>3, Zenon DEF StopWorker
    <3> QED BY <1>6, <3>2, <3>3
  <2> QED BY <2>1 DEF AuditIInv, AuditTypeOK, Logged, CsvComplete
<1>7. CASE WriteCsv
  <2> DEFINE total == IF l_packets < LogEntries THEN l_packets ELSE LogEntries
  <2>1. /\ l_worker = "closed" /\ l_main' = "done" /\ l_arrived = l_packets
        /\ l_csv' = [i \in 1 .. total |-> l_log[i - 1]]
        /\ UNCHANGED <<l_running, l_worker, l_taken, l_packets, l_log, l_second, l_arrived>>
        /\ Logged = l_packets /\ Logged' = l_packets
    BY <1>7 DEF WriteCsv, AuditIInv, Logged
  <2>2. total \in Nat /\ total <= LogEntries /\ total <= l_packets
    BY <1>1, SMT
  <2>3. total = IF l_arrived < LogEntries THEN l_arrived ELSE LogEntries
    BY <2>1
  <2> HIDE DEF total
  <2>4. ASSUME NEW i \in 1 .. total
        PROVE  l_log[i - 1] = Entry(i - 1, i) /\ l_log[i - 1] \in [seq : Nat, datagram : Nat]
    <3>1. i - 1 \in 0 .. LogEntries - 1 /\ i - 1 < l_packets /\ (i - 1) + 1 = i
      BY <1>1, <2>2, SMT
    <3> QED BY <1>1, <2>1, <3>1 DEF AuditIInv
  <2>5. l_csv' \in Seq([seq : Nat, datagram : Nat]) /\ Len(l_csv') = total
        /\ DOMAIN l_csv' = 1 .. total
    <3> DEFINE E == [seq : Nat, datagram : Nat]
    <3>1. l_csv' = [i \in 1 .. total |-> l_log[i - 1]] /\ \A i \in 1 .. total : l_log[i - 1] \in E
      BY <2>1, <2>4
    <3> HIDE DEF E
    <3>2. l_csv' \in Seq(E) /\ Len(l_csv') = total /\ DOMAIN l_csv' = 1 .. total
      BY <2>2, <3>1, SMT
    <3> QED BY <3>2 DEF E
  <2>6. CsvComplete'
    BY <2>1, <2>3, <2>4, <2>5 DEF CsvComplete
  <2>7. AuditTypeOK'
    BY <1>1, <2>1, <2>5 DEF AuditTypeOK, AuditIInv
  <2> QED BY <2>1, <2>6, <2>7 DEF AuditIInv
<1>8. CASE UNCHANGED auditVars
  BY <1>8 DEF auditVars, AuditIInv, AuditTypeOK, Logged, CsvComplete
<1> QED BY <1>2, <1>3, <1>4, <1>5, <1>6, <1>7, <1>8 DEF AuditNext

-----------------------------------------------------------------------------
\* The table of handles (HashTable).
(* The bits of a & b: the lowest is that of both, the others are those of    *)
(* the halves.                                                               *)
LEMMA AndOfBits ==
    /\ \A a, b \in Nat : BitAnd[<<a, b>>] \in Nat
    /\ \A a, b \in Nat : BitAnd[<<a, b>>] =
          IF a = 0 THEN 0 ELSE 2 * BitAnd[<<a \div 2, b \div 2>>] + (a % 2) * (b % 2)
<1> DEFINE D == Nat \X Nat
           Low(p) == (p[1] % 2) * (p[2] % 2)
           Stop == {p \in D : p[1] = 0}
           g == [p \in D |-> <<p[1] \div 2, p[2] \div 2>>]
           m == [p \in D |-> p[1]]
           base == [p \in D |-> 0]
           comb == [q \in D \X Nat |-> 2 * q[2] + Low(q[1])]
<1>1. ASSUME NEW p \in D
      PROVE  /\ p[1] \in Nat /\ p[2] \in Nat /\ p = <<p[1], p[2]>>
             /\ p[1] \div 2 \in Nat /\ p[2] \div 2 \in Nat /\ Low(p) \in Nat
             /\ p[1] # 0 => p[1] \div 2 < p[1]
  <2>1. p[1] \in Nat /\ p[2] \in Nat /\ p = <<p[1], p[2]>>
    OBVIOUS
  <2>2. \A a, b \in Nat : /\ a \div 2 \in Nat /\ (a % 2) * (b % 2) \in Nat
                          /\ a # 0 => a \div 2 < a
    BY SMT
  <2> QED BY <2>1, <2>2
<1>2. g \in [D -> D] /\ m \in [D -> Nat] /\ base \in [D -> Nat] /\ Stop \subseteq D
  BY <1>1
<1>3. comb \in [D \X Nat -> Nat] /\ \A p \in D, v \in Nat : comb[<<p, v>>] = 2 * v + Low(p)
  <2>1. \A q \in D \X Nat : q[1] \in D /\ q[2] \in Nat
    OBVIOUS
  <2>2. \A q \in D \X Nat : Low(q[1]) \in Nat
    BY <1>1, <2>1
  <2> HIDE DEF Low, D
  <2>3. \A q \in D \X Nat : 2 * q[2] + Low(q[1]) \in Nat
    BY <2>1, <2>2
  <2> QED BY <2>3
<1>4. \A p \in D : /\ p \in Stop <=> p[1] = 0
                   /\ g[p] = <<p[1] \div 2, p[2] \div 2>> /\ m[p] = p[1] /\ base[p] = 0
  OBVIOUS
<1> HIDE DEF Stop, g, m, base, comb, D, Low
<1>5. LoopOver(D, Nat, Stop, g, m, base, comb)
  <2>1. \A p \in D \ Stop : m[g[p]] < m[p]
    BY <1>1, <1>2, <1>4
  <2> QED BY <1>2, <1>3, <2>1 DEF LoopOver
<1>6. PICK f \in [D -> Nat] : \A p \in D : f[p] = LoopRound(Stop, g, base, comb, f, p)
  BY <1>5, LoopReturns
<1>7. ASSUME NEW p \in D
      PROVE  f[p] = IF p[1] = 0 THEN 0 ELSE 2 * f[<<p[1] \div 2, p[2] \div 2>>] + Low(p)
  <2>1. f[p] = IF p \in Stop THEN base[p] ELSE comb[<<p, f[g[p]]>>]
    BY <1>6 DEF LoopRound
  <2>2. f[g[p]] \in Nat
    BY <1>2, <1>6
  <2> QED BY <1>3, <1>4, <2>1, <2>2
<1> DEFINE IsAnd(h) ==
              h = [p \in Nat \X Nat |->
                     IF p[1] = 0 THEN 0
                     ELSE 2 * h[<<p[1] \div 2, p[2] \div 2>>] + (p[1] % 2) * (p[2] % 2)]
<1>8. IsAnd(f)
  <2>1. f = [p \in D |-> f[p]]
    BY <1>6
  <2>2. f = [p \in D |-> IF p[1] = 0 THEN 0 ELSE 2 * f[<<p[1] \div 2, p[2] \div 2>>] + Low(p)]
    BY <1>7, <2>1
  <2> QED BY <2>2 DEF D, Low
<1>9. BitAnd = CHOOSE h : IsAnd(h)
  BY DEF BitAnd
<1>10. IsAnd(BitAnd)
  <2> HIDE DEF IsAnd
  <2> QED BY <1>8, <1>9
<1>11. ASSUME NEW a \in Nat, NEW b \in Nat
       PROVE  BitAnd[<<a, b>>] =
                 IF a = 0 THEN 0 ELSE 2 * BitAnd[<<a \div 2, b \div 2>>] + (a % 2) * (b % 2)
  BY <1>10
<1>12. \A p \in D : BitAnd[p] = f[p]
  <2> DEFINE S == {p \in D : BitAnd[p] # f[p]}
  <2>1. ASSUME NEW p \in S PROVE p \notin Stop /\ g[p] \in S
    <3>1. p \in D /\ BitAnd[p] # f[p]
      OBVIOUS
    <3>2. BitAnd[p] = IF p[1] = 0 THEN 0 ELSE 2 * BitAnd[<<p[1] \div 2, p[2] \div 2>>] + Low(p)
      BY <1>1, <1>11, <3>1 DEF Low
    <3>3. f[p] = IF p[1] = 0 THEN 0 ELSE 2 * f[<<p[1] \div 2, p[2] \div 2>>] + Low(p)
      BY <1>7, <3>1
    <3>4. p[1] # 0 /\ BitAnd[g[p]] # f[g[p]]
      BY <1>4, <3>1, <3>2, <3>3
    <3> QED BY <1>2, <1>4, <3>1, <3>4
  <2>2. S = {}
    <3> HIDE DEF S
    <3>1. S \in SUBSET D
      BY DEF S
    <3>2. /\ \A p \in S : p \notin Stop => g[p] \in S
          /\ \A p \in S : p \notin Stop
      BY <2>1
    <3>3. m \in [D -> Nat] /\ \A p \in D \ Stop : m[g[p]] < m[p]
      BY <1>5 DEF LoopOver
    <3> QED BY <3>1, <3>2, <3>3, LoopEnds, Zenon
  <2> QED BY <2>2
<1>13. \A a, b \in Nat : BitAnd[<<a, b>>] \in Nat
  <2>1. \A a, b \in Nat : <<a, b>> \in D
    BY DEF D
  <2> QED BY <1>6, <1>12, <2>1
<1> QED BY <1>11, <1>13

(* Masking gives no more than the mask.                                      *)
LEMMA AndBelow == \A a, b \in Nat : BitAnd[<<a, b>>] \in 0 .. b
<1> DEFINE D == Nat \X Nat
           S == {p \in D : BitAnd[p] \notin 0 .. p[2]}
           Stop == {p \in D : p[1] = 0}
           g == [p \in D |-> <<p[1] \div 2, p[2] \div 2>>]
           m == [p \in D |-> p[1]]
<1>1. ASSUME NEW a \in Nat, NEW b \in Nat
      PROVE  /\ a \div 2 \in Nat /\ b \div 2 \in Nat /\ (a # 0 => a \div 2 < a)
             /\ BitAnd[<<a \div 2, b \div 2>>] \in 0 .. b \div 2 => BitAnd[<<a, b>>] \in 0 .. b
             /\ a = 0 => BitAnd[<<a, b>>] \in 0 .. b
  <2> DEFINE v == BitAnd[<<a \div 2, b \div 2>>]
  <2>1. BitAnd[<<a, b>>] = IF a = 0 THEN 0 ELSE 2 * v + (a % 2) * (b % 2)
    BY AndOfBits
  <2> HIDE DEF v
  <2>2. /\ a \div 2 \in Nat /\ b \div 2 \in Nat /\ (a # 0 => a \div 2 < a)
        /\ a % 2 \in {0, 1} /\ b % 2 \in {0, 1} /\ b = 2 * (b \div 2) + (b % 2)
    BY SMT
  <2>3. (a % 2) * (b % 2) \in 0 .. b % 2
    BY <2>2, SMT
  <2>4. v \in 0 .. b \div 2 => 2 * v + (a % 2) * (b % 2) \in 0 .. b
    <3> DEFINE l == (a % 2) * (b % 2)
               h == b \div 2
               r == b % 2
    <3>1. l \in 0 .. r /\ b = 2 * h + r /\ h \in Nat /\ r \in Nat
      BY <2>2, <2>3
    <3> HIDE DEF l, h, r
    <3>2. v \in 0 .. h => 2 * v + l \in 0 .. b
      BY <3>1, SMT
    <3> QED BY <3>2 DEF l, h, r
  <2> QED BY <2>1, <2>2, <2>4 DEF v
<1>2. ASSUME NEW p \in S PROVE p \notin Stop /\ g[p] \in S
  <2>1. p[1] \in Nat /\ p[2] \in Nat /\ p = <<p[1], p[2]>> /\ BitAnd[p] \notin 0 .. p[2]
    OBVIOUS
  <2>2. p[1] # 0 /\ BitAnd[<<p[1] \div 2, p[2] \div 2>>] \notin 0 .. p[2] \div 2
    BY <1>1, <2>1
  <2>3. p[1] \div 2 \in Nat /\ p[2] \div 2 \in Nat
    BY <1>1, <2>1
  <2> QED BY <2>1, <2>2, <2>3
<1>3. S = {}
  <2>1. S \in SUBSET D
    OBVIOUS
  <2>2. m \in [D -> Nat] /\ \A p \in D \ Stop : m[g[p]] < m[p]
    BY <1>1
  <2> HIDE DEF S, Stop, g, m, D
  <2>3. /\ \A p \in S : p \notin Stop => g[p] \in S
        /\ \A p \in S : p \notin Stop
    BY <1>2
  <2> QED BY <2>1, <2>2, <2>3, LoopEnds, ZenonT(60)
<1>4. ASSUME NEW a \in Nat, NEW b \in Nat PROVE BitAnd[<<a, b>>] \in 0 .. b
  <2>1. <<a, b>> \in D /\ <<a, b>> \notin S
    BY <1>3
  <2> QED BY <2>1
<1> QED BY <1>4

(* As many consecutive numbers as the mask and one give every number that    *)
(* the mask can give: of the halves of M + 1 numbers from h on, those that   *)
(* have the right lowest bit are consecutive, and as many as the halved mask *)
(* and one.                                                                  *)
Covered(M) ==
    \A h, n \in Nat : \E i \in 0 .. M : BitAnd[<<h + i, M>>] = BitAnd[<<n, M>>]

LEMMA MasksCover == \A M \in Nat : Covered(M)
<1> DEFINE T == {M \in Nat : ~Covered(M)}
<1> SUFFICES ASSUME T # {} PROVE FALSE
  OBVIOUS
<1>1. PICK M \in T : \A k \in T : M <= k
  <2>1. T \subseteq Nat
    OBVIOUS
  <2> HIDE DEF T
  <2> QED BY <2>1, LeastNumber
<1>2. PICK h \in Nat, n \in Nat : \A i \in 0 .. M : BitAnd[<<h + i, M>>] # BitAnd[<<n, M>>]
  BY <1>1 DEF Covered
<1>3. M # 0
  <2> SUFFICES ASSUME M = 0 PROVE FALSE
    OBVIOUS
  <2>1. \A a \in Nat : BitAnd[<<a, 0>>] = 0
    BY AndBelow
  <2>2. 0 \in 0 .. M /\ h + 0 \in Nat
    BY <1>1
  <2> QED BY <1>2, <2>1, <2>2
<1> DEFINE half == M \div 2
           r == M % 2
<1>4. /\ M \in Nat /\ half \in Nat /\ half < M /\ r \in {0, 1} /\ M = 2 * half + r
  BY <1>1, <1>3, SMT
<1>5. Covered(half)
  <2>1. half \notin T
    BY <1>1, <1>4
  <2> QED BY <1>4, <2>1
<1>6. ASSUME NEW a \in Nat
      PROVE  /\ BitAnd[<<a, M>>] = 2 * BitAnd[<<a \div 2, half>>] + (a % 2) * r
             /\ a \div 2 \in Nat /\ a % 2 \in {0, 1} /\ a = 2 * (a \div 2) + (a % 2)
  <2>1. BitAnd[<<a, M>>] = IF a = 0 THEN 0 ELSE 2 * BitAnd[<<a \div 2, half>>] + (a % 2) * r
    BY <1>4, AndOfBits
  <2>2. a \div 2 \in Nat /\ a % 2 \in {0, 1} /\ a = 2 * (a \div 2) + (a % 2)
    BY SMT
  <2>3. CASE a = 0
    <3>1. a \div 2 = 0 /\ a % 2 = 0
      BY <2>3, SMT
    <3>2. BitAnd[<<0, half>>] = 0
      BY <1>4, AndOfBits
    <3>3. BitAnd[<<a, M>>] = 0 /\ BitAnd[<<a \div 2, half>>] = 0
      BY <2>1, <2>3, <3>1, <3>2
    <3> QED BY <1>4, <2>2, <3>1, <3>3
  <2> QED BY <2>1, <2>2, <2>3
<1> HIDE DEF half, r
\* A number q + j in the right place whose double has the right lowest bit c.
<1>7. ASSUME NEW q \in Nat, NEW c \in {0, 1}, NEW i0 \in {0, 1}, r = 0 \/ c = n % 2,
             2 * q + c = h + i0, i0 + 2 * half <= M
      PROVE  FALSE
  <2>1. PICK j \in 0 .. half : BitAnd[<<q + j, half>>] = BitAnd[<<n \div 2, half>>]
    BY <1>5, <1>6 DEF Covered
  <2> DEFINE i == i0 + 2 * j
  <2>2. i \in 0 .. M /\ h + i = 2 * (q + j) + c /\ h + i \in Nat /\ q + j \in Nat
    BY <1>4, <1>7, <2>1
  <2>3. (h + i) \div 2 = q + j /\ (h + i) % 2 = c
    BY <1>7, <2>2, SMT
  <2> HIDE DEF i
  <2>4. BitAnd[<<h + i, M>>] = 2 * BitAnd[<<q + j, half>>] + c * r
    BY <1>6, <2>2, <2>3
  <2>5. BitAnd[<<n, M>>] = 2 * BitAnd[<<n \div 2, half>>] + (n % 2) * r /\ n % 2 \in {0, 1}
    BY <1>6
  <2>6. c * r = (n % 2) * r
    <3>1. CASE r = 0
      BY <2>5, <3>1
    <3>2. CASE c = n % 2
      BY <3>2
    <3> QED BY <1>7, <3>1, <3>2
  <2> QED BY <1>2, <2>1, <2>2, <2>4, <2>5, <2>6
<1>8. CASE r = 0
  <2>1. h \div 2 \in Nat /\ h % 2 \in {0, 1} /\ 2 * (h \div 2) + (h % 2) = h + 0
    BY <1>6
  <2> QED BY <1>4, <1>7, <1>8, <2>1
<1>9. CASE r = 1
  <2> DEFINE q == h \div 2
             b == h % 2
             c == n % 2
  <2>1. q \in Nat /\ b \in {0, 1} /\ c \in {0, 1} /\ h = 2 * q + b
    BY <1>6
  <2> HIDE DEF q, b
  <2>2. CASE c = b
    <3>1. 2 * q + c = h + 0 /\ 0 + 2 * half <= M
      BY <1>4, <1>9, <2>1, <2>2
    <3> QED BY <1>7, <2>1, <3>1
  <2>3. CASE c = 1 /\ b = 0
    <3>1. 2 * q + c = h + 1 /\ 1 + 2 * half <= M
      BY <1>4, <1>9, <2>1, <2>3
    <3> QED BY <1>7, <2>1, <3>1
  <2>4. CASE c = 0 /\ b = 1
    <3>1. 2 * (q + 1) + c = h + 1 /\ 1 + 2 * half <= M /\ q + 1 \in Nat
      BY <1>4, <1>9, <2>1, <2>4
    <3> QED BY <1>7, <2>1, <3>1
  <2> QED BY <2>1, <2>2, <2>3, <2>4
<1> QED BY <1>4, <1>8, <1>9

\* The probe i of a key finds it: all slots before are taken by other keys.
Reached(slots, key, i) ==
    /\ slots[Probe(key, i)].occupied /\ slots[Probe(key, i)].key = key
    /\ \A j \in 0 .. i - 1 : slots[Probe(key, j)].occupied /\ slots[Probe(key, j)].key # key

\* Every slot that is taken has a key that its probes reach there.
SlotsFit(slots) ==
    /\ slots = [s \in Tries |-> slots[s]]
    /\ \A s \in Tries : slots[s] = Free \/
          \E key \in TableKeys, handle \in TableHandles : slots[s] = Holding(key, handle)
    /\ \A s \in Tries : slots[s].occupied =>
          \E i \in Tries : s = Probe(slots[s].key, i) /\ Reached(slots, slots[s].key, i)

TableIInv == TableTypeOK /\ SlotsFit(t_slots)

(* What is in a slot.                                                        *)
LEMMA SlotTypes ==
    ASSUME NEW slots, SlotsFit(slots), NEW s \in Tries
    PROVE  /\ slots[s].occupied \in BOOLEAN
           /\ ~slots[s].occupied => slots[s] = Free
           /\ slots[s].occupied =>
                 /\ slots[s].key \in TableKeys /\ slots[s].handle \in TableHandles
                 /\ slots[s] = Holding(slots[s].key, slots[s].handle)
<1> DEFINE e == slots[s]
<1>1. e = Free \/ \E key \in TableKeys, handle \in TableHandles : e = Holding(key, handle)
  BY DEF SlotsFit
<1> HIDE DEF e
<1>2. CASE e = Free
  BY <1>2 DEF Free, e
<1>3. ASSUME NEW key \in TableKeys, NEW handle \in TableHandles, e = Holding(key, handle)
      PROVE  e.occupied = TRUE /\ e.key = key /\ e.handle = handle
  BY <1>3 DEF Holding
<1>4. CASE \E key \in TableKeys, handle \in TableHandles : e = Holding(key, handle)
  BY <1>3, <1>4 DEF e
<1> QED BY <1>1, <1>2, <1>4

\* The slots that the mask can name, and the dictionary that has room for as many.
Nameable == {Masked(s) : s \in Tries}
Masking == INSTANCE Dictionary WITH
              Key <- TableKeys, Value <- TableHandles, Missing <- NullHandle,
              Room <- Cardinality(Nameable),
              dict <- [key \in TableKeys |-> Get(key)], call <- t_call

(* The probes of a key are slots, and every slot the mask can name is one of *)
(* them.                                                                     *)
LEMMA ProbesReachAll ==
    ASSUME NEW key \in TableKeys
    PROVE  /\ \A i \in Tries : Probe(key, i) \in Nameable
           /\ \A s \in Nameable : \E i \in Tries : s = Probe(key, i)
           /\ Nameable \subseteq Tries
<1> DEFINE M == MaxEntries - 1
<1>1. M \in Nat /\ Tries = 0 .. M /\ key \in Nat /\ \A i \in Tries : i \in Nat
  BY TableAssumption DEF Tries
<1>2. \A n \in Nat : Masked(n) \in Tries /\ Masked(n) = BitAnd[<<n, M>>] /\ Masked(n) \in Nat
  BY <1>1, AndBelow DEF Masked
<1> HIDE DEF M
<1>3. Hash(key) \in Nat
  BY <1>1, <1>2 DEF Hash
<1>4. \A i \in Tries : Probe(key, i) = Masked(Hash(key) + i) /\ Hash(key) + i \in Nat
  BY <1>1, <1>3 DEF Probe, Probed
<1>5. Covered(M)
  BY <1>1, MasksCover
<1>6. \A h, n \in Nat : \E i \in Tries : Masked(h + i) = Masked(n)
  <2> SUFFICES ASSUME NEW h \in Nat, NEW n \in Nat
               PROVE  \E i \in Tries : Masked(h + i) = Masked(n)
    OBVIOUS
  <2>1. PICK i \in 0 .. M : BitAnd[<<h + i, M>>] = BitAnd[<<n, M>>]
    BY <1>5 DEF Covered
  <2>2. i \in Tries /\ h + i \in Nat
    BY <1>1
  <2> QED BY <1>2, <2>1, <2>2
<1>7. ASSUME NEW i \in Tries PROVE Probe(key, i) \in Nameable
  <2>1. PICK j \in Tries : Masked(0 + j) = Masked(Hash(key) + i)
    BY <1>4, <1>6
  <2>2. 0 + j = j
    BY <1>1
  <2> QED BY <1>4, <2>1, <2>2 DEF Nameable
<1>8. ASSUME NEW s \in Nameable PROVE \E i \in Tries : s = Probe(key, i)
  <2>1. PICK n \in Tries : s = Masked(n)
    BY DEF Nameable
  <2>2. PICK i \in Tries : Masked(Hash(key) + i) = Masked(n)
    BY <1>1, <1>3, <1>6
  <2> QED BY <1>4, <2>1, <2>2
<1>9. Nameable \subseteq Tries
  BY <1>1, <1>2 DEF Nameable
<1> QED BY <1>7, <1>8, <1>9

\* The first probe of a key that finds a slot free or its own; there may be none.
Ends(slots, key, s) == ~slots[s].occupied \/ (slots[s].occupied /\ slots[s].key = key)
EndsAt(slots, key, i) ==
    Ends(slots, key, Probe(key, i)) /\ \A j \in 0 .. i - 1 : ~Ends(slots, key, Probe(key, j))

LEMMA FirstEnd ==
    ASSUME NEW slots, NEW key
    PROVE  /\ \/ \E i \in Tries : EndsAt(slots, key, i)
              \/ \A i \in Tries : ~Ends(slots, key, Probe(key, i))
           /\ \A i, k \in Tries : EndsAt(slots, key, i) /\ EndsAt(slots, key, k) => i = k
<1>1. Tries \subseteq Nat /\ \A i \in Tries : \A j \in 0 .. i - 1 : j \in Tries /\ j < i
  BY TableAssumption DEF Tries
<1>2. ASSUME NEW n \in Tries, Ends(slots, key, Probe(key, n))
      PROVE  \E i \in Tries : EndsAt(slots, key, i)
  <2> DEFINE T == {i \in Tries : Ends(slots, key, Probe(key, i))}
  <2>1. T \subseteq Nat /\ T # {}
    BY <1>1, <1>2
  <2>2. PICK i \in T : \A k \in T : i <= k
    <3> HIDE DEF T
    <3> QED BY <2>1, LeastNumber
  <2>3. \A j \in 0 .. i - 1 : j \notin T
    <3> SUFFICES ASSUME NEW j \in 0 .. i - 1, j \in T PROVE FALSE
      OBVIOUS
    <3>1. i <= j /\ i \in Nat /\ j < i /\ j \in Nat
      BY <1>1, <2>2
    <3> QED BY <3>1
  <2> QED BY <1>1, <2>3 DEF EndsAt
<1>3. ASSUME NEW i \in Tries, NEW k \in Tries, EndsAt(slots, key, i), EndsAt(slots, key, k)
      PROVE  i = k
  <2>1. i \in Nat /\ k \in Nat
    BY <1>1
  <2>2. ~(i < k) /\ ~(k < i)
    BY <1>3, <2>1 DEF EndsAt
  <2> QED BY <2>1, <2>2
<1> QED BY <1>2, <1>3

\* get() over given slots.
Has(slots, s, key) == slots[s].occupied /\ slots[s].key = key
GetIn(slots, key) ==
    LET Hits == {Probe(key, i) : i \in {i \in Tries : EndsAt(slots, key, i)}}
    IN  IF \E s \in Hits : slots[s].occupied
          THEN slots[CHOOSE s \in Hits : TRUE].handle ELSE NullHandle

LEMMA GetOfSlots ==
    /\ \A key : Get(key) = GetIn(t_slots, key)
    /\ \A key : Get(key)' = GetIn(t_slots', key)
<1>1. \A key : Get(key) = GetIn(t_slots, key)
  BY DEF Get, GetIn, FirstTry, EndsAt, Ends, Holds
<1>2. \A key : Get(key)' = GetIn(t_slots', key)
  BY DEF Get, GetIn, FirstTry, EndsAt, Ends, Holds
<1> QED BY <1>1, <1>2

(* get() answers with the handle of the key's slot, and null if it has none. *)
LEMMA GetFinds ==
    ASSUME NEW slots, SlotsFit(slots), NEW key \in TableKeys
    PROVE  /\ \A s \in Tries : Has(slots, s, key) => GetIn(slots, key) = slots[s].handle
           /\ (\A s \in Tries : ~Has(slots, s, key)) => GetIn(slots, key) = NullHandle
<1> DEFINE Hits == {Probe(key, i) : i \in {i \in Tries : EndsAt(slots, key, i)}}
<1>1. GetIn(slots, key) = IF \E s \in Hits : slots[s].occupied
                   THEN slots[CHOOSE s \in Hits : TRUE].handle ELSE NullHandle
  BY DEF GetIn, FirstTry, EndsAt, Ends, Has
<1>2. \A i \in Tries : Probe(key, i) \in Tries
  BY ProbesReachAll
<1>3. ASSUME NEW s \in Tries, Has(slots, s, key) PROVE GetIn(slots, key) = slots[s].handle
  <2>1. slots[s].occupied /\ slots[s].key = key
    BY <1>3 DEF Has
  <2>2. PICK i \in Tries : s = Probe(key, i) /\ Reached(slots, key, i)
    BY <2>1 DEF SlotsFit
  <2>3. EndsAt(slots, key, i)
    BY <2>2 DEF Reached, EndsAt, Ends
  <2>4. Hits = {s}
    BY <2>2, <2>3, FirstEnd
  <2> HIDE DEF Hits
  <2> QED BY <1>1, <2>1, <2>4
<1>4. ASSUME \A s \in Tries : ~Has(slots, s, key) PROVE GetIn(slots, key) = NullHandle
  <2>1. \A s \in Hits : ~slots[s].occupied
    BY <1>2, <1>4 DEF EndsAt, Ends, Has
  <2> HIDE DEF Hits
  <2> QED BY <1>1, <2>1
<1> QED BY <1>3, <1>4

(* What insert() does to the slots.                                          *)
LEMMA InsertDoes ==
    ASSUME TableIInv, NEW key \in TableKeys, NEW handle \in TableHandles,
           TableInsert(key, handle)
    PROVE  \/ \E i \in Tries :
                 /\ EndsAt(t_slots, key, i)
                 /\ t_slots' = [t_slots EXCEPT ![Probe(key, i)] = Holding(key, handle)]
           \/ /\ \A i \in Tries : ~Ends(t_slots, key, Probe(key, i))
              /\ t_slots' = t_slots
<1> DEFINE First == {i \in Tries : EndsAt(t_slots, key, i)}
<1>1. t_slots' = [s \in Tries |-> IF \E i \in First : s = Probe(key, i)
                                    THEN Holding(key, handle) ELSE t_slots[s]]
  BY DEF TableInsert, FirstTry, EndsAt, Ends, Holds
<1>2. t_slots = [s \in Tries |-> t_slots[s]] /\ \A i \in Tries : Probe(key, i) \in Tries
  BY ProbesReachAll DEF TableIInv, SlotsFit
<1>3. ASSUME NEW n \in Tries, EndsAt(t_slots, key, n)
      PROVE  t_slots' = [t_slots EXCEPT ![Probe(key, n)] = Holding(key, handle)]
  <2>1. First = {n}
    BY <1>3, FirstEnd
  <2> HIDE DEF First
  <2> QED BY <1>1, <1>2, <2>1
<1>4. ASSUME \A i \in Tries : ~Ends(t_slots, key, Probe(key, i)) PROVE t_slots' = t_slots
  <2>1. First = {}
    BY <1>4 DEF EndsAt
  <2> HIDE DEF First
  <2> QED BY <1>1, <1>2, <2>1
<1> QED BY <1>3, <1>4, FirstEnd

(* A table whose slots all hold other keys has as many as the mask can name.  *)
LEMMA FullTable ==
    ASSUME NEW slots, SlotsFit(slots), NEW key \in TableKeys,
           \A i \in Tries : ~Ends(slots, key, Probe(key, i)),
           NEW P, P = {k \in TableKeys : GetIn(slots, k) # NullHandle}
    PROVE  Cardinality(Nameable) <= Cardinality(P)
<1>1. /\ Nameable \subseteq Tries
      /\ \A s \in Nameable : slots[s].occupied
  BY ProbesReachAll DEF Ends
<1> DEFINE f == [s \in Nameable |-> slots[s].key]
<1>2. ASSUME NEW s \in Nameable PROVE slots[s].key \in P /\ slots[s].key \in TableKeys
  <2>1. s \in Tries /\ slots[s].occupied
    BY <1>1
  <2>2. /\ slots[s].key \in TableKeys /\ slots[s].handle \in TableHandles
        /\ Has(slots, s, slots[s].key)
    BY <2>1, SlotTypes DEF Has
  <2>3. GetIn(slots, slots[s].key) = slots[s].handle
    BY <2>1, <2>2, GetFinds
  <2> QED BY <2>2, <2>3, TableAssumption
<1>3. ASSUME NEW s \in Nameable, NEW u \in Nameable, slots[s].key = slots[u].key PROVE s = u
  <2> DEFINE k == slots[s].key
  <2>1. /\ s \in Tries /\ u \in Tries /\ k = slots[u].key
        /\ slots[s].occupied /\ slots[u].occupied
    BY <1>1, <1>3
  <2>2. PICK i \in Tries : s = Probe(k, i) /\ Reached(slots, k, i)
    BY <2>1 DEF SlotsFit
  <2>3. PICK j \in Tries : u = Probe(k, j) /\ Reached(slots, k, j)
    BY <2>1 DEF SlotsFit
  <2>4. EndsAt(slots, k, i) /\ EndsAt(slots, k, j)
    BY <2>2, <2>3 DEF Reached, EndsAt, Ends
  <2> QED BY <2>2, <2>3, <2>4, FirstEnd
<1>4. IsFiniteSet(Tries)
  BY TableAssumption, FS_Interval DEF Tries
<1>5. IsFiniteSet(Nameable)
  BY <1>1, <1>4, FS_Subset
<1>6. IsFiniteSet(P)
  <2> DEFINE Taken == {s \in Tries : slots[s].occupied}
             g == [s \in Taken |-> slots[s].key]
             Q == {k \in TableKeys : \E s \in Taken : k = slots[s].key}
  <2>1. IsFiniteSet(Taken)
    BY <1>4, FS_Subset
  <2>2. g \in Surjection(Taken, Q)
    <3>1. \A s \in Taken : slots[s].key \in TableKeys
      BY SlotTypes
    <3> QED BY <3>1 DEF Surjection
  <2>3. IsFiniteSet(Q)
    <3> HIDE DEF g, Q, Taken
    <3> QED BY <2>1, <2>2, FS_Surjection
  <2>4. P \subseteq Q
    <3> SUFFICES ASSUME NEW k \in P PROVE k \in Q
      OBVIOUS
    <3>1. k \in TableKeys /\ GetIn(slots, k) # NullHandle
      OBVIOUS
    <3>2. PICK s \in Tries : Has(slots, s, k)
      BY <3>1, GetFinds
    <3> QED BY <3>1, <3>2 DEF Has
  <2> QED BY <2>3, <2>4, FS_Subset
<1>7. f \in Injection(Nameable, P)
  BY <1>2, <1>3 DEF Injection, IsInjective
<1> HIDE DEF f
<1> QED BY <1>5, <1>6, <1>7, FS_Injection

\* get() answers as before but for one key.
AnswersFor(slots, next, key, handle) ==
    \A k \in TableKeys : GetIn(next, k) = IF k = key THEN handle ELSE GetIn(slots, k)

(* Slots stay right when a key takes the slot its probes end at, and only    *)
(* that key is found to have another handle then.                            *)
LEMMA TakesSlot ==
    ASSUME NEW slots, SlotsFit(slots), NEW key \in TableKeys, NEW handle \in TableHandles,
           NEW i \in Tries, EndsAt(slots, key, i),
           NEW next, next = [slots EXCEPT ![Probe(key, i)] = Holding(key, handle)]
    PROVE  SlotsFit(next) /\ AnswersFor(slots, next, key, handle)
<1> DEFINE x == Probe(key, i)
<1>1. /\ x \in Tries /\ slots = [s \in Tries |-> slots[s]]
      /\ \A k \in TableKeys, j \in Tries : Probe(k, j) \in Tries
  BY ProbesReachAll DEF SlotsFit
<1>2. /\ next = [s \in Tries |-> next[s]]
      /\ \A s \in Tries : next[s] = IF s = x THEN Holding(key, handle) ELSE slots[s]
  BY <1>1
<1>3. /\ next[x] = Holding(key, handle) /\ next[x].occupied
      /\ next[x].key = key /\ next[x].handle = handle
      /\ slots[x].occupied => slots[x].key = key
  BY <1>1, <1>2 DEF Holding, EndsAt, Ends
<1>4. x = Probe(key, i)
  OBVIOUS
<1> HIDE DEF x
<1>5. \A s \in Tries : s # x => next[s] = slots[s]
  BY <1>2
<1>6. Tries \subseteq Nat /\ \A k \in Tries : \A j \in 0 .. k - 1 : j \in Tries
  BY TableAssumption DEF Tries
<1>7. \A s \in Tries : next[s] = Free \/
        \E k \in TableKeys, h \in TableHandles : next[s] = Holding(k, h)
  BY <1>3, <1>5 DEF SlotsFit
<1>8. Reached(next, key, i)
  <2>1. ASSUME NEW j \in 0 .. i - 1
        PROVE  next[Probe(key, j)].occupied /\ next[Probe(key, j)].key # key
    <3>1. j \in Tries /\ Probe(key, j) \in Tries /\ ~Ends(slots, key, Probe(key, j))
      BY <1>1, <1>6 DEF EndsAt
    <3>2. slots[Probe(key, j)].occupied /\ slots[Probe(key, j)].key # key
      BY <3>1, SlotTypes DEF Ends
    <3>3. Probe(key, j) # x
      BY <1>4, <3>1 DEF EndsAt
    <3> QED BY <1>5, <3>1, <3>2, <3>3
  <2> QED BY <1>3, <1>4, <2>1 DEF Reached
<1>9. ASSUME NEW s \in Tries, next[s].occupied
      PROVE  \E j \in Tries : s = Probe(next[s].key, j) /\ Reached(next, next[s].key, j)
  <2>1. CASE s = x
    BY <1>3, <1>4, <1>8, <2>1
  <2>2. CASE s # x
    <3>1. next[s] = slots[s] /\ slots[s].occupied
      BY <1>5, <1>9, <2>2
    <3>2. PICK k \in TableKeys : k = slots[s].key
      BY <3>1, SlotTypes
    <3>3. PICK j \in Tries : s = Probe(k, j) /\ Reached(slots, k, j)
      BY <3>1, <3>2 DEF SlotsFit
    <3>4. k # key
      <4> SUFFICES ASSUME k = key PROVE FALSE
        OBVIOUS
      <4>1. EndsAt(slots, key, j)
        BY <3>3 DEF Reached, EndsAt, Ends
      <4>2. i = j
        BY <4>1, FirstEnd
      <4> QED BY <1>4, <2>2, <3>3, <4>2
    <3>5. ASSUME NEW l \in 0 .. j - 1
          PROVE  next[Probe(k, l)].occupied /\ next[Probe(k, l)].key # k
      <4>1. /\ slots[Probe(k, l)].occupied /\ slots[Probe(k, l)].key # k
            /\ Probe(k, l) \in Tries
        BY <1>1, <1>6, <3>3 DEF Reached
      <4>2. CASE Probe(k, l) = x
        BY <1>3, <3>4, <4>2
      <4>3. CASE Probe(k, l) # x
        BY <1>5, <4>1, <4>3
      <4> QED BY <4>2, <4>3
    <3>6. Reached(next, k, j)
      BY <3>1, <3>2, <3>3, <3>5 DEF Reached
    <3> QED BY <3>1, <3>2, <3>3, <3>6
  <2> QED BY <2>1, <2>2
<1>10. SlotsFit(next)
  BY <1>2, <1>7, <1>9 DEF SlotsFit
<1>11. ASSUME NEW k \in TableKeys
       PROVE  GetIn(next, k) = IF k = key THEN handle ELSE GetIn(slots, k)
  <2>1. /\ \A s \in Tries : Has(next, s, k) => GetIn(next, k) = next[s].handle
        /\ (\A s \in Tries : ~Has(next, s, k)) => GetIn(next, k) = NullHandle
    BY <1>10, GetFinds
  <2>2. /\ \A s \in Tries : Has(slots, s, k) => GetIn(slots, k) = slots[s].handle
        /\ (\A s \in Tries : ~Has(slots, s, k)) => GetIn(slots, k) = NullHandle
    BY GetFinds
  <2>3. CASE k = key
    BY <1>1, <1>3, <2>1, <2>3 DEF Has
  <2>4. CASE k # key
    <3>1. \A s \in Tries : /\ Has(next, s, k) <=> Has(slots, s, k)
                           /\ Has(slots, s, k) => next[s] = slots[s]
      BY <1>1, <1>3, <1>5, <2>4 DEF Has
    <3> QED BY <2>1, <2>2, <2>4, <3>1
  <2> QED BY <2>3, <2>4
<1> QED BY <1>10, <1>11 DEF AnswersFor

(* An insert gives its key its value, or there is no room for another key.   *)
LEMMA TableSimulates ==
    ASSUME TableIInv, [TableNext]_tableVars
    PROVE  TableIInv' /\ [Masking!Next]_<<[key \in TableKeys |-> Get(key)], t_call>>
<1> DEFINE dict == [key \in TableKeys |-> Get(key)]
<1>0. dict = [key \in TableKeys |-> GetIn(t_slots, key)]
      /\ dict' = [key \in TableKeys |-> GetIn(t_slots', key)]
  BY GetOfSlots
<1>1. ASSUME NEW key \in TableKeys, NEW handle \in TableHandles, TableInsert(key, handle)
      PROVE  TableIInv' /\ [Masking!Next]_<<dict, t_call>>
  <2>1. t_call' = <<key, handle>>
    BY <1>1 DEF TableInsert
  <2>2. SlotsFit(t_slots') => TableIInv'
    BY <2>1 DEF TableIInv, TableTypeOK, SlotsFit
  <2>3. CASE \A i \in Tries : ~Ends(t_slots, key, Probe(key, i))
    <3>1. t_slots' = t_slots
      BY <1>1, <2>3, InsertDoes DEF EndsAt
    <3>2. TableIInv' /\ dict' = dict
      BY <1>0, <2>2, <3>1 DEF TableIInv
    <3>3. \A s \in Tries : ~Has(t_slots, s, key)
      <4> SUFFICES ASSUME NEW s \in Tries, Has(t_slots, s, key) PROVE FALSE
        OBVIOUS
      <4>1. PICK i \in Tries : s = Probe(key, i)
        BY DEF Has, TableIInv, SlotsFit
      <4> QED BY <2>3, <4>1 DEF Has, Ends
    <3>4. GetIn(t_slots, key) = NullHandle
      BY <3>3, GetFinds DEF TableIInv
    <3> DEFINE P == {k \in TableKeys : dict[k] # NullHandle}
    <3>5. P = {k \in TableKeys : GetIn(t_slots, k) # NullHandle}
      BY <1>0
    <3>6. Cardinality(Nameable) <= Cardinality(P)
      <4> HIDE DEF P
      <4> QED BY <2>3, <3>5, FullTable DEF TableIInv
    <3>7. Masking!Refuse(key, handle)
      BY <1>0, <3>2, <3>4, <3>6, <2>1 DEF Masking!Refuse, Masking!Present, Masking!Cardinality, Cardinality
    <3> QED BY <2>1, <3>2, <3>7 DEF Masking!Next
  <2>4. CASE ~(\A i \in Tries : ~Ends(t_slots, key, Probe(key, i)))
    <3>1. PICK i \in Tries :
             /\ EndsAt(t_slots, key, i)
             /\ t_slots' = [t_slots EXCEPT ![Probe(key, i)] = Holding(key, handle)]
      BY <1>1, <2>4, InsertDoes
    <3>2. /\ SlotsFit(t_slots')
          /\ \A k \in TableKeys :
               GetIn(t_slots', k) = IF k = key THEN handle ELSE GetIn(t_slots, k)
      <4>1. SlotsFit(t_slots)
        BY DEF TableIInv
      <4> DEFINE next == t_slots'
      <4>2. next = [t_slots EXCEPT ![Probe(key, i)] = Holding(key, handle)]
        BY <3>1
      <4> HIDE DEF next
      <4>3. SlotsFit(next)
        BY <1>1, <3>1, <4>1, <4>2, TakesSlot, ZenonT(30)
      <4>4. AnswersFor(t_slots, next, key, handle)
        BY <1>1, <3>1, <4>1, <4>2, TakesSlot, ZenonT(30)
      <4> QED BY <4>3, <4>4 DEF next, AnswersFor
    <3>3. dict' = [dict EXCEPT ![key] = handle]
      BY <1>0, <3>2
    <3>4. Masking!Insert(key, handle)
      BY <2>1, <3>3 DEF Masking!Insert
    <3> QED BY <2>1, <2>2, <3>2, <3>4 DEF Masking!Next
  <2> QED BY <2>3, <2>4
<1>2. CASE UNCHANGED tableVars
  <2>1. t_slots' = t_slots /\ t_call' = t_call
    BY <1>2 DEF tableVars
  <2>2. dict' = dict
    BY <1>0, <2>1
  <2> QED BY <2>1, <2>2 DEF TableIInv, TableTypeOK
<1> QED BY <1>1, <1>2 DEF TableNext

(* The table is empty at first, and so is the dictionary.                    *)
LEMMA InitTable == TableInit => TableIInv /\ Dict!Init
<1> SUFFICES ASSUME TableInit PROVE TableIInv /\ Dict!Init
  OBVIOUS
<1>1. /\ \A s \in Tries : t_slots[s] = Free /\ ~t_slots[s].occupied
      /\ t_slots = [s \in Tries |-> t_slots[s]] /\ t_call = <<>>
  BY DEF TableInit, Free
<1>2. SlotsFit(t_slots) /\ TableIInv
  BY <1>1 DEF TableIInv, TableTypeOK, SlotsFit
<1>3. \A key \in TableKeys : GetIn(t_slots, key) = NullHandle
  BY <1>1, <1>2, GetFinds DEF Has
<1> QED BY <1>1, <1>2, <1>3, GetOfSlots DEF Dict!Init

\* The only odd divisor is 1: the sizes for which every slot has a name.
PowerOfTwo(m) == \A d \in 1 .. m : m % d = 0 /\ d % 2 = 1 => d = 1
KeepsAll(m) == \A n \in 0 .. m - 1 : BitAnd[<<n, m - 1>>] = n

(* Half of a power of two is one, and what masking with the half keeps makes *)
(* what masking with the whole does: all bits below are set.                 *)
LEMMA PowerHalves ==
    ASSUME NEW m \in Nat \ {0, 1}, PowerOfTwo(m)
    PROVE  \E k \in Nat \ {0} : m = 2 * k /\ PowerOfTwo(k)
<1>1. m % m = 0 /\ m \in 1 .. m
  BY SMT
<1>2. m % 2 # 1
  BY <1>1 DEF PowerOfTwo
<1> DEFINE k == m \div 2
<1>3. k \in Nat \ {0} /\ m = 2 * k
  BY <1>2, SMT
<1> HIDE DEF k
<1>4. ASSUME NEW d \in 1 .. k, k % d = 0, d % 2 = 1 PROVE d = 1
  <2>1. d \in Nat \ {0} /\ k \in Int
    BY <1>3, SMT
  <2>2. PICK q \in Int : k = d * q + (k % d)
    BY <2>1, Division
  <2>3. m = d * (2 * q) + 0 /\ 2 * q \in Int /\ 0 \in 0 .. d - 1
    BY <1>3, <1>4, <2>1, <2>2, SMT
  <2>4. m % d = 0
    BY <2>1, <2>3, RemainderUnique
  <2>5. d \in 1 .. m
    BY <1>3, SMT
  <2> QED BY <1>4, <2>4, <2>5 DEF PowerOfTwo
<1> QED BY <1>3, <1>4 DEF PowerOfTwo

LEMMA PowersKeepAll == \A m \in Nat \ {0} : PowerOfTwo(m) => KeepsAll(m)
<1> DEFINE T == {m \in Nat \ {0} : PowerOfTwo(m) /\ ~KeepsAll(m)}
<1> SUFFICES ASSUME T # {} PROVE FALSE
  OBVIOUS
<1>1. PICK m \in T : \A k \in T : m <= k
  <2>1. T \subseteq Nat
    OBVIOUS
  <2> HIDE DEF T
  <2> QED BY <2>1, LeastNumber
<1>2. m \in Nat \ {0} /\ PowerOfTwo(m)
  BY <1>1
<1>3. PICK n \in 0 .. m - 1 : BitAnd[<<n, m - 1>>] # n
  BY <1>1 DEF KeepsAll
<1>4. n # 0 /\ m # 1 /\ n \in Nat /\ m - 1 \in Nat
  <2>1. n \in Nat /\ m - 1 \in Nat
    BY <1>2, SMT
  <2>2. n = 0 => BitAnd[<<n, m - 1>>] = 0
    BY <2>1, AndOfBits
  <2>3. n # 0
    BY <1>3, <2>2
  <2> QED BY <1>2, <2>1, <2>3, SMT
<1>5. PICK k \in Nat \ {0} : m = 2 * k /\ PowerOfTwo(k)
  BY <1>2, <1>4, PowerHalves
<1>6. KeepsAll(k)
  <2>1. ~(m <= k)
    BY <1>5, SMT
  <2> QED BY <1>1, <1>5, <2>1
<1>7. /\ n \div 2 \in 0 .. k - 1 /\ (m - 1) \div 2 = k - 1 /\ (m - 1) % 2 = 1
      /\ n = 2 * (n \div 2) + (n % 2) /\ n % 2 \in Nat
  BY <1>4, <1>5, SMT
<1>8. BitAnd[<<n \div 2, k - 1>>] = n \div 2
  BY <1>6, <1>7 DEF KeepsAll
<1>9. BitAnd[<<n, m - 1>>] = 2 * BitAnd[<<n \div 2, (m - 1) \div 2>>] + (n % 2) * ((m - 1) % 2)
  BY <1>4, AndOfBits
<1>10. BitAnd[<<n, m - 1>>] = 2 * (n \div 2) + (n % 2) * 1
  BY <1>7, <1>8, <1>9
<1> QED BY <1>3, <1>7, <1>10, SMT

(* When max_entries is a power of two, the room is the whole table.          *)
LEMMA WholeTableNamed ==
    ASSUME PowerOfTwo(MaxEntries)
    PROVE  Cardinality(Nameable) = MaxEntries
<1>1. MaxEntries \in Nat \ {0} /\ Tries = 0 .. MaxEntries - 1
  BY TableAssumption DEF Tries
<1>2. \A s \in Tries : Masked(s) = s
  BY <1>1, PowersKeepAll DEF KeepsAll, Masked
<1>3. Nameable = Tries
  BY <1>2 DEF Nameable
<1>4. Cardinality(0 .. MaxEntries - 1) = MaxEntries
  BY <1>1, FS_Interval, SMT
<1> QED BY <1>1, <1>3, <1>4

(* A step of the one dictionary is then a step of the other.                 *)
LEMMA MaskingIsDict ==
    ASSUME PowerOfTwo(MaxEntries),
           [Masking!Next]_<<[key \in TableKeys |-> Get(key)], t_call>>
    PROVE  [Dict!Next]_<<[key \in TableKeys |-> Get(key)], t_call>>
<1> DEFINE dict == [key \in TableKeys |-> Get(key)]
           HeldKeys == {k \in TableKeys : dict[k] # NullHandle}
<1>1. ASSUME NEW k \in TableKeys, NEW v \in TableHandles, Masking!Refuse(k, v)
      PROVE  Dict!Refuse(k, v)
  <2>1. dict[k] = NullHandle /\ Cardinality(HeldKeys) >= Cardinality(Nameable) /\ UNCHANGED dict
    BY <1>1 DEF Masking!Refuse, Masking!Present, Masking!Cardinality, Cardinality
  <2>2. dict[k] = NullHandle /\ Cardinality(HeldKeys) >= MaxEntries /\ UNCHANGED dict
    BY <2>1, WholeTableNamed
  <2> QED BY <2>2 DEF Dict!Refuse, Dict!Present, Dict!Cardinality, Cardinality
<1>2. ASSUME NEW k \in TableKeys, NEW v \in TableHandles, Masking!Insert(k, v)
      PROVE  Dict!Insert(k, v)
  BY <1>2 DEF Masking!Insert, Dict!Insert
<1> QED BY <1>1, <1>2 DEF Masking!Next, Dict!Next

-----------------------------------------------------------------------------
\* Sums over sets.
\* Any element of a set, and the recursion of the folds on the subsets of a set.
Some(T) == CHOOSE x \in T : TRUE
IsSum(h, f, S) ==
    h = [T \in SUBSET S |-> IF T = {} THEN 0 ELSE f[Some(T)] + h[T \ {Some(T)}]]

\* A set of which f has numbers to add.
Summable(f, S) == IsFiniteSet(S) /\ \A x \in S : f[x] \in Int

(* The sum over a set is what that recursion computes.                       *)
LEMMA SumIsFold ==
    ASSUME NEW f, NEW S
    PROVE  SumFunctionOnSet(f, S) = (CHOOSE h : IsSum(h, f, S))[S]
BY DEF SumFunctionOnSet, FoldFunctionOnSet, MapThenFoldSet, IsSum, Some

(* Sets get smaller when an element of theirs is removed.                    *)
LEMMA Smaller ==
    ASSUME NEW S, IsFiniteSet(S), NEW T \in SUBSET S, T # {}
    PROVE  /\ Some(T) \in T /\ T \ {Some(T)} \in SUBSET S
           /\ IsFiniteSet(T) /\ Cardinality(T) \in Nat
           /\ Cardinality(T \ {Some(T)}) \in Nat
           /\ Cardinality(T \ {Some(T)}) < Cardinality(T)
<1>1. Some(T) \in T
  BY DEF Some
<1>2. IsFiniteSet(T) /\ Cardinality(T) \in Nat
  BY FS_Subset, FS_CardinalityType
<1>3. /\ IsFiniteSet(T \ {Some(T)})
      /\ Cardinality(T \ {Some(T)}) = Cardinality(T) - 1
  BY <1>1, <1>2, FS_RemoveElement
<1>4. Cardinality(T \ {Some(T)}) \in Nat
  BY <1>3, FS_CardinalityType
<1> QED BY <1>1, <1>2, <1>3, <1>4

(* Of the subsets of a finite set, none has a smaller one in B, and a        *)
(* smaller one still, and so on for ever.                                    *)
LEMMA NoneSmallest ==
    ASSUME NEW S, IsFiniteSet(S), NEW B, B \subseteq SUBSET S,
           \A T \in B : T # {} /\ \E x \in T : T \ {x} \in B
    PROVE  B = {}
<1> SUFFICES ASSUME B # {} PROVE FALSE
  OBVIOUS
<1> DEFINE N == {Cardinality(T) : T \in B}
<1>1. \A T \in B : IsFiniteSet(T) /\ Cardinality(T) \in Nat
  BY FS_Subset, FS_CardinalityType
<1>2. N # {} /\ N \subseteq Nat
  BY <1>1
<1>3. PICK n \in N : \A k \in N : n <= k
  <2> HIDE DEF N
  <2> QED BY <1>2, LeastNumber
<1>4. PICK T \in B : n = Cardinality(T)
  OBVIOUS
<1>5. PICK x \in T : T \ {x} \in B
  OBVIOUS
<1>6. Cardinality(T \ {x}) = Cardinality(T) - 1
  BY <1>1, FS_RemoveElement
<1>7. Cardinality(T) <= Cardinality(T \ {x})
  BY <1>3, <1>4, <1>5
<1> QED BY <1>1, <1>6, <1>7

(* The recursion has a function.                                             *)
LEMMA SumRuns ==
    ASSUME NEW f, NEW S, Summable(f, S)
    PROVE  \E h \in [SUBSET S -> Int] : IsSum(h, f, S) /\ SumFunctionOnSet(f, S) = h[S]
<1> DEFINE D == SUBSET S
           Stop == {{}}
           g == [T \in D |-> T \ {Some(T)}]
           m == [T \in D |-> Cardinality(T)]
           base == [T \in D |-> 0]
           comb == [p \in D \X Int |-> IF p[1] = {} THEN 0 ELSE f[Some(p[1])] + p[2]]
<1>1. IsFiniteSet(S) /\ \A x \in S : f[x] \in Int
  BY DEF Summable
<1>2. g \in [D -> D] /\ \A T \in D : g[T] = T \ {Some(T)}
  OBVIOUS
<1>3. m \in [D -> Nat] /\ \A T \in D : m[T] = Cardinality(T)
  <2>1. \A T \in D : Cardinality(T) \in Nat
    BY <1>1, FS_Subset, FS_CardinalityType
  <2> QED BY <2>1
<1>4. base \in [D -> Int] /\ \A T \in D : base[T] = 0
  OBVIOUS
<1>5. /\ comb \in [D \X Int -> Int]
      /\ \A T \in D, v \in Int : T # {} => comb[<<T, v>>] = f[Some(T)] + v
  <2>1. \A T \in D : T # {} => f[Some(T)] \in Int
    BY <1>1 DEF Some
  <2> QED BY <2>1
<1>6. Stop \subseteq D /\ \A T : T \in Stop <=> T = {}
  OBVIOUS
<1>7. \A T \in D \ Stop : m[g[T]] < m[T]
  <2> SUFFICES ASSUME NEW T \in D, T # {} PROVE m[g[T]] < m[T]
    BY <1>6
  <2>1. T \ {Some(T)} \in D /\ Cardinality(T \ {Some(T)}) < Cardinality(T)
    BY <1>1, Smaller
  <2> QED BY <1>2, <1>3, <2>1
<1> HIDE DEF D, Stop, g, m, base, comb
<1>8. LoopOver(D, Int, Stop, g, m, base, comb)
  BY <1>2, <1>3, <1>4, <1>5, <1>6, <1>7 DEF LoopOver
<1>9. PICK h \in [D -> Int] : \A T \in D : h[T] = LoopRound(Stop, g, base, comb, h, T)
  BY <1>8, LoopReturns
<1>10. \A T \in D : h[T] = IF T = {} THEN 0 ELSE f[Some(T)] + h[T \ {Some(T)}]
  <2> SUFFICES ASSUME NEW T \in D
               PROVE  h[T] = IF T = {} THEN 0 ELSE f[Some(T)] + h[T \ {Some(T)}]
    OBVIOUS
  <2>1. h[T] = IF T = {} THEN 0 ELSE comb[<<T, h[g[T]]>>]
    BY <1>4, <1>6, <1>9 DEF LoopRound
  <2>2. h[g[T]] \in Int /\ g[T] = T \ {Some(T)}
    BY <1>2
  <2> QED BY <1>5, <2>1, <2>2
<1>11. IsSum(h, f, S)
  <2>1. h = [T \in D |-> IF T = {} THEN 0 ELSE f[Some(T)] + h[T \ {Some(T)}]]
    BY <1>10
  <2> QED BY <2>1 DEF IsSum, D
<1> DEFINE F == CHOOSE k : IsSum(k, f, S)
<1>12. IsSum(F, f, S)
  BY <1>11
<1>13. SumFunctionOnSet(f, S) = F[S]
  BY SumIsFold
<1> HIDE DEF F
<1>14. F = h
  <2>1. \A T \in D : F[T] = IF T = {} THEN 0 ELSE f[Some(T)] + F[T \ {Some(T)}]
    BY <1>12 DEF IsSum, D
  <2> DEFINE B == {T \in D : F[T] # h[T]}
  <2>2. ASSUME NEW T \in B PROVE T # {} /\ \E x \in T : T \ {x} \in B
    <3>1. T # {} /\ T \in D
      BY <1>10, <2>1
    <3>2. Some(T) \in T /\ T \ {Some(T)} \in D
      BY <3>1 DEF Some, D
    <3>3. F[T \ {Some(T)}] # h[T \ {Some(T)}]
      BY <1>10, <2>1, <3>1
    <3> QED BY <3>1, <3>2, <3>3
  <2>3. B \subseteq SUBSET S
    BY DEF D
  <2>4. IsFiniteSet(S)
    BY <1>1
  <2> HIDE DEF B
  <2>6. B = {}
    BY <2>2, <2>3, <2>4, NoneSmallest
  <2>7. F = [T \in D |-> F[T]]
    BY <1>12 DEF IsSum, D
  <2> QED BY <2>6, <2>7 DEF B
<1> QED BY <1>11, <1>13, <1>14 DEF D

(* A sum over a part of the set is what the recursion has on the way.        *)
LEMMA SumOfPart ==
    ASSUME NEW f, NEW S, IsFiniteSet(S), NEW T \in SUBSET S, NEW h, NEW k,
           IsSum(h, f, S), IsSum(k, f, T)
    PROVE  h[T] = k[T]
<1> DEFINE B == {U \in SUBSET T : h[U] # k[U]}
<1>1. /\ \A U \in SUBSET S : h[U] = IF U = {} THEN 0 ELSE f[Some(U)] + h[U \ {Some(U)}]
      /\ \A U \in SUBSET T : k[U] = IF U = {} THEN 0 ELSE f[Some(U)] + k[U \ {Some(U)}]
  BY DEF IsSum
<1>2. ASSUME NEW U \in B PROVE U # {} /\ \E x \in U : U \ {x} \in B
  <2>1. U # {} /\ U \in SUBSET T /\ U \in SUBSET S
    BY <1>1
  <2>2. Some(U) \in U /\ U \ {Some(U)} \in SUBSET T
    BY <2>1 DEF Some
  <2>3. h[U \ {Some(U)}] # k[U \ {Some(U)}]
    BY <1>1, <2>1
  <2> QED BY <2>1, <2>2, <2>3
<1>3. IsFiniteSet(T) /\ B \subseteq SUBSET T
  BY FS_Subset
<1>4. B = {}
  <2> HIDE DEF B
  <2> QED BY <1>2, <1>3, NoneSmallest
<1> QED BY <1>4

(* The sum over a set is that of one of its elements and of the others.      *)
LEMMA SumTakesOne ==
    ASSUME NEW f, NEW S, Summable(f, S)
    PROVE  /\ SumFunctionOnSet(f, S) \in Int
           /\ S = {} => SumFunctionOnSet(f, S) = 0
           /\ S # {} => /\ Some(S) \in S /\ Summable(f, S \ {Some(S)})
                        /\ SumFunctionOnSet(f, S)
                             = f[Some(S)] + SumFunctionOnSet(f, S \ {Some(S)})
<1>1. PICK h \in [SUBSET S -> Int] : IsSum(h, f, S) /\ SumFunctionOnSet(f, S) = h[S]
  BY SumRuns
<1>2. S \in SUBSET S /\ h[S] \in Int
  OBVIOUS
<1>3. h[S] = IF S = {} THEN 0 ELSE f[Some(S)] + h[S \ {Some(S)}]
  BY <1>1, <1>2 DEF IsSum
<1>4. ASSUME S # {}
      PROVE  /\ Some(S) \in S /\ Summable(f, S \ {Some(S)})
             /\ h[S \ {Some(S)}] = SumFunctionOnSet(f, S \ {Some(S)})
  <2> DEFINE T == S \ {Some(S)}
  <2>1. Some(S) \in S /\ T \in SUBSET S
    BY <1>4 DEF Some
  <2>2. IsFiniteSet(S) /\ Summable(f, T)
    BY <2>1, FS_Subset DEF Summable
  <2> HIDE DEF T
  <2>3. PICK k \in [SUBSET T -> Int] : IsSum(k, f, T) /\ SumFunctionOnSet(f, T) = k[T]
    BY <2>2, SumRuns
  <2>4. h[T] = k[T]
    BY <1>1, <2>1, <2>2, <2>3, SumOfPart
  <2> QED BY <2>1, <2>2, <2>3, <2>4 DEF T
<1> QED BY <1>1, <1>2, <1>3, <1>4

(* Whichever of its elements it is.                                          *)
LEMMA SumTakesAny ==
    ASSUME NEW f, NEW S, Summable(f, S), NEW x \in S
    PROVE  SumFunctionOnSet(f, S) = f[x] + SumFunctionOnSet(f, S \ {x})
<1> DEFINE Sum(T) == SumFunctionOnSet(f, T)
           B == {T \in SUBSET S : \E y \in T : Sum(T) # f[y] + Sum(T \ {y})}
<1>1. \A T \in SUBSET S : Summable(f, T)
  BY FS_Subset DEF Summable
<1>2. ASSUME NEW T \in B PROVE T # {} /\ \E y \in T : T \ {y} \in B
  <2>1. PICK y \in T : Sum(T) # f[y] + Sum(T \ {y})
    OBVIOUS
  <2> DEFINE c == Some(T)
             U == (T \ {c}) \ {y}
  <2>2. /\ Summable(f, T) /\ T # {} /\ T \in SUBSET S
        /\ T \ {y} \in SUBSET S /\ T \ {c} \in SUBSET S /\ U \in SUBSET S
    BY <1>1
  <2>3. c \in T /\ Sum(T) = f[c] + Sum(T \ {c})
    BY <2>2, SumTakesOne
  <2>4. c # y
    BY <2>1, <2>3
  <2>5. U = (T \ {y}) \ {c} /\ c \in T \ {y} /\ y \in T \ {c}
    BY <2>3, <2>4
  <2>6. f[c] \in Int /\ f[y] \in Int /\ Sum(U) \in Int
    <3>1. Summable(f, U)
      BY <1>1, <2>2
    <3>2. Sum(U) \in Int
      BY <3>1, SumTakesOne
    <3> QED BY <2>2, <2>3, <3>2 DEF Summable
  <2> HIDE DEF c, U, Sum
  <2>7. ASSUME T \ {c} \notin B, T \ {y} \notin B PROVE FALSE
    <3>1. Sum(T \ {c}) = f[y] + Sum((T \ {c}) \ {y})
      BY <2>2, <2>5, <2>7
    <3>2. Sum(T \ {y}) = f[c] + Sum((T \ {y}) \ {c})
      BY <2>2, <2>5, <2>7
    <3>3. Sum(T \ {c}) = f[y] + Sum(U) /\ Sum(T \ {y}) = f[c] + Sum(U)
      BY <2>5, <3>1, <3>2 DEF U
    <3> QED BY <2>1, <2>3, <2>6, <3>3
  <2> QED BY <2>2, <2>3, <2>7
<1>3. IsFiniteSet(S) /\ B \subseteq SUBSET S
  BY DEF Summable
<1>4. B = {}
  <2> HIDE DEF B
  <2> QED BY <1>2, <1>3, NoneSmallest
<1> QED BY <1>4

\* g is f but for one number, which is d more.
MovedAt(f, g, S, x, d) == \A y \in S : g[y] = IF y = x THEN f[y] + d ELSE f[y]

(* A sum of which one number grows grows by as much.                         *)
LEMMA SumMoves ==
    ASSUME NEW f, NEW S, Summable(f, S), NEW x, NEW d \in Int, NEW g,
           MovedAt(f, g, S, x, d)
    PROVE  /\ Summable(g, S)
           /\ SumFunctionOnSet(g, S) = SumFunctionOnSet(f, S) + (IF x \in S THEN d ELSE 0)
<1> DEFINE SumF(T) == SumFunctionOnSet(f, T)
           SumG(T) == SumFunctionOnSet(g, T)
           B == {T \in SUBSET S : SumG(T) # SumF(T) + (IF x \in T THEN d ELSE 0)}
<1>0. Summable(g, S) /\ \A y \in S : g[y] = IF y = x THEN f[y] + d ELSE f[y]
  BY DEF Summable, MovedAt
<1>1. \A T \in SUBSET S : Summable(f, T) /\ Summable(g, T)
  BY <1>0, FS_Subset DEF Summable
<1>2. ASSUME NEW T \in B PROVE T # {} /\ \E y \in T : T \ {y} \in B
  <2>1. Summable(f, T) /\ Summable(g, T) /\ T \in SUBSET S
    BY <1>1
  <2>2. T # {}
    <3> SUFFICES ASSUME T = {} PROVE FALSE
      OBVIOUS
    <3>1. SumF(T) = 0 /\ SumG(T) = 0
      BY <2>1, SumTakesOne
    <3> QED BY <3>1
  <2> DEFINE c == Some(T)
             U == T \ {c}
  <2>3. c \in T /\ SumF(T) = f[c] + SumF(U) /\ SumG(T) = g[c] + SumG(U)
    BY <2>1, <2>2, SumTakesOne
  <2>4. f[c] \in Int /\ g[c] = IF c = x THEN f[c] + d ELSE f[c]
    BY <1>0, <2>1, <2>3 DEF Summable
  <2>5. SumF(U) \in Int /\ SumG(U) \in Int /\ U \in SUBSET S
    <3>1. U \in SUBSET S
      BY <2>1
    <3> HIDE DEF U
    <3>2. Summable(f, U) /\ Summable(g, U)
      BY <1>1, <3>1
    <3> QED BY <3>1, <3>2, SumTakesOne
  <2>6. SumG(T) # SumF(T) + (IF x \in T THEN d ELSE 0)
    OBVIOUS
  <2>7. x \in U <=> x \in T /\ x # c
    OBVIOUS
  <2> HIDE DEF SumF, SumG
  <2>8. SumG(U) # SumF(U) + (IF x \in U THEN d ELSE 0)
    <3> HIDE DEF U, c
    <3>1. CASE x = c
      BY <2>3, <2>4, <2>5, <2>6, <2>7, <3>1
    <3>2. CASE x # c
      BY <2>3, <2>4, <2>5, <2>6, <2>7, <3>2
    <3> QED BY <3>1, <3>2
  <2> QED BY <2>2, <2>3, <2>5, <2>8
<1>3. IsFiniteSet(S) /\ B \subseteq SUBSET S
  BY DEF Summable
<1>4. B = {}
  <2> HIDE DEF B
  <2> QED BY <1>2, <1>3, NoneSmallest
<1> QED BY <1>0, <1>4

(* A set holds at least the sum of a part of it, if nothing it adds is less  *)
(* than zero.                                                                *)
LEMMA SumOfMore ==
    ASSUME NEW f, NEW S, Summable(f, S), \A y \in S : f[y] >= 0, NEW P \in SUBSET S
    PROVE  SumFunctionOnSet(f, P) <= SumFunctionOnSet(f, S)
<1> DEFINE Sum(T) == SumFunctionOnSet(f, T)
           B == {T \in SUBSET S : P \subseteq T /\ ~(Sum(P) <= Sum(T))}
<1>1. \A T \in SUBSET S : Summable(f, T)
  BY FS_Subset DEF Summable
<1>2. ASSUME NEW T \in B PROVE T # {} /\ \E y \in T : T \ {y} \in B
  <2>1. Summable(f, T) /\ Summable(f, P) /\ T \in SUBSET S
    BY <1>1
  <2>2. Sum(P) \in Int /\ Sum(T) \in Int
    BY <2>1, SumTakesOne
  <2>3. PICK x \in T : x \notin P
    BY <2>2
  <2>4. Sum(T) = f[x] + Sum(T \ {x})
    BY <2>1, SumTakesAny
  <2>5. T \ {x} \in SUBSET S /\ P \subseteq T \ {x}
    BY <2>3
  <2>6. Sum(T \ {x}) \in Int
    BY <1>1, <2>5, SumTakesOne
  <2>7. f[x] \in Int /\ f[x] >= 0
    BY <2>1 DEF Summable
  <2> HIDE DEF Sum
  <2>8. ~(Sum(P) <= Sum(T \ {x}))
    BY <2>2, <2>4, <2>6, <2>7
  <2> QED BY <2>3, <2>5, <2>8
<1>3. IsFiniteSet(S) /\ B \subseteq SUBSET S
  BY DEF Summable
<1>4. B = {}
  <2> HIDE DEF B
  <2> QED BY <1>2, <1>3, NoneSmallest
<1> QED BY <1>4

\* k gives every member of S a member of P of its own, with at least its number.
Covers(f, S, g, P, k) ==
    /\ Summable(f, S) /\ Summable(g, P) /\ \A p \in P : g[p] >= 0
    /\ \A x \in S : k[x] \in P /\ f[x] <= g[k[x]]
    /\ \A x, y \in S : k[x] = k[y] => x = y

(* Then the sum over P is at least that over S.                              *)
LEMMA SumFits ==
    ASSUME NEW f, NEW S, NEW g, NEW P, NEW k, Covers(f, S, g, P, k)
    PROVE  SumFunctionOnSet(f, S) <= SumFunctionOnSet(g, P)
<1> DEFINE K(T) == {k[x] : x \in T}
           SumF(T) == SumFunctionOnSet(f, T)
           SumG(T) == SumFunctionOnSet(g, T)
           B == {T \in SUBSET S : ~(SumF(T) <= SumG(K(T)))}
<1>1. /\ Summable(f, S) /\ Summable(g, P) /\ \A p \in P : g[p] >= 0
      /\ \A x \in S : k[x] \in P /\ f[x] <= g[k[x]]
      /\ \A x, y \in S : k[x] = k[y] => x = y
  BY DEF Covers
<1>2. \A T \in SUBSET S : Summable(f, T) /\ K(T) \in SUBSET P
  BY <1>1, FS_Subset DEF Summable
<1>3. \A U \in SUBSET P : Summable(g, U)
  BY <1>1, FS_Subset DEF Summable
<1>4. ASSUME NEW T \in B PROVE T # {} /\ \E y \in T : T \ {y} \in B
  <2>1. Summable(f, T) /\ K(T) \in SUBSET P /\ Summable(g, K(T)) /\ T \in SUBSET S
    BY <1>2, <1>3
  <2>2. T # {}
    <3> SUFFICES ASSUME T = {} PROVE FALSE
      OBVIOUS
    <3>1. K(T) = {}
      OBVIOUS
    <3>2. SumF(T) = 0 /\ SumG(K(T)) = 0
      BY <2>1, <3>1, SumTakesOne
    <3> QED BY <3>2
  <2> DEFINE c == Some(T)
             U == T \ {c}
  <2>3. c \in T /\ SumF(T) = f[c] + SumF(U) /\ U \in SUBSET S
    BY <2>1, <2>2, SumTakesOne
  <2>4. k[c] \in K(T) /\ K(U) = K(T) \ {k[c]}
    BY <1>1, <2>1, <2>3
  <2>5. SumG(K(T)) = g[k[c]] + SumG(K(U))
    <3> DEFINE KT == K(T)
    <3>1. Summable(g, KT) /\ k[c] \in KT
      BY <2>1, <2>4
    <3> HIDE DEF KT
    <3>2. SumG(KT) = g[k[c]] + SumG(KT \ {k[c]})
      BY <3>1, SumTakesAny
    <3> QED BY <2>4, <3>2 DEF KT
  <2>6. SumF(U) \in Int /\ SumG(K(U)) \in Int
    <3>1. Summable(f, U) /\ Summable(g, K(U))
      BY <1>2, <1>3, <2>3
    <3> HIDE DEF U, K
    <3> QED BY <3>1, SumTakesOne
  <2>7. f[c] \in Int /\ g[k[c]] \in Int /\ f[c] <= g[k[c]]
    BY <1>1, <2>1, <2>3 DEF Summable
  <2>8. ~(SumF(T) <= SumG(K(T)))
    OBVIOUS
  <2> HIDE DEF SumF, SumG, K, c
  <2>9. ~(SumF(U) <= SumG(K(U)))
    BY <2>3, <2>5, <2>6, <2>7, <2>8
  <2> QED BY <2>2, <2>3, <2>9
<1>5. IsFiniteSet(S) /\ B \subseteq SUBSET S
  BY <1>1 DEF Summable
<1>6. B = {}
  <2> HIDE DEF B
  <2> QED BY <1>4, <1>5, NoneSmallest
<1>7. SumF(S) <= SumG(K(S))
  BY <1>6
<1>8. SumG(K(S)) <= SumG(P)
  <2>1. K(S) \in SUBSET P
    BY <1>2
  <2> HIDE DEF K
  <2> QED BY <1>1, <2>1, SumOfMore
<1>9. SumF(S) \in Int /\ SumG(K(S)) \in Int /\ SumG(P) \in Int
  <2>1. Summable(f, S) /\ Summable(g, P) /\ Summable(g, K(S))
    BY <1>1, <1>2, <1>3
  <2> HIDE DEF K
  <2> QED BY <2>1, SumTakesOne
<1> HIDE DEF SumF, SumG, K
<1>10. SumF(S) <= SumG(P)
  BY <1>7, <1>8, <1>9
<1> QED BY <1>10 DEF SumF, SumG

-----------------------------------------------------------------------------
\* The maximum flow (MaxFlow).
\* While nothing was pushed from the node of the sweep, none of the edges it has
\* passed is admissible; and no edge carries too much, no node owes.
NonePassedUp ==
    x_pc = "edges" /\ ~x_pushed =>
        \A v \in Vertices : v < x_v /\ Edge(x_u, v) /\ Residual(x_u, v) > 0
                               => n_height[x_u] # n_height[v] + 1
NothingOverfull ==
    /\ \A p \in Pairs : e_flow[p] <= e_cap[p]
    /\ \A v \in Vertices : n_excess[v] >= 0
FlowIInv ==
    /\ FlowTypeOK /\ HeightsFallByOne /\ NonePassedUp /\ NothingOverfull
    /\ x_pc = "idle" => n_height = [v \in Vertices |-> 0]
    /\ x_pc = "edges" => x_u \in Vertices

(* An edge is a pair of nodes, and its numbers are integers.                 *)
LEMMA EdgeTypes ==
    ASSUME FlowIInv, NEW u \in Vertices, NEW v \in Vertices, Edge(u, v)
    PROVE  /\ u # v /\ <<u, v>> \in Pairs /\ <<v, u>> \in Pairs
           /\ e_cap[<<u, v>>] \in Nat /\ e_flow[<<u, v>>] \in Int
           /\ Residual(u, v) \in Int /\ Residual(u, v) >= 0
           /\ n_height[u] \in Nat /\ n_height[v] \in Nat
<1>1. u # v /\ <<u, v>> \in Pairs /\ <<v, u>> \in Pairs
  BY DEF Edge, Pairs
<1>2. /\ e_cap[<<u, v>>] \in Nat /\ e_flow[<<u, v>>] \in Int
      /\ n_height[u] \in Nat /\ n_height[v] \in Nat
      /\ e_flow[<<u, v>>] <= e_cap[<<u, v>>]
  BY <1>1 DEF FlowIInv, FlowTypeOK, NothingOverfull
<1> QED BY <1>1, <1>2, SMT DEF Residual

(* The graph has no flow, no excess and no height at first.                  *)
LEMMA InitFlow == FlowInit => FlowIInv
<1> SUFFICES ASSUME FlowInit PROVE FlowIInv
  OBVIOUS
<1>1. NodeCount \in Nat
  BY FlowAssumption
<1>2. FlowTypeOK
  <2>1. 0 \in 0 .. NodeCount /\ 0 \in Nat /\ 0 \in Int
    BY <1>1, SMT
  <2> QED BY <2>1 DEF FlowInit, FlowTypeOK
<1>3. NothingOverfull
  BY SMT DEF FlowInit, NothingOverfull
<1> QED BY <1>2, <1>3 DEF FlowInit, FlowIInv, HeightsFallByOne, NonePassedUp

(* initialize_preflow(): the source's edges are full and it is high above.   *)
LEMMA CallKeeps ==
    ASSUME FlowIInv, CallMaxFlow
    PROVE  FlowIInv'
<1>1. PICK cap \in Capacities :
         /\ e_cap' = cap
         /\ e_flow' = [p \in Pairs |-> IF p[1] = Source THEN cap[p]
                                       ELSE IF p[2] = Source THEN -cap[<<Source, p[1]>>]
                                       ELSE 0]
         /\ n_excess' = [v \in Vertices |-> IF v = Source THEN 0 ELSE cap[<<Source, v>>]]
  BY DEF CallMaxFlow
<1>2. /\ x_pc = "idle" /\ x_pc' = "node" /\ n_height' = [n_height EXCEPT ![Source] = NodeCount]
      /\ UNCHANGED <<x_u, x_v, x_active, x_pushed>>
      /\ n_height = [v \in Vertices |-> 0]
      /\ NodeCount \in Nat /\ Source \in Vertices /\ cap \in [Pairs -> Nat]
  BY FlowAssumption DEF CallMaxFlow, FlowIInv
<1>3. \A v \in Vertices : v # Source => <<Source, v>> \in Pairs /\ cap[<<Source, v>>] \in Nat
  BY <1>2 DEF Pairs
<1>4. \A p \in Pairs :
         /\ p[1] \in Vertices /\ p[2] \in Vertices /\ p[1] # p[2] /\ cap[p] \in Nat
         /\ p = <<p[1], p[2]>>
  BY <1>2 DEF Pairs
<1>5. \A v \in Vertices : n_excess'[v] \in Nat
  <2> SUFFICES ASSUME NEW v \in Vertices PROVE n_excess'[v] \in Nat
    OBVIOUS
  <2>1. n_excess'[v] = IF v = Source THEN 0 ELSE cap[<<Source, v>>]
    BY <1>1
  <2> QED BY <1>3, <2>1
<1>6. ASSUME NEW p \in Pairs
      PROVE  e_flow'[p] \in Int /\ e_flow'[p] <= e_cap'[p]
  <2>1. e_flow'[p] = IF p[1] = Source THEN cap[p]
                     ELSE IF p[2] = Source THEN -cap[<<Source, p[1]>>] ELSE 0
    BY <1>1
  <2>2. cap[p] \in Nat /\ (p[1] # Source => cap[<<Source, p[1]>>] \in Nat)
    BY <1>3, <1>4
  <2> QED BY <1>1, <2>1, <2>2, SMT
<1>7. \A v \in Vertices : n_height'[v] = IF v = Source THEN NodeCount ELSE 0
  BY <1>2
<1>8. n_height' \in [Vertices -> Nat]
  BY <1>2
<1>9. FlowTypeOK'
  <2>1. n_excess' \in [Vertices -> Int] /\ e_flow' \in [Pairs -> Int]
    BY <1>1, <1>5, <1>6
  <2> QED BY <1>1, <1>2, <1>8, <2>1 DEF FlowIInv, FlowTypeOK
<1>10. NothingOverfull'
  BY <1>5, <1>6 DEF NothingOverfull
<1>11. ASSUME NEW u \in Vertices, NEW v \in Vertices, u # v,
              e_cap'[<<u, v>>] - e_flow'[<<u, v>>] > 0
       PROVE  n_height'[u] <= n_height'[v] + 1
  <2>1. <<u, v>> \in Pairs
    BY <1>11 DEF Pairs
  <2>2. u # Source
    <3> SUFFICES ASSUME u = Source PROVE FALSE
      OBVIOUS
    <3>1. e_flow'[<<u, v>>] = cap[<<u, v>>] /\ e_cap'[<<u, v>>] = cap[<<u, v>>]
      BY <1>1, <2>1
    <3> QED BY <1>2, <1>11, <2>1, <3>1, SMT
  <2> QED BY <1>2, <1>7, <2>2, SMT
<1>12. HeightsFallByOne'
  BY <1>11 DEF HeightsFallByOne, Edge, Residual
<1> QED BY <1>2, <1>9, <1>10, <1>12 DEF FlowIInv, NonePassedUp

(* What a push moves: something, and no more than there is and can pass.     *)
LEMMA PushedBounds ==
    ASSUME FlowIInv, AtEdge, Admissible
    PROVE  /\ x_u \in Vertices /\ x_v \in Vertices /\ Edge(x_u, x_v)
           /\ Pushed(x_u, x_v) \in Nat
           /\ Pushed(x_u, x_v) <= n_excess[x_u] /\ Pushed(x_u, x_v) <= Residual(x_u, x_v)
<1>1. x_u \in Vertices /\ x_v \in 0 .. NodeCount /\ x_v < NodeCount /\ NodeCount \in Nat
  BY FlowAssumption DEF AtEdge, FlowIInv, FlowTypeOK
<1>2. x_v \in Vertices
  BY <1>1, SMT DEF Vertices
<1>3. Edge(x_u, x_v)
  BY DEF Admissible
<1>4. n_excess[x_u] \in Nat /\ Residual(x_u, x_v) \in Nat
  <2>1. n_excess[x_u] \in Int /\ n_excess[x_u] >= 0
    BY <1>1 DEF FlowIInv, FlowTypeOK, NothingOverfull
  <2>2. Residual(x_u, x_v) \in Int /\ Residual(x_u, x_v) >= 0
    BY <1>1, <1>2, <1>3, EdgeTypes
  <2> QED BY <2>1, <2>2, SMT
<1> DEFINE T == {n_excess[x_u], Residual(x_u, x_v)}
<1>5. T \subseteq Nat /\ T # {} /\ n_excess[x_u] \in T /\ Residual(x_u, x_v) \in T
  BY <1>4
<1>6. Pushed(x_u, x_v) = Min(T)
  BY DEF Pushed
<1> HIDE DEF T
<1> QED BY <1>1, <1>2, <1>3, <1>5, <1>6, MinIsLeast

(* op_push() makes one edge carry more and no edge able to carry more.       *)
LEMMA PushFlowKeeps ==
    ASSUME FlowIInv, Push_uv
    PROVE  FlowIInv'
<1> DEFINE delta == Pushed(x_u, x_v)
           uv == <<x_u, x_v>>
<1>1. /\ AtEdge /\ Admissible
      /\ e_flow' = [e_flow EXCEPT ![uv] = @ + delta]
      /\ n_excess' = [n_excess EXCEPT ![x_u] = @ - delta, ![x_v] = @ + delta]
      /\ x_v' = IF n_excess[x_u] = delta THEN NodeCount ELSE x_v + 1
      /\ x_active' = TRUE /\ x_pushed' = TRUE
      /\ e_cap' = e_cap /\ n_height' = n_height /\ x_pc' = x_pc /\ x_u' = x_u
  BY DEF Push_uv
<1>2. /\ x_u \in Vertices /\ x_v \in Vertices /\ Edge(x_u, x_v) /\ delta \in Nat
      /\ delta <= n_excess[x_u] /\ delta <= Residual(x_u, x_v) /\ x_u # x_v
      /\ uv \in Pairs /\ e_cap[uv] \in Nat /\ e_flow[uv] \in Int
      /\ Residual(x_u, x_v) = e_cap[uv] - e_flow[uv]
  BY <1>1, PushedBounds, EdgeTypes DEF Residual
<1> HIDE DEF delta, uv
<1>3. /\ e_cap \in [Pairs -> Nat] /\ e_flow \in [Pairs -> Int]
      /\ n_excess \in [Vertices -> Int]
      /\ \A p \in Pairs : e_flow[p] <= e_cap[p]
      /\ \A v \in Vertices : n_excess[v] >= 0
      /\ NodeCount \in Nat
  BY FlowAssumption DEF FlowIInv, FlowTypeOK, NothingOverfull
<1>4. /\ e_flow' \in [Pairs -> Int]
      /\ \A p \in Pairs : e_flow'[p] = IF p = uv THEN e_flow[p] + delta ELSE e_flow[p]
  BY <1>1, <1>2, <1>3
<1>5. /\ n_excess' \in [Vertices -> Int]
      /\ \A v \in Vertices : n_excess'[v] = IF v = x_v THEN n_excess[v] + delta
                                            ELSE IF v = x_u THEN n_excess[v] - delta
                                            ELSE n_excess[v]
  BY <1>1, <1>2, <1>3
<1>6. \A p \in Pairs : e_flow'[p] <= e_cap'[p] /\ e_flow[p] <= e_flow'[p]
  <2> SUFFICES ASSUME NEW p \in Pairs
               PROVE  e_flow'[p] <= e_cap[p] /\ e_flow[p] <= e_flow'[p]
    BY <1>1
  <2>1. e_flow[p] \in Int /\ e_cap[p] \in Nat /\ e_flow[p] <= e_cap[p]
    BY <1>3
  <2>2. e_flow'[p] = IF p = uv THEN e_flow[p] + delta ELSE e_flow[p]
    BY <1>4
  <2>3. CASE p = uv
    BY <1>2, <2>2, <2>3, SMT
  <2> QED BY <2>1, <2>2, <2>3
<1>7. \A v \in Vertices : n_excess'[v] >= 0
  <2> SUFFICES ASSUME NEW v \in Vertices PROVE n_excess'[v] >= 0
    OBVIOUS
  <2>1. n_excess[v] \in Int /\ n_excess[v] >= 0
    BY <1>3
  <2> QED BY <1>2, <1>5, <2>1, SMT
<1>8. x_v' \in 0 .. NodeCount
  <2>1. x_v \in Nat /\ x_v < NodeCount
    BY <1>2, <1>3, SMT DEF Vertices
  <2>2. x_v + 1 \in 0 .. NodeCount /\ NodeCount \in 0 .. NodeCount
    BY <1>3, <2>1, SMT
  <2> QED BY <1>1, <2>2
<1>9. FlowTypeOK'
  BY <1>1, <1>4, <1>5, <1>8 DEF FlowIInv, FlowTypeOK
<1>10. ASSUME NEW u \in Vertices, NEW v \in Vertices, Edge(u, v), Residual(u, v)' > 0
       PROVE  Residual(u, v) > 0
  <2>1. <<u, v>> \in Pairs
    BY <1>10, EdgeTypes
  <2>2. /\ e_cap[<<u, v>>] \in Int /\ e_flow[<<u, v>>] \in Int /\ e_flow'[<<u, v>>] \in Int
        /\ e_flow[<<u, v>>] <= e_flow'[<<u, v>>]
    BY <1>3, <1>4, <1>6, <2>1
  <2> QED BY <1>1, <1>10, <2>2, SMT DEF Residual
<1>11. HeightsFallByOne'
  BY <1>1, <1>10 DEF FlowIInv, HeightsFallByOne, Edge
<1> QED BY <1>1, <1>2, <1>6, <1>7, <1>9, <1>11
        DEF FlowIInv, NothingOverfull, NonePassedUp, AtEdge

(* op_relabel() on a node with an edge that can carry more: its height grows, *)
(* to one more than the least height such an edge leads to.                  *)
LEMMA RelabelKeeps ==
    ASSUME FlowIInv, x_pc = "edges", x_v = NodeCount, ~x_pushed, Neighbours(x_u) # {},
           UNCHANGED <<e_cap, e_flow>>,
           n_height' = [n_height EXCEPT ![x_u] = Relabelled(x_u)]
    PROVE  n_height' \in [Vertices -> Nat] /\ HeightsFallByOne'
<1> DEFINE T == {n_height[v] : v \in Neighbours(x_u)}
           low == Min(T)
<1>1. /\ x_u \in Vertices /\ n_height \in [Vertices -> Nat] /\ NodeCount \in Nat
      /\ \A v \in Vertices : v < NodeCount
  BY FlowAssumption, SMT DEF FlowIInv, FlowTypeOK, Vertices
<1>2. low \in Nat /\ \A v \in Neighbours(x_u) : low <= n_height[v] /\ v \in Vertices
  <2>1. T \subseteq Nat /\ T # {} /\ \A v \in Neighbours(x_u) : n_height[v] \in T /\ v \in Vertices
    BY <1>1 DEF Neighbours
  <2>2. Min(T) \in T /\ \A n \in T : Min(T) <= n
    <3> HIDE DEF T
    <3> QED BY <2>1, MinIsLeast
  <2> QED BY <2>1, <2>2
<1>3. PICK w \in Neighbours(x_u) : n_height[w] = low
  <2>1. T \subseteq Nat /\ T # {}
    BY <1>1 DEF Neighbours
  <2>2. Min(T) \in T
    <3> HIDE DEF T
    <3> QED BY <2>1, MinIsLeast
  <2> QED BY <2>2
<1>4. Relabelled(x_u) = low + 1
  BY DEF Relabelled
<1> HIDE DEF low, T
<1>5. /\ n_height' \in [Vertices -> Nat]
      /\ \A v \in Vertices : n_height'[v] = IF v = x_u THEN low + 1 ELSE n_height[v]
  BY <1>1, <1>2, <1>4
<1>6. n_height[x_u] <= low
  <2>1. w \in Vertices /\ Edge(x_u, w) /\ Residual(x_u, w) > 0
    BY <1>3 DEF Neighbours
  <2>2. n_height[x_u] <= n_height[w] + 1
    BY <1>1, <2>1 DEF FlowIInv, HeightsFallByOne
  <2>3. n_height[x_u] # n_height[w] + 1
    BY <1>1, <2>1 DEF FlowIInv, NonePassedUp
  <2>4. n_height[x_u] \in Nat /\ n_height[w] \in Nat
    BY <1>1, <2>1
  <2> QED BY <1>3, <2>2, <2>3, <2>4, SMT
<1>7. ASSUME NEW u \in Vertices, NEW v \in Vertices, Edge(u, v), Residual(u, v) > 0
      PROVE  n_height'[u] <= n_height'[v] + 1
  <2>1. n_height[u] <= n_height[v] + 1 /\ u # v /\ n_height[u] \in Nat /\ n_height[v] \in Nat
    BY <1>7, EdgeTypes DEF FlowIInv, HeightsFallByOne
  <2>2. CASE u = x_u
    <3>1. v \in Neighbours(x_u)
      BY <1>7, <2>2 DEF Neighbours
    <3>2. low <= n_height[v] /\ n_height'[u] = low + 1 /\ n_height'[v] = n_height[v]
      BY <1>2, <1>5, <2>1, <2>2, <3>1
    <3> QED BY <1>2, <2>1, <3>2, SMT
  <2>3. CASE u # x_u /\ v = x_u
    <3>1. n_height'[u] = n_height[u] /\ n_height'[v] = low + 1
      BY <1>5, <2>3
    <3> QED BY <1>2, <1>6, <2>1, <2>3, <3>1, SMT
  <2>4. CASE u # x_u /\ v # x_u
    BY <1>5, <2>1, <2>4
  <2> QED BY <2>2, <2>3, <2>4
<1>8. HeightsFallByOne'
  BY <1>7 DEF HeightsFallByOne, Edge, Residual
<1> QED BY <1>5, <1>8

(* The rest of the sweep changes neither flow nor excess.                    *)
LEMMA SweepKeeps ==
    ASSUME FlowIInv, SkipNode \/ TakeNode \/ PassEdge \/ LeaveNode \/ SweepAgain \/ FlowReturns
    PROVE  FlowIInv'
<1> USE DEF graphVars
<1>0. /\ NodeCount \in Nat /\ x_u \in 0 .. NodeCount /\ x_v \in 0 .. NodeCount
  BY FlowAssumption DEF FlowIInv, FlowTypeOK
<1>1. CASE SkipNode
  <2>1. x_u + 1 \in 0 .. NodeCount
    BY <1>0, <1>1, SMT DEF SkipNode
  <2> QED BY <1>1, <2>1 DEF SkipNode, FlowIInv, FlowTypeOK, HeightsFallByOne, NonePassedUp,
                            NothingOverfull, Edge, Residual
<1>2. CASE TakeNode
  <2>1. x_u \in Vertices /\ 0 \in 0 .. NodeCount /\ \A v \in Vertices : ~(v < 0)
    BY <1>0, <1>2, SMT DEF TakeNode, Vertices
  <2> QED BY <1>2, <2>1 DEF TakeNode, FlowIInv, FlowTypeOK, HeightsFallByOne, NonePassedUp,
                            NothingOverfull, Edge, Residual
<1>3. CASE PassEdge
  <2>1. x_v + 1 \in 0 .. NodeCount /\ \A v \in Vertices : v < x_v + 1 => v < x_v \/ v = x_v
    BY <1>0, <1>3, SMT DEF PassEdge, AtEdge, Vertices
  <2>2. NonePassedUp'
    BY <1>3, <2>1 DEF PassEdge, AtEdge, Admissible, FlowIInv, NonePassedUp, Edge, Residual
  <2> QED BY <1>3, <2>1, <2>2 DEF PassEdge, AtEdge, FlowIInv, FlowTypeOK, HeightsFallByOne,
                                  NothingOverfull, Edge, Residual
<1>4. CASE LeaveNode
  <2>1. /\ x_pc = "edges" /\ x_v = NodeCount /\ x_u \in Vertices
        /\ x_u' = x_u + 1 /\ x_pc' = "node" /\ x_active' \in BOOLEAN
        /\ UNCHANGED <<e_cap, e_flow, n_excess, x_v, x_pushed>>
    BY <1>4 DEF LeaveNode, FlowIInv, FlowTypeOK
  <2>2. x_u' \in 0 .. NodeCount
    BY <1>0, <2>1, SMT DEF Vertices
  <2>3. n_height' \in [Vertices -> Nat] /\ HeightsFallByOne'
    <3>1. CASE n_height' = n_height
      BY <2>1, <3>1 DEF FlowIInv, FlowTypeOK, HeightsFallByOne, Edge, Residual
    <3>2. CASE ~(n_height' = n_height)
      <4>1. /\ ~x_pushed /\ Neighbours(x_u) # {}
            /\ n_height' = [n_height EXCEPT ![x_u] = Relabelled(x_u)]
        BY <1>4, <3>2 DEF LeaveNode
      <4> QED BY <2>1, <4>1, RelabelKeeps
    <3> QED BY <3>1, <3>2
  <2> QED BY <2>1, <2>2, <2>3 DEF FlowIInv, FlowTypeOK, NonePassedUp, NothingOverfull
<1>5. CASE SweepAgain
  <2>1. 0 \in 0 .. NodeCount
    BY <1>0, SMT
  <2> QED BY <1>5, <2>1 DEF SweepAgain, FlowIInv, FlowTypeOK, HeightsFallByOne, NonePassedUp,
                            NothingOverfull, Edge, Residual
<1>6. CASE FlowReturns
  BY <1>6 DEF FlowReturns, FlowIInv, FlowTypeOK, HeightsFallByOne, NonePassedUp,
              NothingOverfull, Edge, Residual
<1> QED BY <1>1, <1>2, <1>3, <1>4, <1>5, <1>6

(* Every step of the call keeps the invariant.                               *)
LEMMA FlowStep ==
    ASSUME FlowIInv, [FlowNext]_flowVars
    PROVE  FlowIInv'
<1>1. CASE UNCHANGED flowVars
  BY <1>1 DEF flowVars, FlowIInv, FlowTypeOK, HeightsFallByOne, NonePassedUp,
              NothingOverfull, Edge, Residual
<1> QED BY <1>1, CallKeeps, PushFlowKeeps, SweepKeeps DEF FlowNext, Sweep

-----------------------------------------------------------------------------
\* The sums of the flow.
\* What the edges out of a part of the network with the source in it carry is
\* enough for all the excess beyond them.
BeyondIsCarried ==
    \A S \in SUBSET Vertices : Source \in S =>
        SumFunctionOnSet(n_excess, Vertices \ S) <= SumFunctionOnSet(e_flow, Crossing(S))

\* What left the source is at the nodes.
NothingLost ==
    SumFunctionOnSet(n_excess, Vertices) = SumFunctionOnSet(FromSource, Vertices)

SumsIInv ==
    /\ x_pc = "idle" => n_excess = [v \in Vertices |-> 0]
    /\ x_pc # "idle" => BeyondIsCarried /\ NothingLost

(* The sums are over finite sets of integers.                                *)
LEMMA FlowSummable ==
    ASSUME FlowTypeOK
    PROVE  /\ IsFiniteSet(Vertices) /\ IsFiniteSet(Pairs)
           /\ \A T \in SUBSET Vertices : Summable(n_excess, T)
           /\ \A T \in SUBSET Pairs : Summable(e_flow, T) /\ Summable(e_cap, T)
<1>1. IsFiniteSet(Vertices)
  BY FlowAssumption, FS_Interval DEF Vertices
<1>2. IsFiniteSet(Pairs)
  <2>1. IsFiniteSet(Vertices \X Vertices)
    BY <1>1, FS_Product
  <2> QED BY <2>1, FS_Subset DEF Pairs
<1>3. ASSUME NEW T \in SUBSET Vertices PROVE Summable(n_excess, T)
  BY <1>1, FS_Subset DEF Summable, FlowTypeOK
<1>4. ASSUME NEW T \in SUBSET Pairs PROVE Summable(e_flow, T) /\ Summable(e_cap, T)
  BY <1>2, FS_Subset DEF Summable, FlowTypeOK
<1> QED BY <1>1, <1>2, <1>3, <1>4

(* initialize_preflow(): the source's edges carry what its neighbours have.  *)
LEMMA CallSums ==
    ASSUME FlowIInv, FlowIInv', CallMaxFlow
    PROVE  SumsIInv'
<1>1. PICK cap \in Capacities :
         /\ e_cap' = cap
         /\ e_flow' = [p \in Pairs |-> IF p[1] = Source THEN cap[p]
                                       ELSE IF p[2] = Source THEN -cap[<<Source, p[1]>>]
                                       ELSE 0]
         /\ n_excess' = [v \in Vertices |-> IF v = Source THEN 0 ELSE cap[<<Source, v>>]]
  BY DEF CallMaxFlow
<1>2. x_pc' = "node" /\ cap \in [Pairs -> Nat] /\ Source \in Vertices
  BY FlowAssumption DEF CallMaxFlow
<1>3. NothingLost'
  BY <1>1 DEF NothingLost, FromSource
<1>4. ASSUME NEW S \in SUBSET Vertices, Source \in S
      PROVE  SumFunctionOnSet(n_excess', Vertices \ S) <= SumFunctionOnSet(e_flow', Crossing(S))
  <2> DEFINE T == Vertices \ S
             P == Crossing(S)
             k == [v \in T |-> <<Source, v>>]
  <2>1. /\ \A v \in T : <<Source, v>> \in P /\ <<Source, v>> \in Pairs /\ v # Source
        /\ \A p \in P : p \in Pairs /\ p[2] # Source
    BY <1>2, <1>4 DEF Crossing, Pairs
  <2>2. \A p \in P : e_flow'[p] >= 0
    <3> SUFFICES ASSUME NEW p \in P PROVE e_flow'[p] >= 0
      OBVIOUS
    <3>1. e_flow'[p] = (IF p[1] = Source THEN cap[p] ELSE 0) /\ cap[p] \in Nat
      BY <1>1, <1>2, <2>1
    <3> QED BY <3>1
  <2>3. \A v \in T : n_excess'[v] = cap[<<Source, v>>] /\ e_flow'[<<Source, v>>] = cap[<<Source, v>>]
                     /\ cap[<<Source, v>>] \in Nat
    BY <1>1, <1>2, <2>1
  <2>4. Summable(n_excess', T) /\ Summable(e_flow', P)
    <3>1. FlowTypeOK' /\ T \in SUBSET Vertices /\ P \in SUBSET Pairs
      BY <2>1 DEF FlowIInv
    <3>2. IsFiniteSet(T) /\ IsFiniteSet(P)
      BY <3>1, FlowSummable, FS_Subset DEF FlowIInv
    <3> QED BY <3>1, <3>2 DEF Summable, FlowTypeOK
  <2>5. /\ \A v \in T : k[v] \in P /\ n_excess'[v] <= e_flow'[k[v]]
        /\ \A u, v \in T : k[u] = k[v] => u = v
    BY <2>1, <2>3
  <2> HIDE DEF T, P, k
  <2>6. Covers(n_excess', T, e_flow', P, k)
    BY <2>2, <2>4, <2>5 DEF Covers
  <2>7. SumFunctionOnSet(n_excess', T) <= SumFunctionOnSet(e_flow', P)
    BY <2>6, SumFits
  <2> QED BY <2>7 DEF T, P
<1>5. BeyondIsCarried'
  BY <1>4 DEF BeyondIsCarried, Crossing
<1> QED BY <1>2, <1>3, <1>5 DEF SumsIInv

(* op_push() moves excess over an edge, and the edge carries it.             *)
LEMMA PushSums ==
    ASSUME FlowIInv, SumsIInv, Push_uv
    PROVE  SumsIInv'
<1> DEFINE d == Pushed(x_u, x_v)
           uv == <<x_u, x_v>>
           mid == [n_excess EXCEPT ![x_u] = @ - d]
<1>1. /\ AtEdge /\ Admissible /\ x_pc' = x_pc /\ x_pc = "edges" /\ e_cap' = e_cap
      /\ e_flow' = [e_flow EXCEPT ![uv] = @ + d]
      /\ n_excess' = [n_excess EXCEPT ![x_u] = @ - d, ![x_v] = @ + d]
  BY DEF Push_uv, AtEdge
<1>2. /\ x_u \in Vertices /\ x_v \in Vertices /\ d \in Nat /\ x_u # x_v /\ uv \in Pairs
  BY <1>1, PushedBounds, EdgeTypes
<1>3. BeyondIsCarried /\ NothingLost
  BY <1>1 DEF SumsIInv
<1>4. /\ e_flow \in [Pairs -> Int] /\ n_excess \in [Vertices -> Int]
      /\ d \in Int /\ -d \in Int
      /\ \A T \in SUBSET Vertices : Summable(n_excess, T)
      /\ \A T \in SUBSET Pairs : Summable(e_flow, T)
  BY <1>2, FlowSummable DEF FlowIInv, FlowTypeOK
<1>5. uv = <<x_u, x_v>>
  OBVIOUS
<1> HIDE DEF d, uv
<1>6. /\ \A v \in Vertices : mid[v] = IF v = x_u THEN n_excess[v] + (-d) ELSE n_excess[v]
      /\ \A v \in Vertices : n_excess'[v] = IF v = x_v THEN mid[v] + d ELSE mid[v]
      /\ \A p \in Pairs : e_flow'[p] = IF p = uv THEN e_flow[p] + d ELSE e_flow[p]
  BY <1>1, <1>2, <1>4
<1> HIDE DEF mid
<1>7. ASSUME NEW T \in SUBSET Vertices
      PROVE  /\ SumFunctionOnSet(n_excess', T)
                  = SumFunctionOnSet(n_excess, T) + (IF x_u \in T THEN -d ELSE 0)
                                                  + (IF x_v \in T THEN d ELSE 0)
             /\ SumFunctionOnSet(n_excess, T) \in Int
  <2>1. Summable(n_excess, T)
    BY <1>4
  <2>2. MovedAt(n_excess, mid, T, x_u, -d)
    BY <1>6 DEF MovedAt
  <2>3. /\ Summable(mid, T)
        /\ SumFunctionOnSet(mid, T)
             = SumFunctionOnSet(n_excess, T) + (IF x_u \in T THEN -d ELSE 0)
    BY <1>4, <2>1, <2>2, SumMoves
  <2>4. MovedAt(mid, n_excess', T, x_v, d)
    BY <1>6 DEF MovedAt
  <2>5. SumFunctionOnSet(n_excess', T)
          = SumFunctionOnSet(mid, T) + (IF x_v \in T THEN d ELSE 0)
    BY <1>4, <2>3, <2>4, SumMoves
  <2>6. SumFunctionOnSet(n_excess, T) \in Int
    BY <2>1, SumTakesOne
  <2> QED BY <2>3, <2>5, <2>6
<1>8. NothingLost'
  <2>1. SumFunctionOnSet(n_excess', Vertices) = SumFunctionOnSet(n_excess, Vertices)
    BY <1>2, <1>4, <1>7
  <2>2. FromSource' = FromSource
    BY <1>1 DEF FromSource
  <2> QED BY <1>3, <2>1, <2>2 DEF NothingLost
<1>9. ASSUME NEW S \in SUBSET Vertices, Source \in S
      PROVE  SumFunctionOnSet(n_excess', Vertices \ S) <= SumFunctionOnSet(e_flow', Crossing(S))
  <2> DEFINE T == Vertices \ S
             P == Crossing(S)
  <2>1. T \in SUBSET Vertices /\ P \in SUBSET Pairs
    BY DEF Crossing
  <2>2. SumFunctionOnSet(n_excess, T) <= SumFunctionOnSet(e_flow, P)
    BY <1>3, <1>9 DEF BeyondIsCarried
  <2>3. /\ x_u \in T <=> x_u \notin S
        /\ x_v \in T <=> x_v \notin S
        /\ uv \in P <=> x_u \in S /\ x_v \notin S
    BY <1>2, <1>5 DEF Crossing
  <2> HIDE DEF T, P
  <2>4. /\ SumFunctionOnSet(e_flow', P) = SumFunctionOnSet(e_flow, P) + (IF uv \in P THEN d ELSE 0)
        /\ SumFunctionOnSet(e_flow, P) \in Int
    <3>1. Summable(e_flow, P) /\ MovedAt(e_flow, e_flow', P, uv, d)
      BY <1>4, <1>6, <2>1 DEF MovedAt
    <3>2. SumFunctionOnSet(e_flow', P) = SumFunctionOnSet(e_flow, P) + (IF uv \in P THEN d ELSE 0)
      BY <1>4, <3>1, SumMoves
    <3>3. SumFunctionOnSet(e_flow, P) \in Int
      BY <3>1, SumTakesOne
    <3> QED BY <3>2, <3>3
  <2>5. /\ SumFunctionOnSet(n_excess', T)
             = SumFunctionOnSet(n_excess, T) + (IF x_u \in T THEN -d ELSE 0)
                                             + (IF x_v \in T THEN d ELSE 0)
        /\ SumFunctionOnSet(n_excess, T) \in Int
    BY <1>7, <2>1
  <2>6. SumFunctionOnSet(n_excess', T) <= SumFunctionOnSet(e_flow', P)
    BY <1>2, <2>2, <2>3, <2>4, <2>5
  <2> QED BY <2>6 DEF T, P
<1>10. BeyondIsCarried'
  BY <1>9 DEF BeyondIsCarried, Crossing
<1> QED BY <1>1, <1>8, <1>10 DEF SumsIInv

(* No other step changes the flow or the excess, once a call has begun.      *)
LEMMA SumsStep ==
    ASSUME FlowIInv, FlowIInv', SumsIInv, [FlowNext]_flowVars
    PROVE  SumsIInv'
<1>1. CASE CallMaxFlow
  BY <1>1, CallSums
<1>2. CASE Push_uv
  BY <1>2, PushSums
<1>3. ASSUME UNCHANGED <<e_cap, e_flow, n_excess>>, x_pc' = "idle" <=> x_pc = "idle"
      PROVE  SumsIInv'
  <2>1. e_cap' = e_cap /\ e_flow' = e_flow /\ n_excess' = n_excess
    BY <1>3
  <2>2. BeyondIsCarried => BeyondIsCarried'
    BY <2>1 DEF BeyondIsCarried, Crossing
  <2>3. NothingLost => NothingLost'
    BY <2>1 DEF NothingLost, FromSource
  <2> QED BY <1>3, <2>1, <2>2, <2>3 DEF SumsIInv
<1>4. CASE SkipNode \/ TakeNode \/ PassEdge \/ LeaveNode \/ SweepAgain \/ FlowReturns
           \/ UNCHANGED flowVars
  BY <1>3, <1>4 DEF SkipNode, TakeNode, PassEdge, AtEdge, LeaveNode, SweepAgain, FlowReturns,
                    graphVars, flowVars
<1> QED BY <1>1, <1>2, <1>4 DEF FlowNext, Sweep

(* Nothing is at the nodes before the call.                                  *)
LEMMA InitSums == FlowInit => SumsIInv
BY DEF FlowInit, SumsIInv

(* What the invariant says of a cut: the sink has no more than passes it.    *)
LEMMA SinkBelowCut ==
    ASSUME FlowIInv, SumsIInv, NEW S \in SUBSET Vertices, Source \in S, Sink \notin S
    PROVE  Cut(S) \in Nat /\ n_excess[Sink] <= Cut(S)
<1> DEFINE T == Vertices \ S
           P == Crossing(S)
<1>1. /\ T \in SUBSET Vertices /\ P \in SUBSET Pairs /\ Sink \in T
      /\ e_flow \in [Pairs -> Int] /\ e_cap \in [Pairs -> Nat] /\ n_excess \in [Vertices -> Int]
      /\ \A p \in Pairs : e_flow[p] <= e_cap[p]
      /\ \A v \in Vertices : n_excess[v] >= 0
  BY FlowAssumption DEF Crossing, FlowIInv, FlowTypeOK, NothingOverfull
<1>2. Cut(S) = SumFunctionOnSet(e_cap, P)
  BY DEF Cut
<1>3. (x_pc # "idle") => SumFunctionOnSet(n_excess, T) <= SumFunctionOnSet(e_flow, P)
  BY DEF SumsIInv, BeyondIsCarried
<1> HIDE DEF T, P
<1>4. /\ Summable(n_excess, T) /\ Summable(e_flow, P) /\ Summable(e_cap, P)
      /\ \A p \in P : e_cap[p] >= 0
  BY <1>1, FlowSummable DEF FlowIInv
<1>5. /\ SumFunctionOnSet(n_excess, T) \in Int /\ SumFunctionOnSet(e_flow, P) \in Int
      /\ SumFunctionOnSet(e_cap, P) \in Int /\ n_excess[Sink] \in Int
  BY <1>1, <1>4, SumTakesOne
<1>6. SumFunctionOnSet(e_cap, P) >= 0
  <2>1. SumFunctionOnSet(e_cap, {}) <= SumFunctionOnSet(e_cap, P)
    BY <1>4, SumOfMore
  <2>2. Summable(e_cap, {})
    BY FS_EmptySet DEF Summable
  <2>3. SumFunctionOnSet(e_cap, {}) = 0
    BY <2>2, SumTakesOne
  <2> QED BY <1>5, <2>1, <2>3
<1>7. CASE x_pc = "idle"
  <2>1. n_excess[Sink] = 0
    BY <1>7, FlowAssumption DEF SumsIInv
  <2> QED BY <1>2, <1>5, <1>6, <2>1
<1>8. CASE x_pc # "idle"
  <2>1. n_excess[Sink] <= SumFunctionOnSet(n_excess, T)
    <3> DEFINE One == {Sink}
    <3>1. One \in SUBSET T /\ \A v \in T : n_excess[v] >= 0
      BY <1>1
    <3>2. Summable(n_excess, One)
      BY <1>1, <3>1, FS_Singleton DEF Summable
    <3>3. Sink \in One /\ One \ {Sink} = {}
      OBVIOUS
    <3> HIDE DEF One
    <3>4. SumFunctionOnSet(n_excess, One) <= SumFunctionOnSet(n_excess, T)
      BY <1>4, <3>1, SumOfMore
    <3>5. SumFunctionOnSet(n_excess, One) = n_excess[Sink] + SumFunctionOnSet(n_excess, {})
      BY <3>2, <3>3, SumTakesAny
    <3>6. Summable(n_excess, {})
      BY FS_EmptySet DEF Summable
    <3>7. SumFunctionOnSet(n_excess, {}) = 0
      BY <3>6, SumTakesOne
    <3> QED BY <1>5, <3>4, <3>5, <3>7
  <2>2. SumFunctionOnSet(e_flow, P) <= SumFunctionOnSet(e_cap, P)
    <3> DEFINE k == [p \in P |-> p]
    <3>1. /\ \A p \in P : k[p] \in P /\ e_flow[p] <= e_cap[k[p]]
          /\ \A p, q \in P : k[p] = k[q] => p = q
      BY <1>1
    <3> HIDE DEF k
    <3>2. Covers(e_flow, P, e_cap, P, k)
      BY <1>4, <3>1 DEF Covers
    <3> QED BY <3>2, SumFits
  <2> QED BY <1>2, <1>3, <1>5, <1>6, <1>8, <2>1, <2>2
<1> QED BY <1>7, <1>8

(* The sink never has more than the least cut lets through.                  *)
LEMMA FlowIsPreflow ==
    ASSUME FlowIInv, SumsIInv
    PROVE  Preflow
<1> DEFINE Cuts == {Cut(S \cup {Source}) : S \in SUBSET (Vertices \ {Source, Sink})}
<1>1. ASSUME NEW S \in SUBSET (Vertices \ {Source, Sink})
      PROVE  Cut(S \cup {Source}) \in Nat /\ n_excess[Sink] <= Cut(S \cup {Source})
  <2> DEFINE U == S \cup {Source}
  <2>1. U \in SUBSET Vertices /\ Source \in U /\ Sink \notin U
    BY FlowAssumption
  <2> HIDE DEF U
  <2>2. Cut(U) \in Nat /\ n_excess[Sink] <= Cut(U)
    BY <2>1, SinkBelowCut
  <2> QED BY <2>2 DEF U
<1>2. Cuts \subseteq Nat /\ \A c \in Cuts : n_excess[Sink] <= c
  BY <1>1
<1>3. Cuts # {}
  <2>1. {} \in SUBSET (Vertices \ {Source, Sink})
    OBVIOUS
  <2> QED BY <2>1
<1>4. LeastCut = Min(Cuts)
  BY DEF LeastCut
<1> HIDE DEF Cuts
<1>5. n_excess[Sink] <= LeastCut
  BY <1>2, <1>3, <1>4, MinIsLeast
<1> QED BY <1>5 DEF FlowIInv, SumsIInv, NothingOverfull, NothingLost, Preflow

-----------------------------------------------------------------------------
\* The persistent ingest program (PersistentIngest).
FileBlocks == FileSize \div AlignedReq
WholeRow(row, d) == \A b \in Octets : IF b <= d.len THEN row[b] = d.id ELSE row[b] < d.id

\* A block holds zeros or a datagram of this run with older bytes behind it.
RowOfRun(row, first, last) ==
    \/ \A b \in Octets : row[b] = 0
    \/ \E id \in first .. last, len \in Octets : WholeRow(row, [id |-> id, len |-> len])
RowsOfRun ==
    \A s \in Blocks :
        /\ \A b \in Octets : f_file[s][b] <= f_received /\ f_file[s][b] \notin 1 .. f_before
        /\ RowOfRun(f_file[s], f_before + 1, f_received)

\* What the history w of a cycle headed by block h received is in the file.
KeptBlocks(file, w, h) ==
    \A k \in DOMAIN w :
        w[k].id # 0 => WholeRow(file[Back(FileBlocks, h, Len(w) - k)], w[k])

\* Block h is the one that is received into next.
NextBlock(h) ==
    /\ f_pc \in {"extend", "reserve", "count"} =>
          f_offset = h * AlignedReq \/ (h = 0 /\ f_offset = FileBlocks * AlignedReq)
    /\ f_pc = "recv" => BlockAt(f_buffer) = h /\ f_offset = (h + 1) * AlignedReq
    /\ KeptBlocks(f_file, f_window, h)

FileIInv ==
    /\ PersistentTypeOK /\ Len(f_window) <= FileBlocks
    /\ f_packets + (IF f_pc = "count" THEN 1 ELSE 0) <= f_received
    /\ RowsOfRun
    /\ \E h \in Blocks : NextBlock(h)

(* The file has blocks, of a size that is not zero.                          *)
LEMMA BlockCount ==
    /\ AlignedReq \in Nat \ {0} /\ FileBlocks \in Nat \ {0}
    /\ Blocks = 0 .. FileBlocks - 1 /\ Cardinality(Blocks) = FileBlocks
<1>1. AlignedReq \in Nat \ {0}
  <2> DEFINE x == Asked + CacheLine - 1
             q == x \div CacheLine
  <2>1. x \in Nat /\ CacheLine \in Nat \ {0} /\ 0 * CacheLine + CacheLine <= x
    BY PersistentAssumption, SMT
  <2>2. 0 + 1 <= q
    BY <2>1, FitsIsSlot
  <2>3. q \in Int
    BY <2>1, SMT
  <2>4. AlignedReq = q * CacheLine
    BY DEF AlignedReq
  <2> HIDE DEF q, x
  <2> QED BY <2>1, <2>2, <2>3, <2>4, SMT
<1>2. FileBlocks \in Nat \ {0}
  <2>1. FileSize \in Nat /\ 0 * AlignedReq + AlignedReq <= FileSize
    BY <1>1, PersistentAssumption, SMT
  <2>2. 0 + 1 <= FileSize \div AlignedReq
    BY <1>1, <2>1, FitsIsSlot
  <2>3. FileSize \div AlignedReq \in Int
    BY <1>1, <2>1, SMT
  <2> QED BY <2>2, <2>3, SMT DEF FileBlocks
<1>3. Blocks = 0 .. FileBlocks - 1
  BY DEF Blocks, FileBlocks
<1> HIDE DEF FileBlocks
<1>4. Cardinality(0 .. FileBlocks - 1) = FileBlocks
  BY <1>2, FS_Interval
<1> QED BY <1>1, <1>2, <1>3, <1>4

(* A block is in the file, and the one before a block is one further back    *)
(* from the block after it.                                                  *)
LEMMA BlocksMove ==
    ASSUME NEW h \in Blocks
    PROVE  /\ After(FileBlocks, h) \in Blocks
           /\ Back(FileBlocks, After(FileBlocks, h), 0) = h
           /\ \A j \in Nat : j < FileBlocks - 1 =>
                 /\ Back(FileBlocks, h, j) \in Blocks /\ Back(FileBlocks, h, j) # h
                 /\ Back(FileBlocks, After(FileBlocks, h), j + 1) = Back(FileBlocks, h, j)
           /\ h + 1 = FileBlocks \/ h + 1 \in Blocks
<1> FileBlocks \in Nat \ {0} /\ h \in 0 .. FileBlocks - 1
    /\ Blocks = 0 .. FileBlocks - 1
  BY BlockCount
<1> HIDE DEF FileBlocks
<1> QED BY BackMoves

(* The history keeps a cycle of reservations.                                *)
LEMMA WindowMovesBack ==
    ASSUME FileIInv, NEW d \in [id : 0 .. MaxReceived, len : 0 .. MaxLen]
    PROVE  LET w == WindowWith(d)
           IN  /\ w \in Seq([id : 0 .. MaxReceived, len : 0 .. MaxLen])
               /\ Len(w) \in Nat /\ Len(w) <= FileBlocks
               /\ DOMAIN w = 1 .. Len(w) /\ w[Len(w)] = d
               /\ \A k \in 1 .. Len(w) : k # Len(w) =>
                     \E i \in DOMAIN f_window : /\ w[k] = f_window[i]
                                               /\ Len(f_window) - i \in Nat
                                               /\ Len(w) - k = (Len(f_window) - i) + 1
<1> DEFINE D == [id : 0 .. MaxReceived, len : 0 .. MaxLen]
           w == WindowWith(d)
           c == FileBlocks
           p == Slide(f_window, c, d)
           n == Len(p)
           o == Len(f_window)
<1>1. f_window \in Seq(D) /\ d \in D /\ o <= c /\ c \in Nat \ {0}
  BY BlockCount DEF FileIInv, PersistentTypeOK
<1>2. w = p
  BY BlockCount DEF WindowWith, Slide
<1> HIDE DEF D, w, c
<1>3. f_window \in Seq(D) /\ o \in Nat /\ DOMAIN f_window = 1 .. o
  BY <1>1, LenProperties
<1>4. p \in Seq(D)
  BY <1>1, WindowMoves
<1>5. n \in 1 .. c
  BY <1>1, WindowMoves
<1>6. p[n] = d
  BY <1>1, WindowMoves
<1>7. MovedBack(f_window, p)
  BY <1>1, WindowMoves
<1> HIDE DEF p
<1>8. n \in Nat /\ n <= c /\ DOMAIN p = 1 .. n
  BY <1>1, <1>4, <1>5, LenProperties
<1>9. \A k \in 1 .. n - 1 : \E i \in 1 .. o : p[k] = f_window[i] /\ n - k = o - i + 1
  BY <1>7 DEF MovedBack
<1> HIDE DEF n, o
<1>10. ASSUME NEW k \in 1 .. n, k # n
      PROVE  \E i \in DOMAIN f_window : /\ p[k] = f_window[i] /\ o - i \in Nat
                                     /\ n - k = (o - i) + 1
  <2>1. n \in Nat
    BY <1>8
  <2>2. k \in 1 .. n - 1
    BY <2>1, <1>10, SMT
  <2>3. PICK i \in 1 .. o : p[k] = f_window[i] /\ n - k = o - i + 1
    BY <1>9, <2>2
  <2>4. o \in Nat /\ i \in DOMAIN f_window
    BY <1>3, <2>3
  <2>5. o - i \in Nat /\ n - k = (o - i) + 1
    BY <2>3, <2>4, SMT
  <2> QED BY <2>3, <2>4, <2>5
<1> QED BY <1>2, <1>4, <1>6, <1>8, <1>10 DEF n, o, c, D, w

(* Receiving into the next block leaves the others of the cycle in the file. *)
LEMMA BlocksStayKept ==
    ASSUME FileIInv, NEW h \in Blocks, NEW file, KeptBlocks(f_file, f_window, h),
           \A s \in Blocks \ {h} : file[s] = f_file[s],
           NEW d \in [id : 0 .. MaxReceived, len : 0 .. MaxLen],
           d.id # 0 => WholeRow(file[h], d)
    PROVE  KeptBlocks(file, WindowWith(d), After(FileBlocks, h))
<1> DEFINE w == WindowWith(d)
           N == FileBlocks
<1>1. DOMAIN w = 1 .. Len(w) /\ w[Len(w)] = d /\ Len(w) \in Nat /\ Len(w) <= N
  BY WindowMovesBack
<1> HIDE DEF w
<1> SUFFICES ASSUME NEW k \in 1 .. Len(w), w[k].id # 0
             PROVE  WholeRow(file[Back(N, After(N, h), Len(w) - k)], w[k])
  BY <1>1 DEF KeptBlocks, w
<1>2. CASE k = Len(w)
  <2>1. Len(w) - k = 0
    BY <1>1, <1>2
  <2>2. Back(N, After(N, h), 0) = h
    BY BlocksMove
  <2>3. WholeRow(file[h], w[k])
    BY <1>1, <1>2
  <2>4. Back(N, After(N, h), Len(w) - k) = h
    BY <2>1, <2>2
  <2> QED BY <2>3, <2>4
<1>3. CASE k # Len(w)
  <2>1. PICK i \in DOMAIN f_window : /\ w[k] = f_window[i]
                                   /\ Len(f_window) - i \in Nat
                                   /\ Len(w) - k = (Len(f_window) - i) + 1
    BY <1>3, WindowMovesBack DEF w
  <2> DEFINE j == Len(f_window) - i
             l == Len(w)
  <2>2. j \in Nat /\ Len(w) - k = j + 1
    BY <2>1
  <2>3. l \in Nat /\ l <= N /\ N \in Nat /\ k \in 1 .. l
    BY <1>1, BlockCount
  <2>4. WholeRow(f_file[Back(N, h, j)], f_window[i])
    BY <2>1 DEF KeptBlocks
  <2> HIDE DEF j, l, N
  <2>5. l - k = j + 1
    BY <2>2 DEF l
  <2>6. j < N - 1
    BY <2>2, <2>3, <2>5, SMT
  <2>7. /\ Back(N, h, j) \in Blocks \ {h}
        /\ Back(N, After(N, h), j + 1) = Back(N, h, j)
    BY <2>2, <2>6, BlocksMove DEF N
  <2>8. Back(N, After(N, h), Len(w) - k) = Back(N, h, j)
    BY <2>2, <2>7
  <2> QED BY <2>1, <2>4, <2>7, <2>8
<1> QED BY <1>2, <1>3

(* The offset follows the block.                                             *)
LEMMA OffsetMoves ==
    ASSUME NEW h \in Blocks, f_offset = (h + 1) * AlignedReq
    PROVE  \/ f_offset = After(FileBlocks, h) * AlignedReq
           \/ After(FileBlocks, h) = 0 /\ f_offset = FileBlocks * AlignedReq
BY DEF After

(* No file yet, and a file that was truncated.                               *)
LEMMA ZeroedRows ==
    ASSUME f_file = Zeroed, f_received \in Nat, f_before \in Nat
    PROVE  RowsOfRun
<1>1. \A s \in Blocks, b \in Octets : f_file[s][b] = 0
  BY DEF Zeroed
<1>2. 0 <= f_received /\ 0 \notin 1 .. f_before
  BY SMT
<1> QED BY <1>1, <1>2 DEF RowsOfRun, RowOfRun

LEMMA ZeroedType == Zeroed \in [Blocks -> [Octets -> 0 .. MaxReceived]]
<1>1. 0 \in 0 .. MaxReceived
  BY PersistentAssumption, SMT
<1> QED BY <1>1 DEF Zeroed

LEMMA InitFile == PersistentInit => FileIInv
<1> SUFFICES ASSUME PersistentInit PROVE FileIInv
  OBVIOUS
<1>1. /\ f_window = <<>> /\ Len(f_window) = 0 /\ DOMAIN f_window = {}
      /\ f_window \in Seq([id : 0 .. MaxReceived, len : 0 .. MaxLen])
  BY EmptySeq DEF PersistentInit
<1>2. 0 \in Blocks /\ BlockAt(0) = 0
  <2>1. 0 = 0 * AlignedReq
    BY BlockCount
  <2>2. (0 * AlignedReq) \div AlignedReq = 0
    BY BlockCount, SlotOfMultiple
  <2> QED BY <2>1, <2>2, BlockCount DEF BlockAt
<1>3. PersistentTypeOK
  <2>1. 0 \in 0 .. FileSize /\ 0 \in 0 .. MaxReceived /\ 0 \in 0 .. 0 /\ 0 \in 0 .. MaxRuns
    BY PersistentAssumption, SMT
  <2> QED BY <1>1, <1>2, <2>1, ZeroedType DEF PersistentInit, PersistentTypeOK
<1>4. NextBlock(0)
  BY <1>1 DEF PersistentInit, NextBlock, KeptBlocks
<1>5. RowsOfRun
  BY ZeroedRows DEF PersistentInit
<1>6. f_packets + (IF f_pc = "count" THEN 1 ELSE 0) <= f_received
  BY SMT DEF PersistentInit
<1> QED BY <1>1, <1>2, <1>3, <1>4, <1>5, <1>6, BlockCount DEF FileIInv

(* The constructor of the arena.                                             *)
LEMMA OpenKeeps ==
    ASSUME FileIInv, OpenTruncated PROVE FileIInv'
<1>1. /\ f_sized' = FALSE /\ f_file' = Zeroed /\ f_pc' = "extend" /\ f_offset' = 0 /\ f_buffer' = 0
      /\ f_packets' = 0 /\ f_before' = f_received /\ f_window' = <<>>
      /\ f_runs' = f_runs + 1 /\ f_received' = f_received /\ f_runs < MaxRuns
  BY DEF OpenTruncated
<1>2. f_received \in 0 .. MaxReceived /\ f_runs \in 0 .. MaxRuns
  BY DEF FileIInv, PersistentTypeOK
<1>3. /\ Len(<<>>) = 0 /\ DOMAIN f_window' = {}
      /\ <<>> \in Seq([id : 0 .. MaxReceived, len : 0 .. MaxLen])
  BY <1>1, EmptySeq
<1>4. 0 \in Blocks /\ BlockAt(0) = 0 /\ 0 * AlignedReq = 0
  <2>1. 0 = 0 * AlignedReq
    BY BlockCount
  <2>2. (0 * AlignedReq) \div AlignedReq = 0
    BY BlockCount, SlotOfMultiple
  <2> QED BY <2>1, <2>2, BlockCount DEF BlockAt
<1>5. PersistentTypeOK'
  <2>1. /\ 0 \in 0 .. FileSize /\ 0 \in 0 .. MaxReceived /\ f_runs + 1 \in 0 .. MaxRuns
        /\ f_received \in 0 .. f_received
    BY <1>1, <1>2, PersistentAssumption, SMT
  <2>2. BlockAt(f_buffer)' = BlockAt(0)
    BY <1>1 DEF BlockAt
  <2> QED BY <1>1, <1>2, <1>3, <1>4, <2>1, <2>2, ZeroedType DEF PersistentTypeOK
<1>6. RowsOfRun'
  <2>1. \A s \in Blocks, b \in Octets : f_file'[s][b] = 0
    BY <1>1 DEF Zeroed
  <2>2. 0 <= f_received' /\ 0 \notin 1 .. f_before'
    BY <1>1, <1>2, SMT
  <2> QED BY <2>1, <2>2 DEF RowsOfRun, RowOfRun
<1>7. NextBlock(0)'
  BY <1>1, <1>3, <1>4 DEF NextBlock, KeptBlocks
<1>8. f_packets' + (IF f_pc' = "count" THEN 1 ELSE 0) <= f_received'
  BY <1>1, <1>2, SMT
<1>9. Len(f_window') <= FileBlocks
  BY <1>1, <1>3, BlockCount
<1> QED BY <1>4, <1>5, <1>6, <1>7, <1>8, <1>9 DEF FileIInv

(* allocate() gives the next block, which is the first one at the end of the *)
(* file.                                                                     *)
LEMMA ReserveKeeps ==
    ASSUME FileIInv, ReserveBlock PROVE FileIInv'
<1>1. PICK h \in Blocks : NextBlock(h)
  BY DEF FileIInv
<1> DEFINE A == AlignedReq
           N == FileBlocks
           at == IF f_offset + A > FileSize THEN 0 ELSE f_offset
<1>2. /\ N \in Nat \ {0} /\ h \in 0 .. N - 1 /\ A \in Nat \ {0} /\ FileSize \in Nat
  BY BlockCount, PersistentAssumption
<1>3. /\ f_file' = f_file /\ f_window' = f_window /\ f_pc = "reserve" /\ f_pc' = "recv"
      /\ f_offset = h * A \/ (h = 0 /\ f_offset = N * A)
      /\ f_buffer' = at /\ f_offset' = at + A
      /\ UNCHANGED <<f_sized, f_packets, f_received, f_before, f_runs>>
  BY <1>1 DEF ReserveBlock, NextBlock
<1>4. h * A + A <= FileSize /\ h * A \in Nat
  <2>1. h \in Nat /\ h + 1 <= FileSize \div AlignedReq
    BY <1>2, SMT DEF FileBlocks
  <2>2. h * AlignedReq + AlignedReq <= FileSize
    BY <1>2, <2>1, SlotFits
  <2> QED BY <1>2, <2>1, <2>2
<1>5. ~(N * A + A <= FileSize)
  <2> SUFFICES ASSUME N * A + A <= FileSize PROVE FALSE
    OBVIOUS
  <2>1. N + 1 <= FileSize \div A
    BY <1>2, FitsIsSlot
  <2> QED BY <1>2, <2>1 DEF FileBlocks
<1>6. at = h * A
  <2>1. CASE h = 0 /\ f_offset = N * A
    <3>1. h * A = 0 /\ N * A \in Int
      BY <1>2, <2>1
    <3> QED BY <1>2, <1>5, <2>1, <3>1
  <2>2. CASE f_offset = h * A
    BY <1>2, <1>4, <2>2
  <2> QED BY <1>3, <2>1, <2>2
<1> HIDE DEF at
<1>7. BlockAt(f_buffer)' = h
  <2>1. (h * A) \div A = h
    BY <1>2, SlotOfMultiple
  <2> QED BY <1>3, <1>6, <2>1 DEF BlockAt
<1>8. f_offset' = (h + 1) * A /\ f_offset' \in 0 .. FileSize
  <2>1. h * A + A = (h + 1) * A
    BY <1>2
  <2> QED BY <1>2, <1>3, <1>4, <1>6, <2>1
<1>9. PersistentTypeOK'
  <2> HIDE DEF A
  <2> QED BY <1>3, <1>7, <1>8 DEF FileIInv, PersistentTypeOK
<1>10. NextBlock(h)'
  <2>1. KeptBlocks(f_file', f_window', h)
    BY <1>1, <1>3 DEF NextBlock
  <2>2. BlockAt(f_buffer') = h
    BY <1>7 DEF BlockAt
  <2> QED BY <1>3, <1>8, <2>1, <2>2 DEF NextBlock, BlockAt
<1>11. RowsOfRun'
  BY <1>3 DEF FileIInv, RowsOfRun, RowOfRun
<1>12. /\ f_packets' + (IF f_pc' = "count" THEN 1 ELSE 0) <= f_received'
       /\ Len(f_window') <= FileBlocks
  BY <1>3 DEF FileIInv
<1> QED BY <1>9, <1>10, <1>11, <1>12 DEF FileIInv

(* A datagram is newer than all that the block can hold behind it.           *)
LEMMA ReceiveKeeps ==
    ASSUME FileIInv, NEW len \in Octets, ReceiveInto(len) PROVE FileIInv'
<1>1. PICK h \in Blocks : NextBlock(h)
  BY DEF FileIInv
<1> DEFINE d == [id |-> f_received + 1, len |-> len]
           row == [b \in Octets |-> IF b <= len THEN f_received + 1 ELSE f_file[h][b]]
<1>2. /\ f_pc = "recv" /\ BlockAt(f_buffer) = h /\ f_offset = (h + 1) * AlignedReq
      /\ f_received < MaxReceived /\ f_received' = f_received + 1
      /\ f_file' = [f_file EXCEPT ![h] = row]
      /\ f_window' = WindowWith(d) /\ f_pc' = "count"
      /\ UNCHANGED <<f_sized, f_offset, f_buffer, f_packets, f_before, f_runs>>
  BY <1>1 DEF ReceiveInto, NextBlock
<1>3. /\ f_received \in 0 .. MaxReceived /\ f_before \in 0 .. f_received
      /\ f_packets \in 0 .. MaxReceived /\ f_packets <= f_received
      /\ f_file \in [Blocks -> [Octets -> 0 .. MaxReceived]]
  <2>1. f_packets + 0 <= f_received /\ f_packets \in 0 .. MaxReceived
    BY <1>2 DEF FileIInv, PersistentTypeOK
  <2> QED BY <2>1, PersistentAssumption, SMT DEF FileIInv, PersistentTypeOK
<1>4. /\ f_received + 1 \in 1 .. MaxReceived /\ len \in 0 .. MaxLen /\ f_received + 1 # 0
      /\ f_before \in 0 .. f_received + 1 /\ f_packets + 1 <= f_received + 1
      /\ f_received + 1 \notin 1 .. f_before /\ f_received + 1 \in f_before + 1 .. f_received + 1
  BY <1>2, <1>3, PersistentAssumption, SMT DEF Octets
<1>5. /\ row \in [Octets -> 0 .. MaxReceived]
      /\ f_file' \in [Blocks -> [Octets -> 0 .. MaxReceived]]
      /\ f_file'[h] = row /\ \A s \in Blocks \ {h} : f_file'[s] = f_file[s]
  <2>1. row \in [Octets -> 0 .. MaxReceived]
    BY <1>3, <1>4
  <2> HIDE DEF row
  <2> QED BY <1>2, <1>3, <2>1
<1>6. d \in [id : 0 .. MaxReceived, len : 0 .. MaxLen] /\ d.id = f_received + 1 /\ d.len = len
  BY <1>4
<1>7. \A s \in Blocks, b \in Octets : /\ f_file[s][b] \in 0 .. f_received
                                      /\ f_file[s][b] \notin 1 .. f_before
  <2>1. \A s \in Blocks, b \in Octets : f_file[s][b] \in 0 .. MaxReceived
    BY <1>3
  <2>2. \A s \in Blocks, b \in Octets : f_file[s][b] <= f_received
                                        /\ f_file[s][b] \notin 1 .. f_before
    BY DEF FileIInv, RowsOfRun
  <2> QED BY <1>3, <2>1, <2>2, SMT
<1>8. WholeRow(row, d)
  <2>1. ASSUME NEW b \in Octets, ~(b <= len) PROVE row[b] < d.id
    <3>1. row[b] = f_file[h][b] /\ f_file[h][b] \in 0 .. f_received
      BY <1>7, <2>1
    <3> QED BY <1>3, <1>6, <3>1, SMT
  <2> QED BY <1>6, <2>1 DEF WholeRow
<1>9. \A b \in Octets : row[b] <= f_received + 1 /\ row[b] \notin 1 .. f_before
  <2> SUFFICES ASSUME NEW b \in Octets
               PROVE  row[b] <= f_received + 1 /\ row[b] \notin 1 .. f_before
    OBVIOUS
  <2>1. CASE b <= len
    BY <1>3, <1>4, <2>1
  <2>2. CASE ~(b <= len)
    <3>1. row[b] = f_file[h][b] /\ f_file[h][b] \in 0 .. f_received
          /\ f_file[h][b] \notin 1 .. f_before
      BY <1>7, <2>2
    <3> HIDE DEF row
    <3> QED BY <1>3, <3>1, SMT
  <2> QED BY <2>1, <2>2
<1>10. RowOfRun(row, f_before + 1, f_received + 1)
  BY <1>4, <1>8 DEF RowOfRun
<1> HIDE DEF row
<1>11. RowsOfRun'
  <2> SUFFICES ASSUME NEW s \in Blocks
               PROVE  /\ \A b \in Octets : /\ f_file'[s][b] <= f_received + 1
                                           /\ f_file'[s][b] \notin 1 .. f_before
                      /\ RowOfRun(f_file'[s], f_before + 1, f_received + 1)
    BY <1>2 DEF RowsOfRun
  <2>1. CASE s = h
    BY <1>5, <1>9, <1>10, <2>1
  <2>2. CASE s # h
    <3>1. f_file'[s] = f_file[s] /\ RowOfRun(f_file[s], f_before + 1, f_received)
      BY <1>5, <2>2 DEF FileIInv, RowsOfRun
    <3>2. f_before + 1 .. f_received \subseteq f_before + 1 .. f_received + 1
      BY <1>3, SMT
    <3>3. RowOfRun(f_file[s], f_before + 1, f_received + 1)
      BY <3>1, <3>2 DEF RowOfRun
    <3>4. ASSUME NEW b \in Octets PROVE f_file[s][b] <= f_received + 1
      <4>1. f_file[s][b] \in 0 .. f_received
        BY <1>7
      <4> QED BY <1>3, <4>1, SMT
    <3> QED BY <1>7, <3>1, <3>3, <3>4
  <2> QED BY <2>1, <2>2
<1>12. NextBlock(After(FileBlocks, h))'
  <2>1. KeptBlocks(f_file', WindowWith(d), After(FileBlocks, h))
    <3>1. WholeRow(f_file'[h], d) /\ KeptBlocks(f_file, f_window, h)
      BY <1>1, <1>5, <1>8 DEF NextBlock
    <3> HIDE DEF d
    <3> QED BY <1>5, <1>6, <3>1, BlocksStayKept
  <2> QED BY <1>2, <2>1, OffsetMoves DEF NextBlock
<1>13. /\ f_window' \in Seq([id : 0 .. MaxReceived, len : 0 .. MaxLen])
       /\ Len(f_window') <= FileBlocks
  <2> HIDE DEF d
  <2> QED BY <1>2, <1>6, WindowMovesBack
<1>14. PersistentTypeOK'
  <2> HIDE DEF d
  <2>1. f_received' \in 0 .. MaxReceived /\ f_before' \in 0 .. f_received'
    BY <1>2, <1>3, <1>4
  <2>2. BlockAt(f_buffer)' \in Blocks
    BY <1>2 DEF BlockAt
  <2> QED BY <1>2, <1>5, <1>13, <2>1, <2>2 DEF FileIInv, PersistentTypeOK
<1>15. f_packets' + (IF f_pc' = "count" THEN 1 ELSE 0) <= f_received'
  BY <1>2, <1>4
<1> QED BY <1>11, <1>12, <1>13, <1>14, <1>15, BlocksMove DEF FileIInv

(* A block that nothing came for keeps what it holds.                        *)
LEMMA ReceiveNoneKeeps ==
    ASSUME FileIInv, ReceiveNone PROVE FileIInv'
<1>1. PICK h \in Blocks : NextBlock(h)
  BY DEF FileIInv
<1> DEFINE d == [id |-> 0, len |-> 0]
<1>2. /\ f_pc = "recv" /\ f_offset = (h + 1) * AlignedReq /\ f_pc' = "reserve"
      /\ f_window' = WindowWith(d)
      /\ UNCHANGED <<f_sized, f_file, f_offset, f_buffer, f_packets, f_received, f_before>>
      /\ UNCHANGED f_runs
  BY <1>1 DEF ReceiveNone, NextBlock
<1>3. d \in [id : 0 .. MaxReceived, len : 0 .. MaxLen] /\ d.id = 0
  BY PersistentAssumption
<1> HIDE DEF d
<1>4. NextBlock(After(FileBlocks, h))'
  <2>1. KeptBlocks(f_file, f_window, h)
    BY <1>1 DEF NextBlock
  <2>2. KeptBlocks(f_file, WindowWith(d), After(FileBlocks, h))
    BY <1>3, <2>1, BlocksStayKept
  <2> QED BY <1>2, <2>2, OffsetMoves DEF NextBlock
<1>5. /\ f_window' \in Seq([id : 0 .. MaxReceived, len : 0 .. MaxLen])
      /\ Len(f_window') <= FileBlocks
  BY <1>2, <1>3, WindowMovesBack
<1>6. PersistentTypeOK'
  <2>1. BlockAt(f_buffer)' \in Blocks
    BY <1>2 DEF FileIInv, PersistentTypeOK, BlockAt
  <2> QED BY <1>2, <1>5, <2>1 DEF FileIInv, PersistentTypeOK
<1>7. RowsOfRun'
  BY <1>2 DEF FileIInv, RowsOfRun, RowOfRun
<1>8. f_packets' + (IF f_pc' = "count" THEN 1 ELSE 0) <= f_received'
  BY <1>2 DEF FileIInv
<1> QED BY <1>4, <1>5, <1>6, <1>7, <1>8, BlocksMove DEF FileIInv

(* The counter moves, or the process is killed, and the file stays.          *)
LEMMA QuietKeeps ==
    ASSUME FileIInv, ExtendFile \/ CountPacket \/ Kill \/ UNCHANGED persistentVars
    PROVE  FileIInv'
<1>1. PICK h \in Blocks : NextBlock(h)
  BY DEF FileIInv
<1>2. UNCHANGED <<f_file, f_received, f_before, f_window, f_runs>>
  BY DEF ExtendFile, CountPacket, Kill, persistentVars
<1>3. /\ f_packets \in 0 .. MaxReceived /\ f_received \in 0 .. MaxReceived
      /\ f_packets + (IF f_pc = "count" THEN 1 ELSE 0) <= f_received
  BY DEF FileIInv, PersistentTypeOK
<1>4. CASE CountPacket
  <2>1. /\ f_pc = "count" /\ f_pc' = "reserve" /\ f_packets' = f_packets + 1
        /\ UNCHANGED <<f_sized, f_offset, f_buffer>>
    BY <1>4 DEF CountPacket
  <2>2. /\ f_packets' \in 0 .. MaxReceived
        /\ f_packets' + (IF f_pc' = "count" THEN 1 ELSE 0) <= f_received'
    <3>1. f_packets + 1 <= f_received
      BY <1>3, <2>1
    <3>2. (IF f_pc' = "count" THEN 1 ELSE 0) = 0 /\ f_received' = f_received
      BY <1>2, <2>1
    <3>3. f_packets + 1 \in 0 .. MaxReceived /\ f_packets + 1 + 0 <= f_received
      BY <1>3, <3>1, PersistentAssumption, SMT
    <3> QED BY <2>1, <3>2, <3>3
  <2>3. NextBlock(h)'
    BY <1>1, <1>2, <2>1 DEF NextBlock
  <2>4. PersistentTypeOK' /\ RowsOfRun'
    BY <1>2, <2>1, <2>2 DEF FileIInv, PersistentTypeOK, RowsOfRun, RowOfRun, BlockAt
  <2> QED BY <1>2, <2>2, <2>3, <2>4 DEF FileIInv
<1>5. CASE Kill
  <2>1. f_pc' = "off" /\ f_offset' = 0 /\ f_buffer' = 0 /\ f_packets' = 0
        /\ f_sized' = f_sized
    BY <1>5 DEF Kill
  <2>2. /\ f_packets' + (IF f_pc' = "count" THEN 1 ELSE 0) <= f_received'
        /\ 0 \in 0 .. FileSize /\ 0 \in 0 .. MaxReceived
    BY <1>2, <1>3, <2>1, PersistentAssumption
  <2>3. NextBlock(h)'
    BY <1>1, <1>2, <2>1 DEF NextBlock
  <2>4. BlockAt(f_buffer)' \in Blocks
    <3>1. 0 = 0 * AlignedReq
      BY BlockCount
    <3>2. (0 * AlignedReq) \div AlignedReq = 0
      BY BlockCount, SlotOfMultiple
    <3> QED BY <2>1, <3>1, <3>2, BlockCount DEF BlockAt
  <2>5. PersistentTypeOK' /\ RowsOfRun'
    BY <1>2, <2>1, <2>2, <2>4 DEF FileIInv, PersistentTypeOK, RowsOfRun, RowOfRun
  <2> QED BY <1>2, <2>2, <2>3, <2>5 DEF FileIInv
<1>6. CASE UNCHANGED persistentVars
  <2>1. NextBlock(h)'
    BY <1>1, <1>6 DEF NextBlock, persistentVars, BlockAt
  <2> QED BY <1>6, <2>1 DEF persistentVars, FileIInv, PersistentTypeOK, RowsOfRun,
                            RowOfRun, BlockAt
<1>7. CASE ExtendFile
  <2>1. /\ f_pc = "extend" /\ f_pc' = "reserve" /\ f_sized' = TRUE
        /\ UNCHANGED <<f_offset, f_buffer, f_packets>>
    BY <1>7 DEF ExtendFile
  <2>2. f_packets' + (IF f_pc' = "count" THEN 1 ELSE 0) <= f_received'
    BY <1>2, <1>3, <2>1
  <2>3. NextBlock(h)'
    BY <1>1, <1>2, <2>1 DEF NextBlock
  <2>4. PersistentTypeOK' /\ RowsOfRun'
    BY <1>2, <2>1 DEF FileIInv, PersistentTypeOK, RowsOfRun, RowOfRun, BlockAt
  <2> QED BY <1>2, <2>2, <2>3, <2>4 DEF FileIInv
<1> QED BY <1>4, <1>5, <1>6, <1>7

\* The file has its length while the loop runs, and if it holds datagrams.
FileSized == /\ f_pc \in {"reserve", "recv", "count"} => f_sized
             /\ f_window # <<>> => f_sized

(* Every step of the program.                                                *)
LEMMA FileStep ==
    ASSUME FileIInv, FileSized, [PersistentNext]_persistentVars
    PROVE  FileIInv' /\ FileSized'
<1>1. FileIInv'
  BY OpenKeeps, ReserveKeeps, ReceiveKeeps, ReceiveNoneKeeps, QuietKeeps
     DEF PersistentNext
<1> SUFFICES FileSized'
  BY <1>1
<1>2. CASE OpenTruncated
  <2>1. f_pc' = "extend" /\ f_window' = <<>>
    BY <1>2 DEF OpenTruncated
  <2> QED BY <2>1 DEF FileSized
<1>3. CASE ExtendFile
  <2>1. f_sized'
    BY <1>3 DEF ExtendFile
  <2> QED BY <2>1 DEF FileSized
<1>4. CASE ReserveBlock \/ ReceiveNone \/ CountPacket
  <2>1. f_pc \in {"reserve", "recv", "count"} /\ f_sized' = f_sized
    BY <1>4 DEF ReserveBlock, ReceiveNone, CountPacket
  <2> QED BY <2>1, Zenon DEF FileSized
<1>5. ASSUME NEW len \in Octets, ReceiveInto(len) PROVE FileSized'
  <2>1. f_pc = "recv" /\ f_sized' = f_sized
    BY <1>5 DEF ReceiveInto
  <2> QED BY <2>1, Zenon DEF FileSized
<1>6. CASE Kill
  <2>1. f_pc' = "off" /\ f_window' = f_window /\ f_sized' = f_sized
    BY <1>6 DEF Kill
  <2> QED BY <2>1, Zenon DEF FileSized
<1>7. CASE UNCHANGED persistentVars
  <2>1. f_pc' = f_pc /\ f_window' = f_window /\ f_sized' = f_sized
    BY <1>7 DEF persistentVars
  <2> QED BY <2>1, Zenon DEF FileSized
<1> QED BY <1>2, <1>3, <1>4, <1>5, <1>6, <1>7 DEF PersistentNext

LEMMA InitSized == PersistentInit => FileSized
BY DEF PersistentInit, FileSized

(* What a reader of the file relies on.                                      *)
LEMMA FileOfThisRun ==
    ASSUME FileIInv, FileSized PROVE FileIsThisRun
<1>1. \A s \in Blocks, b \in Octets : f_file[s][b] \notin 1 .. f_before
  BY DEF FileIInv, RowsOfRun
<1>2. ASSUME NEW k \in DOMAIN f_window, f_window[k].id # 0
      PROVE  \E s \in Blocks : WholeIn(s, f_window[k])
  <2>1. PICK h \in Blocks : NextBlock(h)
    BY DEF FileIInv
  <2> DEFINE N == FileBlocks
             o == Len(f_window)
             s == Back(N, h, o - k)
  <2>2. o \in Nat /\ k \in 1 .. o /\ o <= N /\ N \in Nat \ {0}
    BY BlockCount, LenProperties DEF FileIInv, PersistentTypeOK
  <2>3. WholeRow(f_file[s], f_window[k])
    BY <1>2, <2>1 DEF NextBlock, KeptBlocks
  <2>4. h \in 0 .. N - 1 /\ Blocks = 0 .. N - 1
    BY BlockCount
  <2> HIDE DEF N, o
  <2>5. s \in 0 .. N - 1
    BY <2>2, <2>4, SMT DEF Back
  <2>6. f_sized
    BY <1>2 DEF FileSized
  <2> QED BY <2>3, <2>4, <2>5, <2>6 DEF WholeRow, WholeIn
<1>3. ASSUME Verdict = "SUCESSO"
      PROVE  \E id \in f_before + 1 .. f_received, len \in Octets :
                WholeIn(0, [id |-> id, len |-> len])
  <2>1. f_sized /\ \E b \in Octets : f_file[0][b] # 0
    BY <1>3 DEF Verdict, Signatures
  <2>2. 0 \in Blocks
    BY BlockCount
  <2>3. RowOfRun(f_file[0], f_before + 1, f_received)
    BY <2>2 DEF FileIInv, RowsOfRun
  <2>4. PICK id \in f_before + 1 .. f_received, len \in Octets :
           WholeRow(f_file[0], [id |-> id, len |-> len])
    BY <2>1, <2>3 DEF RowOfRun
  <2>5. WholeIn(0, [id |-> id, len |-> len])
    BY <2>1, <2>4 DEF WholeRow, WholeIn
  <2> QED BY <2>5
<1> QED BY <1>1, <1>2, <1>3 DEF FileIsThisRun

-----------------------------------------------------------------------------
\* The map of two arrays (HashMapSoA).
\* Where the probe j of a key finds it: no slot before it is empty, and no other
\* slot has it.
StoredAt(keys, key, j) ==
    /\ keys[At(key, j)] = key
    /\ \A i \in 0 .. j - 1 : keys[At(key, i)] # HASH_EMPTY
    /\ \A s \in SoaRange : keys[s] = key => s = At(key, j)
KeyIsRight(key) ==
    \/ s_map[key] = Absent /\ \A s \in SoaRange : m_keys[s] # key
    \/ \E j \in SoaRange : StoredAt(m_keys, key, j) /\ m_values[At(key, j)] = s_map[key]
SoaIInv == SoaTypeOK /\ \A key \in SoaKeys \ s_cut : KeyIsRight(key)

(* The probes of a key reach every slot, each once.                          *)
LEMMA ProbesCover ==
    ASSUME NEW key \in SoaKeys
    PROVE  /\ \A i \in Nat : At(key, i) \in SoaRange
           /\ \A i, j \in SoaRange : At(key, i) = At(key, j) => i = j
<1>1. SoaSlots \in Nat \ {0} /\ Home[key] \in 0 .. SoaSlots - 1
  BY SoaAssumption
<1>2. ASSUME NEW i \in Nat PROVE At(key, i) \in SoaRange
  <2>1. Home[key] + i \in Int
    BY <1>1
  <2> QED BY <1>1, <2>1, RemainderRange DEF At, SoaRange
<1>3. ASSUME NEW i \in SoaRange, NEW j \in SoaRange, i < j
      PROVE  At(key, i) # At(key, j)
  <2>1. /\ Home[key] + i \in Int /\ Home[key] + j \in Int
        /\ Home[key] + i < Home[key] + j /\ (Home[key] + j) - (Home[key] + i) < SoaSlots
    BY <1>1, <1>3 DEF SoaRange
  <2> QED BY <1>1, <2>1, RemainderInjective DEF At
<1>4. \A i, j \in SoaRange : i = j \/ i < j \/ j < i
  BY <1>1 DEF SoaRange
<1> QED BY <1>2, <1>3, <1>4

(* A vector whose first lane is aligned has the next probes in its lanes.    *)
LEMMA LanesFollow ==
    ASSUME NEW key \in SoaKeys, Home[key] % Lanes = 0,
           NEW i \in Nat, i % Lanes = 0, NEW l \in 0 .. Lanes - 1
    PROVE  At(key, i) % Lanes = 0 /\ At(key, i) + l = At(key, i + l)
<1> DEFINE h == Home[key]
<1>1. /\ SoaSlots \in Nat \ {0} /\ Lanes \in Nat \ {0} /\ SoaSlots % Lanes = 0
      /\ h \in Nat /\ l \in Int /\ h % Lanes = 0
  BY SoaAssumption
<1>2. At(key, i) = (h + i) % SoaSlots /\ At(key, i + l) = (h + (i + l)) % SoaSlots
  BY DEF At
<1> HIDE DEF h
<1>3. h \in Int /\ i \in Int /\ h + i \in Int /\ h + (i + l) = (h + i) + l
  BY <1>1
<1>4. (h + i) % Lanes = 0
  BY <1>1, <1>3, MultiplesAdd
<1>5. /\ ((h + i) % SoaSlots) % Lanes = 0
      /\ ((h + i) + l) % SoaSlots = ((h + i) % SoaSlots) + l
  BY <1>1, <1>3, <1>4, GroupsWrapWhole
<1> QED BY <1>2, <1>3, <1>5

\* What find_match_512() and the values say of a group, and how far lookup() goes.
FromKey(f, key) ==
    f = [i \in Nat |->
            IF i >= SoaSlots THEN Absent
            ELSE IF GroupAnswer(At(key, i), key) = "next" THEN f[i + Lanes]
            ELSE GroupAnswer(At(key, i), key)]

(* The rounds of lookup() end, so it returns something: what any function    *)
(* does that satisfies its equation.                                         *)
LEMMA LookupIsRounds ==
    ASSUME NEW key \in SoaKeys
    PROVE  \E f : FromKey(f, key) /\ Lookup(key) = f[0]
<1> DEFINE ans(i) == IF i >= SoaSlots THEN Absent ELSE GroupAnswer(At(key, i), key)
           Stop == {i \in Nat : i >= SoaSlots \/ ans(i) # "next"}
           g == [i \in Nat |-> i + Lanes]
           m == [i \in Nat |-> IF i >= SoaSlots THEN 0 ELSE SoaSlots - i]
           V == {ans(i) : i \in Nat}
           base == [i \in Nat |-> ans(i)]
           comb == [p \in Nat \X V |-> p[2]]
<1>1. SoaSlots \in Nat \ {0} /\ Lanes \in Nat \ {0}
  BY SoaAssumption
<1> HIDE DEF ans
<1>2. g \in [Nat -> Nat] /\ m \in [Nat -> Nat] /\ base \in [Nat -> V]
  BY <1>1
<1>3. comb \in [Nat \X V -> V]
  OBVIOUS
<1>4. ASSUME NEW i \in Nat, i \notin Stop PROVE m[g[i]] < m[i]
  <2>1. ~(i >= SoaSlots) /\ g[i] = i + Lanes /\ i + Lanes \in Nat
    BY <1>1, <1>4
  <2> QED BY <1>1, <2>1
<1>5. \A i \in Nat : i \in Stop <=> (i >= SoaSlots \/ ans(i) # "next")
  OBVIOUS
<1>6. Stop \subseteq Nat
  OBVIOUS
<1>7. \A i \in Nat : base[i] = ans(i) /\ g[i] = i + Lanes
  OBVIOUS
<1>8. \A i \in Nat, v \in V : comb[<<i, v>>] = v
  OBVIOUS
<1> HIDE DEF Stop, g, m, base, comb, V
<1>9. LoopOver(Nat, V, Stop, g, m, base, comb)
  BY <1>2, <1>3, <1>4, <1>6 DEF LoopOver
<1>10. PICK f \in [Nat -> V] :
         \A i \in Nat : f[i] = LoopRound(Stop, g, base, comb, f, i)
  BY <1>9, LoopReturns
<1>11. ASSUME NEW i \in Nat
       PROVE  f[i] = IF i >= SoaSlots THEN Absent
                     ELSE IF GroupAnswer(At(key, i), key) = "next" THEN f[i + Lanes]
                     ELSE GroupAnswer(At(key, i), key)
  <2>1. f[i] = IF i \in Stop THEN base[i] ELSE comb[<<i, f[g[i]]>>]
    BY <1>10 DEF LoopRound
  <2>2. g[i] = i + Lanes /\ i + Lanes \in Nat /\ base[i] = ans(i)
    BY <1>1, <1>7
  <2>3. comb[<<i, f[g[i]]>>] = f[i + Lanes]
    BY <1>8, <1>10, <2>2
  <2>4. f[i] = IF i >= SoaSlots \/ ans(i) # "next" THEN ans(i) ELSE f[i + Lanes]
    BY <1>5, <2>1, <2>2, <2>3
  <2> QED BY <2>4 DEF ans
<1>12. FromKey(f, key)
  <2>1. f = [i \in Nat |-> f[i]]
    BY <1>10
  <2> QED BY <1>11, <2>1 DEF FromKey
<1> QED BY <1>12 DEF FromKey, Lookup

(* The answer of an aligned group for a key that the map has not.            *)
LEMMA GroupWithout ==
    ASSUME SoaTypeOK, NEW key \in SoaKeys, Home[key] % Lanes = 0,
           NEW i \in Nat, i % Lanes = 0, \A s \in SoaRange : m_keys[s] # key
    PROVE  GroupAnswer(At(key, i), key) \in {Absent, "next"}
<1>1. Lanes \in Nat \ {0} /\ At(key, i) % Lanes = 0
  <2>1. Lanes \in Nat \ {0}
    BY SoaAssumption
  <2>2. 0 \in 0 .. Lanes - 1
    BY <2>1
  <2> QED BY <2>1, <2>2, LanesFollow
<1>2. ASSUME NEW l \in 0 .. Lanes - 1 PROVE m_keys[At(key, i) + l] # key
  <2>1. At(key, i) + l = At(key, i + l)
    BY LanesFollow
  <2>2. i + l \in Nat
    BY <1>1
  <2> QED BY <2>1, <2>2, ProbesCover
<1>3. Matches(At(key, i), key) = {}
  BY <1>2 DEF Matches
<1> QED BY <1>1, <1>3 DEF GroupAnswer

(* The answer of an aligned group for a key that the map has, in the slot of *)
(* its probe j: its value from the group of j, "next" from one before.       *)
LEMMA GroupWith ==
    ASSUME SoaTypeOK, NEW key \in SoaKeys, Home[key] % Lanes = 0,
           NEW j \in SoaRange, StoredAt(m_keys, key, j),
           NEW i \in Nat, i % Lanes = 0, i <= j
    PROVE  GroupAnswer(At(key, i), key) =
               IF j < i + Lanes THEN m_values[At(key, j)] ELSE "next"
<1>1. /\ Lanes \in Nat \ {0} /\ SoaSlots \in Nat \ {0} /\ j \in Nat /\ j < SoaSlots
      /\ HASH_EMPTY \notin SoaKeys
  BY SoaAssumption DEF SoaRange
<1>2. At(key, i) % Lanes = 0
  <2>1. 0 \in 0 .. Lanes - 1
    BY <1>1
  <2> QED BY <2>1, LanesFollow
<1>3. ASSUME NEW l \in 0 .. Lanes - 1
      PROVE  /\ At(key, i) + l = At(key, i + l) /\ i + l \in Nat
             /\ At(key, i + l) \in SoaRange
  <2>1. i + l \in Nat
    BY <1>1
  <2> QED BY <2>1, LanesFollow, ProbesCover
<1>4. CASE j < i + Lanes
  <2> DEFINE k == j - i
  <2>1. k \in 0 .. Lanes - 1 /\ i + k = j
    BY <1>1, <1>4
  <2> HIDE DEF k
  <2>2. At(key, i) + k = At(key, j)
    BY <1>3, <2>1
  <2>3. k \in Matches(At(key, i), key)
    BY <2>1, <2>2 DEF Matches, StoredAt
  <2>4. \A l \in Matches(At(key, i), key) : l = k
    <3> SUFFICES ASSUME NEW l \in 0 .. Lanes - 1, m_keys[At(key, i) + l] = key
                 PROVE  l = k
      BY DEF Matches
    <3>1. At(key, i) + l = At(key, j)
      BY <1>3 DEF StoredAt
    <3>2. At(key, i) \in Int
      <4>1. At(key, i) \in SoaRange
        BY ProbesCover
      <4> QED BY <4>1 DEF SoaRange
    <3> QED BY <1>1, <2>1, <2>2, <3>1, <3>2
  <2>5. (CHOOSE l \in Matches(At(key, i), key) :
            \A n \in Matches(At(key, i), key) : l <= n) = k
    <3> DEFINE M == Matches(At(key, i), key)
    <3> HIDE DEF M
    <3>1. k \in M /\ (\A l \in M : l = k) /\ k <= k
      BY <2>1, <2>3, <2>4 DEF M
    <3>2. (CHOOSE l \in M : \A n \in M : l <= n) \in M
      BY <3>1
    <3> QED BY <3>1, <3>2 DEF M
  <2>6. Matches(At(key, i), key) # {}
    BY <2>3
  <2>7. GroupAnswer(At(key, i), key) = m_values[At(key, i) + k]
    BY <1>2, <2>5, <2>6 DEF GroupAnswer
  <2> QED BY <1>4, <2>2, <2>7
<1>5. CASE ~(j < i + Lanes)
  <2>1. ASSUME NEW l \in 0 .. Lanes - 1
        PROVE  m_keys[At(key, i) + l] # key /\ m_keys[At(key, i) + l] # HASH_EMPTY
    <3>1. i + l \in 0 .. j - 1 /\ i + l \in SoaRange
      BY <1>1, <1>5 DEF SoaRange
    <3>2. At(key, i + l) # At(key, j)
      <4>1. i + l # j
        BY <1>1, <3>1
      <4> QED BY <3>1, <4>1, ProbesCover
    <3>3. At(key, i) + l = At(key, i + l) /\ At(key, i + l) \in SoaRange
      BY <1>3
    <3> QED BY <3>1, <3>2, <3>3 DEF StoredAt
  <2>2. Matches(At(key, i), key) = {} /\ Matches(At(key, i), HASH_EMPTY) = {}
    BY <2>1 DEF Matches
  <2> QED BY <1>2, <1>5, <2>2 DEF GroupAnswer
<1> QED BY <1>4, <1>5

(* No set of rounds goes on for ever.                                        *)
LEMMA RoundsEnd ==
    ASSUME NEW S \in SUBSET Nat, \A i \in S : i < SoaSlots /\ i + Lanes \in S
    PROVE  S = {}
<1> DEFINE g == [i \in Nat |-> i + Lanes]
           m == [i \in Nat |-> IF i >= SoaSlots THEN 0 ELSE SoaSlots - i]
           Stop == {i \in Nat : i >= SoaSlots}
<1>1. SoaSlots \in Nat \ {0} /\ Lanes \in Nat \ {0}
  BY SoaAssumption
<1>2. m \in [Nat -> Nat]
  BY <1>1
<1>3. ASSUME NEW i \in Nat \ Stop PROVE m[g[i]] < m[i]
  <2>1. ~(i >= SoaSlots) /\ g[i] = i + Lanes /\ i + Lanes \in Nat
    BY <1>1
  <2> QED BY <1>1, <2>1
<1>4. \A i \in S : i \notin Stop /\ g[i] \in S
  BY <1>1
<1> HIDE DEF g, m, Stop
<1>5. /\ \A i \in S : i \notin Stop => g[i] \in S
      /\ \A i \in S : i \notin Stop
  BY <1>4
<1> QED BY <1>2, <1>3, <1>5, LoopEnds, Zenon

(* With the invariant, lookup() is right of every key whose first group can  *)
(* be loaded and that no removal cut off.                                    *)
LEMMA LookupFinds ==
    ASSUME SoaIInv
    PROVE  LookupRight
<1> SUFFICES ASSUME NEW key \in SoaKeys \ s_cut, Home[key] % Lanes = 0
             PROVE  Lookup(key) = s_map[key]
  BY DEF LookupRight
<1>1. /\ SoaSlots \in Nat \ {0} /\ Lanes \in Nat \ {0} /\ SoaTypeOK /\ KeyIsRight(key)
  BY SoaAssumption DEF SoaIInv
<1>2. PICK f : FromKey(f, key) /\ Lookup(key) = f[0]
  BY LookupIsRounds
<1>3. \A i \in Nat : f[i] = IF i >= SoaSlots THEN Absent
                            ELSE IF GroupAnswer(At(key, i), key) = "next" THEN f[i + Lanes]
                            ELSE GroupAnswer(At(key, i), key)
  BY <1>2 DEF FromKey
<1>4. \A i \in Nat : i % Lanes = 0 => i + Lanes \in Nat /\ (i + Lanes) % Lanes = 0
  <2> SUFFICES ASSUME NEW i \in Nat, i % Lanes = 0
               PROVE  i + Lanes \in Nat /\ (i + Lanes) % Lanes = 0
    OBVIOUS
  <2>1. Lanes % Lanes = 0 /\ Lanes \in Int /\ i \in Int /\ i + Lanes \in Nat
    BY <1>1
  <2>2. (i + Lanes) % Lanes = 0
    BY <1>1, <2>1, MultiplesAdd
  <2> QED BY <2>1, <2>2
<1>5. 0 % Lanes = 0
  BY <1>1
<1>6. CASE s_map[key] = Absent /\ \A s \in SoaRange : m_keys[s] # key
  <2> DEFINE S == {i \in Nat : i % Lanes = 0 /\ f[i] # Absent}
  <2>1. ASSUME NEW i \in S PROVE i < SoaSlots /\ i + Lanes \in S
    <3>1. ~(i >= SoaSlots)
      BY <1>3
    <3>2. i < SoaSlots
      BY <1>1, <3>1
    <3>3. GroupAnswer(At(key, i), key) \in {Absent, "next"}
      BY <1>1, <1>6, GroupWithout
    <3>4. f[i] = f[i + Lanes]
      BY <1>3, <3>1, <3>3
    <3>5. i + Lanes \in Nat /\ (i + Lanes) % Lanes = 0
      BY <1>4
    <3> QED BY <3>2, <3>4, <3>5
  <2>2. S \in SUBSET Nat
    OBVIOUS
  <2>3. S = {}
    <3> HIDE DEF S
    <3> QED BY <2>1, <2>2, RoundsEnd
  <2> QED BY <1>2, <1>5, <1>6, <2>3
<1>7. CASE \E j \in SoaRange : StoredAt(m_keys, key, j) /\ m_values[At(key, j)] = s_map[key]
  <2>1. PICK j \in SoaRange :
           StoredAt(m_keys, key, j) /\ m_values[At(key, j)] = s_map[key]
    BY <1>7
  <2>2. s_map[key] # "next"
    BY <1>1, SoaAssumption DEF SoaTypeOK, Absent
  <2>3. j \in Nat /\ j < SoaSlots
    BY <1>1 DEF SoaRange
  <2> DEFINE S == {i \in Nat : i % Lanes = 0 /\ i <= j /\ f[i] # s_map[key]}
  <2>4. ASSUME NEW i \in S PROVE i < SoaSlots /\ i + Lanes \in S
    <3>1. i < SoaSlots /\ ~(i >= SoaSlots)
      BY <1>1, <2>3
    <3>2. GroupAnswer(At(key, i), key) =
             IF j < i + Lanes THEN m_values[At(key, j)] ELSE "next"
      BY <1>1, <2>1, GroupWith
    <3>3. ~(j < i + Lanes) /\ f[i] = f[i + Lanes]
      BY <1>3, <2>1, <2>2, <3>1, <3>2
    <3>4. i + Lanes \in Nat /\ (i + Lanes) % Lanes = 0
      BY <1>4
    <3>5. i + Lanes <= j
      BY <2>3, <3>3, <3>4
    <3> QED BY <3>1, <3>3, <3>4, <3>5
  <2>5. S \in SUBSET Nat
    OBVIOUS
  <2>6. S = {}
    <3> HIDE DEF S
    <3> QED BY <2>4, <2>5, RoundsEnd
  <2>7. 0 <= j
    BY <2>3
  <2> QED BY <1>2, <1>5, <2>6, <2>7
<1> QED BY <1>1, <1>6, <1>7 DEF KeyIsRight

(* insert() leaves every other key where it was, and puts its own where the  *)
(* search for it ends.                                                       *)
LEMMA InsertKeeps ==
    ASSUME SoaIInv, NEW k \in SoaKeys, NEW v \in SoaValues, SoaInsert(k, v)
    PROVE  SoaIInv'
<1>1. PICK slot : /\ slot \in FirstSlot(k, LAMBDA s : m_keys[s] \in {HASH_EMPTY, k})
                  /\ m_keys' = [m_keys EXCEPT ![slot] = k]
                  /\ m_values' = [m_values EXCEPT ![slot] = v]
                  /\ s_map' = [s_map EXCEPT ![k] = v] /\ s_cut' = s_cut
  BY DEF SoaInsert
<1>2. PICK i \in SoaRange : /\ slot = At(k, i) /\ m_keys[slot] \in {HASH_EMPTY, k}
                            /\ \A n \in 0 .. i - 1 : m_keys[At(k, n)] \notin {HASH_EMPTY, k}
  BY <1>1 DEF FirstSlot
<1>3. /\ SoaSlots \in Nat \ {0} /\ HASH_EMPTY \notin SoaKeys
      /\ m_keys \in [SoaRange -> SoaKeys \cup {HASH_EMPTY}]
      /\ m_values \in [SoaRange -> SoaValues \cup {Absent}]
      /\ s_map \in [SoaKeys -> SoaValues \cup {Absent}] /\ s_cut \subseteq SoaKeys
  BY SoaAssumption DEF SoaIInv, SoaTypeOK
<1>4. i \in Nat /\ slot \in SoaRange
  BY <1>2, <1>3, ProbesCover DEF SoaRange
<1>5. SoaTypeOK'
  BY <1>1, <1>3, <1>4 DEF SoaTypeOK
<1>6. /\ m_keys'[slot] = k /\ m_values'[slot] = v
      /\ \A s \in SoaRange : s # slot => m_keys'[s] = m_keys[s] /\ m_values'[s] = m_values[s]
      /\ s_map'[k] = v /\ \A x \in SoaKeys : x # k => s_map'[x] = s_map[x]
  BY <1>1, <1>3, <1>4
<1>7. ASSUME NEW j \in SoaRange, NEW x \in SoaKeys, NEW n \in 0 .. j - 1
      PROVE  n \in SoaRange /\ At(x, n) \in SoaRange /\ At(x, n) # At(x, j)
  <2>1. n \in SoaRange /\ n \in Nat /\ n # j
    BY <1>3 DEF SoaRange
  <2> QED BY <2>1, ProbesCover
<1>8. ASSUME NEW x \in SoaKeys \ s_cut PROVE KeyIsRight(x)'
  <2>0. KeyIsRight(x)
    BY DEF SoaIInv
  <2>1. CASE x = k /\ \A s \in SoaRange : m_keys[s] # k
    <3>1. StoredAt(m_keys', k, i)
      <4>1. \A n \in 0 .. i - 1 : m_keys'[At(k, n)] # HASH_EMPTY
        BY <1>2, <1>3, <1>4, <1>6, <1>7
      <4>2. \A s \in SoaRange : m_keys'[s] = k => s = At(k, i)
        BY <1>2, <1>6, <2>1
      <4> QED BY <1>2, <1>6, <4>1, <4>2 DEF StoredAt
    <3> QED BY <1>2, <1>6, <2>1, <3>1 DEF KeyIsRight
  <2>2. CASE x = k /\ ~(\A s \in SoaRange : m_keys[s] # k)
    <3>1. PICK j \in SoaRange : StoredAt(m_keys, k, j)
      BY <2>0, <2>2 DEF KeyIsRight
    <3>2. j = i
      <4>1. j \in Nat
        BY <1>3 DEF SoaRange
      <4>2. CASE j < i
        <5>1. j \in 0 .. i - 1
          BY <1>4, <4>1, <4>2
        <5> QED BY <1>2, <3>1, <5>1 DEF StoredAt
      <4>3. CASE i < j
        <5>1. i \in 0 .. j - 1
          BY <1>4, <4>1, <4>3
        <5>2. m_keys[slot] = k
          BY <1>2, <3>1, <5>1 DEF StoredAt
        <5>3. slot = At(k, j)
          BY <1>4, <3>1, <5>2 DEF StoredAt
        <5> QED BY <1>2, <1>7, <5>1, <5>3
      <4> QED BY <1>4, <4>1, <4>2, <4>3
    <3>3. m_keys[slot] = k
      BY <1>2, <3>1, <3>2 DEF StoredAt
    <3>4. m_keys' = m_keys
      BY <1>1, <1>3, <1>4, <3>3
    <3> QED BY <1>2, <1>6, <2>2, <3>1, <3>2, <3>4 DEF KeyIsRight
  <2>3. CASE x # k
    <3>0. m_keys[slot] # x /\ s_map'[x] = s_map[x]
      BY <1>2, <1>3, <1>6, <2>3
    <3>1. CASE s_map[x] = Absent /\ \A s \in SoaRange : m_keys[s] # x
      BY <1>6, <2>3, <3>0, <3>1 DEF KeyIsRight
    <3>2. CASE \E j \in SoaRange : StoredAt(m_keys, x, j) /\ m_values[At(x, j)] = s_map[x]
      <4>1. PICK j \in SoaRange : StoredAt(m_keys, x, j) /\ m_values[At(x, j)] = s_map[x]
        BY <3>2
      <4>2. At(x, j) # slot /\ At(x, j) \in SoaRange
        <5>1. j \in Nat
          BY <1>3 DEF SoaRange
        <5> QED BY <3>0, <4>1, <5>1, ProbesCover DEF StoredAt
      <4>3. \A n \in 0 .. j - 1 : m_keys'[At(x, n)] # HASH_EMPTY
        BY <1>3, <1>6, <1>7, <4>1 DEF StoredAt
      <4>4. \A s \in SoaRange : m_keys'[s] = x => s = At(x, j)
        BY <1>6, <2>3, <4>1 DEF StoredAt
      <4>5. StoredAt(m_keys', x, j)
        BY <1>6, <4>1, <4>2, <4>3, <4>4 DEF StoredAt
      <4> QED BY <1>6, <3>0, <4>1, <4>2, <4>5 DEF KeyIsRight
    <3> QED BY <2>0, <3>1, <3>2 DEF KeyIsRight
  <2> QED BY <2>1, <2>2, <2>3
<1> QED BY <1>1, <1>5, <1>8 DEF SoaIInv

(* remove() cuts off the keys it says, and leaves the others where they are. *)
LEMMA RemoveKeeps ==
    ASSUME SoaIInv, NEW k \in SoaKeys, SoaRemove(k)
    PROVE  SoaIInv'
<1>1. PICK slot : /\ slot \in FirstSlot(k, LAMBDA s : m_keys[s] \in {HASH_EMPTY, k})
                  /\ m_keys[slot] = k
                  /\ m_keys' = [m_keys EXCEPT ![slot] = HASH_EMPTY]
                  /\ s_map' = [s_map EXCEPT ![k] = Absent]
                  /\ s_cut' = s_cut \cup Past(slot) /\ m_values' = m_values
  BY DEF SoaRemove
<1>2. PICK i \in SoaRange : slot = At(k, i)
  BY <1>1 DEF FirstSlot
<1>3. /\ SoaSlots \in Nat \ {0} /\ HASH_EMPTY \notin SoaKeys
      /\ m_keys \in [SoaRange -> SoaKeys \cup {HASH_EMPTY}]
      /\ m_values \in [SoaRange -> SoaValues \cup {Absent}]
      /\ s_map \in [SoaKeys -> SoaValues \cup {Absent}] /\ s_cut \subseteq SoaKeys
  BY SoaAssumption DEF SoaIInv, SoaTypeOK
<1>4. i \in Nat /\ slot \in SoaRange
  BY <1>2, <1>3, ProbesCover DEF SoaRange
<1>5. SoaTypeOK'
  BY <1>1, <1>3, <1>4 DEF SoaTypeOK, Past
<1>6. /\ m_keys'[slot] = HASH_EMPTY
      /\ \A s \in SoaRange : s # slot => m_keys'[s] = m_keys[s]
      /\ s_map'[k] = Absent /\ \A x \in SoaKeys : x # k => s_map'[x] = s_map[x]
  BY <1>1, <1>3, <1>4
<1>7. ASSUME NEW j \in SoaRange, NEW x \in SoaKeys, NEW n \in 0 .. j - 1
      PROVE  n \in SoaRange /\ n < j /\ At(x, n) \in SoaRange /\ At(x, n) # At(x, j)
  <2>1. n \in SoaRange /\ n \in Nat /\ n # j /\ n < j
    BY <1>3 DEF SoaRange
  <2> QED BY <2>1, ProbesCover
<1>8. ASSUME NEW x \in SoaKeys, x \notin s_cut, x \notin Past(slot)
      PROVE  KeyIsRight(x)'
  <2>0. KeyIsRight(x)
    BY <1>8 DEF SoaIInv
  <2>1. CASE x = k
    <3>1. PICK j \in SoaRange : StoredAt(m_keys, k, j)
      BY <1>1, <1>4, <2>0, <2>1 DEF KeyIsRight
    <3>2. slot = At(k, j)
      BY <1>1, <1>4, <3>1 DEF StoredAt
    <3>3. \A s \in SoaRange : m_keys'[s] # k
      BY <1>3, <1>6, <3>1, <3>2 DEF StoredAt
    <3> QED BY <1>6, <2>1, <3>3 DEF KeyIsRight
  <2>2. CASE x # k
    <3>0. m_keys[slot] # x /\ s_map'[x] = s_map[x]
      BY <1>1, <1>6, <2>2
    <3>1. CASE s_map[x] = Absent /\ \A s \in SoaRange : m_keys[s] # x
      BY <1>3, <1>6, <3>0, <3>1 DEF KeyIsRight
    <3>2. CASE \E j \in SoaRange : StoredAt(m_keys, x, j) /\ m_values[At(x, j)] = s_map[x]
      <4>1. PICK j \in SoaRange : StoredAt(m_keys, x, j) /\ m_values[At(x, j)] = s_map[x]
        BY <3>2
      <4>2. At(x, j) # slot /\ At(x, j) \in SoaRange
        <5>1. j \in Nat
          BY <1>3 DEF SoaRange
        <5> QED BY <3>0, <4>1, <5>1, ProbesCover DEF StoredAt
      <4>3. ASSUME NEW n \in 0 .. j - 1 PROVE At(x, n) # slot
        <5> SUFFICES ASSUME At(x, n) = slot PROVE FALSE
          OBVIOUS
        <5>1. n \in SoaRange /\ n < j /\ m_keys[At(x, j)] = x
          BY <1>7, <4>1 DEF StoredAt
        <5>2. \A p \in 0 .. j - 1 : m_keys[At(x, p)] # x
          BY <1>7, <4>1 DEF StoredAt
        <5>3. x \in Past(slot)
          BY <5>1, <5>2 DEF Past
        <5> QED BY <1>8, <5>3
      <4>4. \A n \in 0 .. j - 1 : m_keys'[At(x, n)] # HASH_EMPTY
        BY <1>6, <1>7, <4>1, <4>3 DEF StoredAt
      <4>5. \A s \in SoaRange : m_keys'[s] = x => s = At(x, j)
        BY <1>3, <1>6, <4>1 DEF StoredAt
      <4>6. StoredAt(m_keys', x, j)
        BY <1>6, <4>1, <4>2, <4>4, <4>5 DEF StoredAt
      <4> QED BY <1>1, <3>0, <4>1, <4>6 DEF KeyIsRight
    <3> QED BY <2>0, <3>1, <3>2 DEF KeyIsRight
  <2> QED BY <2>1, <2>2
<1>9. \A x \in SoaKeys \ s_cut' : KeyIsRight(x)'
  BY <1>1, <1>8
<1> QED BY <1>5, <1>9 DEF SoaIInv

LEMMA InitSoa == SoaInit => SoaIInv
<1> SUFFICES ASSUME SoaInit PROVE SoaIInv
  OBVIOUS
<1>1. HASH_EMPTY \notin SoaKeys
  BY SoaAssumption
<1>2. SoaTypeOK
  BY DEF SoaInit, SoaTypeOK
<1>3. \A key \in SoaKeys : s_map[key] = Absent /\ \A s \in SoaRange : m_keys[s] # key
  BY <1>1 DEF SoaInit
<1> QED BY <1>2, <1>3 DEF SoaIInv, KeyIsRight

LEMMA SoaStep ==
    ASSUME SoaIInv, [SoaNext]_soaVars
    PROVE  SoaIInv'
<1>1. CASE SoaNext
  BY <1>1, InsertKeeps, RemoveKeeps DEF SoaNext
<1>2. CASE UNCHANGED soaVars
  BY <1>2 DEF soaVars, SoaIInv, SoaTypeOK, KeyIsRight, StoredAt
<1> QED BY <1>1, <1>2

-----------------------------------------------------------------------------
\* The disjoint sets (DisjointSet).
\* f takes every element of the forest p to its root, and no element of p climbs
\* for ever: a set that keeps the parents of its elements has a root.
RootMap(f, p) == f = [x \in Members |-> IF p[x] = x THEN x ELSE f[p[x]]]
Grounded(p) ==
    \A S \in SUBSET Members :
        S # {} /\ (\A x \in S : p[x] \in S) => \E x \in S : p[x] = x

\* The argument whose representative a find_set() looks for.
Argument == IF s_pc = "a" THEN s_call.a ELSE s_call.b
RanksGrow == \A x \in Members : parent[x] # x => rank[x] < rank[parent[x]]
SetIInv ==
    /\ SetTypeOK
    /\ s_call # NoCall => s_call \in [op : {"union", "same"}, a : Members, b : Members]
    /\ Grounded(parent) /\ RanksGrow
    /\ \E f : RootMap(f, parent)
    /\ InFind => RootOf[f_root] = RootOf[Argument] /\ RootOf[f_i] = RootOf[f_root]
    /\ s_pc = "b" => parent[s_ra] = s_ra /\ s_ra = RootOf[s_call.a]

(* A map to the roots gives roots, and is the same for an element and its    *)
(* parent.                                                                   *)
LEMMA RootMapGives ==
    ASSUME NEW p \in [Members -> Members], Grounded(p), NEW f, RootMap(f, p)
    PROVE  \A x \in Members : /\ f[x] \in Members /\ p[f[x]] = f[x]
                              /\ f[p[x]] = f[x] /\ (p[x] = x => f[x] = x)
<1>1. \A x \in Members : f[x] = IF p[x] = x THEN x ELSE f[p[x]]
  BY DEF RootMap
<1> DEFINE D == {x \in Members : ~(f[x] \in Members /\ p[f[x]] = f[x])}
<1>2. D = {}
  <2>1. \A x \in D : p[x] \in D
    BY <1>1
  <2>2. \A x \in D : p[x] # x
    BY <1>1
  <2>3. D \in SUBSET Members
    OBVIOUS
  <2> HIDE DEF D
  <2> QED BY <2>1, <2>2, <2>3 DEF Grounded
<1> QED BY <1>1, <1>2

(* There is one such map.                                                    *)
LEMMA RootMapUnique ==
    ASSUME NEW p \in [Members -> Members], Grounded(p),
           NEW f, RootMap(f, p), NEW g, RootMap(g, p)
    PROVE  f = g
<1> DEFINE D == {x \in Members : f[x] # g[x]}
<1>1. /\ \A x \in Members : f[x] = IF p[x] = x THEN x ELSE f[p[x]]
      /\ \A x \in Members : g[x] = IF p[x] = x THEN x ELSE g[p[x]]
  BY DEF RootMap
<1>2. D = {}
  <2>1. \A x \in D : p[x] \in D
    BY <1>1
  <2>2. \A x \in D : p[x] # x
    BY <1>1
  <2>3. D \in SUBSET Members
    OBVIOUS
  <2> HIDE DEF D
  <2> QED BY <2>1, <2>2, <2>3 DEF Grounded
<1>3. f = [x \in Members |-> f[x]] /\ g = [x \in Members |-> g[x]]
  <2>1. DOMAIN f = Members /\ f = [x \in DOMAIN f |-> f[x]]
    BY DEF RootMap
  <2>2. DOMAIN g = Members /\ g = [x \in DOMAIN g |-> g[x]]
    BY DEF RootMap
  <2> QED BY <2>1, <2>2
<1>4. \A x \in Members : f[x] = g[x]
  BY <1>2
<1> QED BY <1>3, <1>4

(* RootOf is it.                                                             *)
LEMMA RootOfIsMap ==
    ASSUME NEW f, RootMap(f, parent)
    PROVE  RootMap(RootOf, parent)
BY DEF RootMap, RootOf

(* An element that is made to point to its root keeps it, and a root that is *)
(* made to point to another one takes its elements along.                    *)
LEMMA CompressForest ==
    ASSUME NEW p \in [Members -> Members], Grounded(p), NEW f, RootMap(f, p),
           NEW i \in Members, f[i] # i
    PROVE  /\ [p EXCEPT ![i] = f[i]] \in [Members -> Members]
           /\ Grounded([p EXCEPT ![i] = f[i]]) /\ RootMap(f, [p EXCEPT ![i] = f[i]])
<1> DEFINE q == [p EXCEPT ![i] = f[i]]
<1>1. \A x \in Members : /\ f[x] \in Members /\ p[f[x]] = f[x]
                         /\ f[p[x]] = f[x] /\ (p[x] = x => f[x] = x)
  BY RootMapGives
<1>2. /\ q \in [Members -> Members] /\ q[i] = f[i]
      /\ \A x \in Members : x # i => q[x] = p[x]
  BY <1>1
<1> HIDE DEF q
<1>3. q[f[i]] = f[i]
  BY <1>1, <1>2
<1>4. ASSUME NEW S \in SUBSET Members, S # {}, \A x \in S : q[x] \in S
      PROVE  \E x \in S : q[x] = x
  <2>1. CASE i \in S
    <3>1. f[i] \in S
      BY <1>2, <1>4, <2>1
    <3> QED BY <1>3, <3>1
  <2>2. CASE i \notin S
    <3>1. \A x \in S : p[x] = q[x]
      BY <1>2, <2>2
    <3>2. \A x \in S : p[x] \in S
      BY <1>4, <3>1
    <3>3. PICK x \in S : p[x] = x
      BY <1>4, <3>2 DEF Grounded
    <3> QED BY <3>1, <3>3
  <2> QED BY <2>1, <2>2
<1>5. RootMap(f, q)
  <2>1. \A x \in Members : f[x] = IF q[x] = x THEN x ELSE f[q[x]]
    <3>1. f[f[i]] = f[i]
      BY <1>1
    <3> QED BY <1>1, <1>2, <3>1
  <2>2. f = [x \in Members |-> f[x]]
    <3>1. DOMAIN f = Members /\ f = [x \in DOMAIN f |-> f[x]]
      BY DEF RootMap
    <3> QED BY <3>1
  <2>3. [x \in Members |-> f[x]] = [x \in Members |-> IF q[x] = x THEN x ELSE f[q[x]]]
    BY <2>1
  <2> QED BY <2>2, <2>3 DEF RootMap
<1> QED BY <1>2, <1>4, <1>5 DEF q, Grounded

\* What a map to the roots is when b has come to point to a.
Relinked(f, a, b) == [x \in Members |-> IF f[x] = b THEN a ELSE f[x]]

LEMMA LinkForest ==
    ASSUME NEW p \in [Members -> Members], Grounded(p), NEW f, RootMap(f, p),
           NEW a \in Members, NEW b \in Members, p[a] = a, p[b] = b, a # b
    PROVE  /\ [p EXCEPT ![b] = a] \in [Members -> Members]
           /\ Grounded([p EXCEPT ![b] = a])
           /\ RootMap(Relinked(f, a, b), [p EXCEPT ![b] = a])
<1> DEFINE q == [p EXCEPT ![b] = a]
           g == Relinked(f, a, b)
<1>1. \A x \in Members : /\ f[x] \in Members /\ p[f[x]] = f[x]
                         /\ f[p[x]] = f[x] /\ (p[x] = x => f[x] = x)
  BY RootMapGives
<1>2. /\ q \in [Members -> Members] /\ q[b] = a
      /\ \A x \in Members : x # b => q[x] = p[x]
  OBVIOUS
<1>3. \A x \in Members : g[x] = IF f[x] = b THEN a ELSE f[x]
  BY DEF Relinked
<1> HIDE DEF q
<1>4. ASSUME NEW S \in SUBSET Members, S # {}, \A x \in S : q[x] \in S
      PROVE  \E x \in S : q[x] = x
  <2>1. CASE b \in S
    <3>1. a \in S /\ q[a] = a
      BY <1>2, <1>4, <2>1
    <3> QED BY <3>1
  <2>2. CASE b \notin S
    <3>1. \A x \in S : p[x] = q[x]
      BY <1>2, <2>2
    <3>2. \A x \in S : p[x] \in S
      BY <1>4, <3>1
    <3>3. PICK x \in S : p[x] = x
      BY <1>4, <3>2 DEF Grounded
    <3> QED BY <3>1, <3>3
  <2> QED BY <2>1, <2>2
<1>5. RootMap(g, q)
  <2>1. ASSUME NEW x \in Members PROVE g[x] = IF q[x] = x THEN x ELSE g[q[x]]
    <3>1. CASE x = b
      <4>1. f[b] = b /\ f[a] = a /\ q[x] = a
        BY <1>1, <1>2, <3>1
      <4> QED BY <1>3, <3>1, <4>1
    <3>2. CASE x # b
      <4>1. q[x] = p[x] /\ p[x] \in Members
        BY <1>2, <3>2
      <4>2. CASE p[x] = x
        <5>1. f[x] = x
          BY <1>1, <4>2
        <5> QED BY <1>3, <3>2, <4>1, <4>2, <5>1
      <4>3. CASE p[x] # x
        <5>1. f[p[x]] = f[x]
          BY <1>1
        <5> QED BY <1>3, <4>1, <4>3, <5>1
      <4> QED BY <4>2, <4>3
    <3> QED BY <3>1, <3>2
  <2>2. g = [x \in Members |-> g[x]]
    BY DEF Relinked
  <2> HIDE DEF g
  <2>3. [x \in Members |-> g[x]] = [x \in Members |-> IF q[x] = x THEN x ELSE g[q[x]]]
    BY <2>1
  <2> QED BY <2>2, <2>3 DEF RootMap
<1> QED BY <1>2, <1>4, <1>5 DEF q, Grounded

LEMMA RootOfIsMapNext ==
    ASSUME NEW f, RootMap(f, parent')
    PROVE  RootMap(RootOf', parent')
BY DEF RootMap, RootOf

\* The block of every element, as Partition has it.
Blocks0 == [x \in Members |-> {y \in Members : RootOf[y] = RootOf[x]}]

(* What the invariant says of the roots: they are roots, an element has its  *)
(* parent's, and none has a smaller rank than what is below it.              *)
LEMMA RootFacts ==
    ASSUME SetIInv
    PROVE  /\ RootMap(RootOf, parent)
           /\ \A x \in Members : /\ RootOf[x] \in Members
                                 /\ parent[RootOf[x]] = RootOf[x]
                                 /\ RootOf[parent[x]] = RootOf[x]
                                 /\ (parent[x] = x => RootOf[x] = x)
           /\ \A x \in Members : rank[x] <= rank[RootOf[x]]
<1>1. parent \in [Members -> Members] /\ Grounded(parent) /\ rank \in [Members -> Nat]
  BY DEF SetIInv, SetTypeOK
<1>2. RootMap(RootOf, parent)
  BY RootOfIsMap DEF SetIInv
<1>3. \A x \in Members : /\ RootOf[x] \in Members
                         /\ parent[RootOf[x]] = RootOf[x]
                         /\ RootOf[parent[x]] = RootOf[x]
                         /\ (parent[x] = x => RootOf[x] = x)
  BY <1>1, <1>2, RootMapGives
<1> DEFINE D == {x \in Members : ~(rank[x] <= rank[RootOf[x]])}
<1>4. D = {}
  <2>1. ASSUME NEW x \in D PROVE parent[x] \in D /\ parent[x] # x
    <3>1. x \in Members /\ parent[x] \in Members /\ RootOf[x] \in Members
          /\ rank[x] \in Nat /\ rank[parent[x]] \in Nat /\ rank[RootOf[x]] \in Nat
      BY <1>1, <1>3
    <3>2. parent[x] # x
      BY <1>3, <3>1, SMT
    <3>3. rank[x] < rank[parent[x]]
      BY <3>1, <3>2 DEF SetIInv, RanksGrow
    <3>4. RootOf[parent[x]] = RootOf[x]
      BY <1>3, <3>1
    <3> QED BY <3>1, <3>2, <3>3, <3>4, SMT
  <2>2. D \in SUBSET Members
    OBVIOUS
  <2> HIDE DEF D
  <2> QED BY <1>1, <2>1, <2>2 DEF Grounded
<1> QED BY <1>2, <1>3, <1>4

(* While no link moves, nothing does that the partition is made of.          *)
LEMMA SameForest ==
    ASSUME SetIInv, parent' = parent, rank' = rank
    PROVE  /\ RootOf' = RootOf /\ Blocks0' = Blocks0
           /\ Grounded(parent') /\ RanksGrow' /\ \E f : RootMap(f, parent')
<1>1. RootOf' = RootOf
  BY DEF RootOf
<1>2. RanksGrow'
  BY DEF SetIInv, RanksGrow
<1> QED BY <1>1, <1>2 DEF SetIInv, Blocks0

(* The calls, and the steps of find_set() that move no link.                 *)
LEMMA CallSimulates ==
    ASSUME SetIInv, NEW op \in {"union", "same"}, NEW a \in Members, NEW b \in Members,
           Call(op, a, b)
    PROVE  SetIInv' /\ Sets!Begin(op, a, b)
<1>1. /\ s_call = NoCall /\ s_call' = [op |-> op, a |-> a, b |-> b]
      /\ s_pc' = "a" /\ f_root' = a /\ f_i' = a
      /\ parent' = parent /\ rank' = rank /\ s_ra' = s_ra /\ s_answer' = s_answer
  BY DEF Call
<1>2. /\ RootOf' = RootOf /\ Blocks0' = Blocks0 /\ Grounded(parent') /\ RanksGrow'
      /\ \E f : RootMap(f, parent')
  BY <1>1, SameForest
<1>3. s_call' # NoCall /\ s_call'.a = a
      /\ s_call' \in [op : {"union", "same"}, a : Members, b : Members]
  BY <1>1 DEF NoCall
<1>4. Argument' = a
  BY <1>1, <1>3 DEF Argument
<1>5. SetTypeOK'
  BY <1>1, <1>3 DEF SetIInv, SetTypeOK
<1>6. Sets!Begin(op, a, b)
  BY <1>1, <1>2 DEF Sets!Begin, Sets!NoCall, NoCall, Blocks0
<1> QED BY <1>1, <1>2, <1>3, <1>4, <1>5, <1>6 DEF SetIInv, InFind

LEMMA ClimbKeeps ==
    ASSUME SetIInv, Climb
    PROVE  SetIInv' /\ Blocks0' = Blocks0
<1>1. /\ InFind /\ f_root' = parent[f_root] /\ f_i' = f_i /\ s_pc' = s_pc
      /\ parent' = parent /\ rank' = rank /\ s_ra' = s_ra /\ s_answer' = s_answer
      /\ s_call' = s_call
  BY DEF Climb, findVars
<1>2. /\ RootOf' = RootOf /\ Blocks0' = Blocks0 /\ Grounded(parent') /\ RanksGrow'
      /\ \E f : RootMap(f, parent')
  BY <1>1, SameForest
<1>3. RootOf[f_root'] = RootOf[f_root] /\ f_root' \in Members
  BY <1>1, RootFacts DEF SetIInv, SetTypeOK
<1>4. Argument' = Argument
  BY <1>1 DEF Argument
<1>5. SetTypeOK'
  BY <1>1, <1>3 DEF SetIInv, SetTypeOK
<1> QED BY <1>1, <1>2, <1>3, <1>4, <1>5 DEF SetIInv, InFind

LEMMA FindAKeeps ==
    ASSUME SetIInv, FindAReturns
    PROVE  SetIInv' /\ Blocks0' = Blocks0
<1>1. /\ s_pc = "a" /\ s_pc' = "b" /\ s_ra' = f_root /\ parent[f_root] = f_root
      /\ f_root' = s_call.b /\ f_i' = s_call.b
      /\ parent' = parent /\ rank' = rank /\ s_answer' = s_answer /\ s_call' = s_call
  BY DEF FindAReturns, Found
<1>2. /\ RootOf' = RootOf /\ Blocks0' = Blocks0 /\ Grounded(parent') /\ RanksGrow'
      /\ \E f : RootMap(f, parent')
  BY <1>1, SameForest
<1>3. /\ s_call # NoCall /\ f_root \in Members
      /\ s_call \in [op : {"union", "same"}, a : Members, b : Members]
  BY <1>1 DEF SetIInv, SetTypeOK
<1>4. f_root = RootOf[s_call.a]
  <2>1. RootOf[f_root] = f_root
    BY <1>1, <1>3, RootFacts
  <2>2. RootOf[f_root] = RootOf[s_call.a]
    BY <1>1 DEF SetIInv, InFind, Argument
  <2> QED BY <2>1, <2>2
<1>5. Argument' = s_call.b
  BY <1>1 DEF Argument
<1>6. SetTypeOK'
  BY <1>1, <1>3 DEF SetIInv, SetTypeOK
<1> QED BY <1>1, <1>2, <1>3, <1>4, <1>5, <1>6 DEF SetIInv, InFind

(* Compression moves a node to the root it has already.                      *)
LEMMA CompressKeeps ==
    ASSUME SetIInv, Compress
    PROVE  SetIInv' /\ Blocks0' = Blocks0
<1>1. /\ InFind /\ parent[f_root] = f_root /\ parent[f_i] # f_root
      /\ parent' = [parent EXCEPT ![f_i] = f_root] /\ f_i' = parent[f_i]
      /\ rank' = rank /\ f_root' = f_root /\ s_pc' = s_pc
      /\ s_ra' = s_ra /\ s_answer' = s_answer /\ s_call' = s_call
  BY DEF Compress, findVars
<1>2. /\ f_i \in Members /\ f_root \in Members /\ parent \in [Members -> Members]
      /\ rank \in [Members -> Nat] /\ Grounded(parent) /\ RootMap(RootOf, parent)
  BY RootFacts DEF SetIInv, SetTypeOK
<1>3. RootOf[f_root] = f_root /\ RootOf[f_i] = f_root
  BY <1>1, <1>2, RootFacts DEF SetIInv
<1>4. f_i # f_root
  BY <1>1
<1>5. /\ parent' \in [Members -> Members] /\ Grounded(parent')
      /\ RootMap(RootOf, parent')
  BY <1>1, <1>2, <1>3, <1>4, CompressForest
<1>6. RootOf' = RootOf
  <2>1. RootMap(RootOf', parent')
    BY <1>5, RootOfIsMapNext
  <2> QED BY <1>5, <2>1, RootMapUnique
<1>7. Blocks0' = Blocks0
  BY <1>6 DEF Blocks0
<1>8. /\ parent'[f_i] = f_root
      /\ \A x \in Members : x # f_i => parent'[x] = parent[x]
  BY <1>1, <1>2
<1>9. RanksGrow'
  <2> SUFFICES ASSUME NEW x \in Members, parent'[x] # x
               PROVE  rank[x] < rank[parent'[x]]
    BY <1>1 DEF RanksGrow
  <2>1. CASE x = f_i
    <3>1. parent[f_i] # f_i
      BY <1>2, <1>3, <1>4, RootFacts
    <3>2. rank[f_i] < rank[parent[f_i]]
      BY <1>2, <3>1 DEF SetIInv, RanksGrow
    <3>3. rank[parent[f_i]] <= rank[RootOf[parent[f_i]]]
      BY <1>2, RootFacts
    <3>4. RootOf[parent[f_i]] = f_root
      BY <1>2, <1>3, RootFacts
    <3>5. rank[f_i] \in Nat /\ rank[parent[f_i]] \in Nat /\ rank[f_root] \in Nat
      BY <1>2
    <3>6. rank[f_i] < rank[f_root]
      BY <3>2, <3>3, <3>4, <3>5, SMT
    <3> QED BY <1>8, <2>1, <3>6
  <2>2. CASE x # f_i
    BY <1>8, <2>2 DEF SetIInv, RanksGrow
  <2> QED BY <2>1, <2>2
<1>10. f_i' \in Members /\ RootOf[f_i'] = RootOf[f_i]
  BY <1>1, <1>2, RootFacts
<1>11. s_pc = "b" => parent'[s_ra] = s_ra
  <2> SUFFICES ASSUME s_pc = "b" PROVE parent'[s_ra] = s_ra
    OBVIOUS
  <2>1. parent[s_ra] = s_ra /\ s_ra \in Members
    BY DEF SetIInv, SetTypeOK
  <2>2. RootOf[s_ra] = s_ra
    BY <2>1, RootFacts
  <2>3. s_ra # f_i
    BY <1>3, <1>4, <2>2
  <2> QED BY <1>8, <2>1, <2>3
<1>12. Argument' = Argument
  BY <1>1 DEF Argument
<1>13. SetTypeOK'
  BY <1>1, <1>5, <1>10 DEF SetIInv, SetTypeOK
<1> QED BY <1>1, <1>3, <1>5, <1>6, <1>7, <1>9, <1>10, <1>11, <1>12, <1>13
        DEF SetIInv, InFind

(* A root that is put below another of no smaller rank.                      *)
LEMMA LinkRanks ==
    ASSUME SetIInv, NEW a \in Members, NEW b \in Members, a # b,
           parent[a] = a, parent[b] = b, rank[b] <= rank[a],
           parent' = [parent EXCEPT ![b] = a],
           rank' = IF rank[a] = rank[b] THEN [rank EXCEPT ![a] = @ + 1] ELSE rank
    PROVE  rank' \in [Members -> Nat] /\ RanksGrow'
<1>1. rank \in [Members -> Nat] /\ parent \in [Members -> Members]
  BY DEF SetIInv, SetTypeOK
<1>2. rank[a] \in Nat /\ rank[b] \in Nat
  BY <1>1
<1>3. rank' \in [Members -> Nat]
  BY <1>1, <1>2
<1>4. /\ \A x \in Members : x # a => rank'[x] = rank[x]
      /\ rank[a] <= rank'[a] /\ rank[b] < rank'[a]
  <2>1. CASE rank[a] = rank[b]
    <3>1. rank'[a] = rank[a] + 1 /\ \A x \in Members : x # a => rank'[x] = rank[x]
      BY <1>1, <2>1
    <3> QED BY <1>2, <2>1, <3>1, SMT
  <2>2. CASE rank[a] # rank[b]
    <3>1. rank' = rank
      BY <2>2
    <3> QED BY <1>2, <2>2, <3>1, SMT
  <2> QED BY <2>1, <2>2
<1>5. parent'[b] = a /\ \A x \in Members : x # b => parent'[x] = parent[x]
  BY <1>1
<1>6. ASSUME NEW x \in Members, parent'[x] # x PROVE rank'[x] < rank'[parent'[x]]
  <2>1. CASE x = b
    BY <1>4, <1>5, <2>1
  <2>2. CASE x # b
    <3>1. parent'[x] = parent[x] /\ parent[x] # x /\ x # a /\ parent[x] \in Members
      BY <1>1, <1>5, <1>6, <2>2
    <3>2. rank[x] < rank[parent[x]] /\ rank'[x] = rank[x]
      BY <1>4, <3>1 DEF SetIInv, RanksGrow
    <3>3. CASE parent[x] = a
      <4>1. rank[x] \in Nat /\ rank'[a] \in Nat /\ rank[x] < rank[a]
        BY <1>1, <1>3, <3>2, <3>3
      <4>2. rank[x] < rank'[a]
        BY <1>2, <1>4, <4>1, SMT
      <4> QED BY <3>1, <3>2, <3>3, <4>2
    <3>4. CASE parent[x] # a
      BY <1>4, <3>1, <3>2, <3>4
    <3> QED BY <3>3, <3>4
  <2> QED BY <2>1, <2>2
<1> QED BY <1>3, <1>6 DEF RanksGrow

\* The blocks when the set of the root b has joined that of the root a.
Joined(f, a, b) ==
    [x \in Members |-> IF f[x] \in {a, b} THEN {y \in Members : f[y] \in {a, b}}
                       ELSE {y \in Members : f[y] = f[x]}]

(* A root that is put below another joins its set to the other's.            *)
LEMMA LinkRoots ==
    ASSUME SetIInv, NEW a \in Members, NEW b \in Members, a # b,
           parent[a] = a, parent[b] = b, parent' = [parent EXCEPT ![b] = a]
    PROVE  /\ parent' \in [Members -> Members] /\ Grounded(parent')
           /\ \E f : RootMap(f, parent')
           /\ Blocks0' = Joined(RootOf, a, b)
<1> DEFINE g == Relinked(RootOf, a, b)
<1>1. /\ parent \in [Members -> Members] /\ Grounded(parent)
      /\ RootMap(RootOf, parent)
  BY RootFacts DEF SetIInv, SetTypeOK
<1>2. /\ parent' \in [Members -> Members] /\ Grounded(parent') /\ RootMap(g, parent')
  <2>1. /\ [parent EXCEPT ![b] = a] \in [Members -> Members]
        /\ Grounded([parent EXCEPT ![b] = a])
        /\ RootMap(g, [parent EXCEPT ![b] = a])
    BY <1>1, LinkForest, Zenon
  <2> QED BY <2>1
<1>3. RootOf' = g
  <2> HIDE DEF g
  <2>1. RootMap(RootOf', parent')
    BY <1>2, RootOfIsMapNext
  <2> QED BY <1>2, <2>1, RootMapUnique
<1>4. \A x \in Members : g[x] = IF RootOf[x] = b THEN a ELSE RootOf[x]
  BY DEF Relinked
<1>5. Blocks0' = [x \in Members |-> {y \in Members : g[y] = g[x]}]
  BY <1>3 DEF Blocks0
<1> HIDE DEF g
<1>6. ASSUME NEW x \in Members
      PROVE  {y \in Members : g[y] = g[x]} =
             IF RootOf[x] \in {a, b} THEN {y \in Members : RootOf[y] \in {a, b}}
             ELSE {y \in Members : RootOf[y] = RootOf[x]}
  <2>1. CASE RootOf[x] \in {a, b}
    <3>1. g[x] = a /\ \A y \in Members : (g[y] = a) <=> RootOf[y] \in {a, b}
      BY <1>4, <2>1
    <3> QED BY <2>1, <3>1
  <2>2. CASE RootOf[x] \notin {a, b}
    <3>1. g[x] = RootOf[x]
          /\ \A y \in Members : (g[y] = RootOf[x]) <=> (RootOf[y] = RootOf[x])
      BY <1>4, <2>2
    <3> QED BY <2>2, <3>1
  <2> QED BY <2>1, <2>2
<1>7. Blocks0' = Joined(RootOf, a, b)
  BY <1>5, <1>6 DEF Joined
<1> QED BY <1>2, <1>7

(* Partition joins the blocks of the two arguments in the same way.          *)
LEMMA JoinedBlocks ==
    ASSUME SetIInv, NEW u \in Members, NEW v \in Members
    PROVE  LET both == Blocks0[u] \cup Blocks0[v]
           IN  [x \in Members |-> IF x \in both THEN both ELSE Blocks0[x]]
               = Joined(RootOf, RootOf[u], RootOf[v])
<1> DEFINE both == Blocks0[u] \cup Blocks0[v]
<1>1. both = {y \in Members : RootOf[y] \in {RootOf[u], RootOf[v]}}
  BY DEF Blocks0
<1>2. \A x \in Members : Blocks0[x] = {y \in Members : RootOf[y] = RootOf[x]}
  BY DEF Blocks0
<1> HIDE DEF both
<1>3. \A x \in Members : (x \in both) <=> RootOf[x] \in {RootOf[u], RootOf[v]}
  BY <1>1
<1>4. \A x \in Members :
        (IF x \in both THEN both ELSE Blocks0[x]) =
        (IF RootOf[x] \in {RootOf[u], RootOf[v]}
         THEN {y \in Members : RootOf[y] \in {RootOf[u], RootOf[v]}}
         ELSE {y \in Members : RootOf[y] = RootOf[x]})
  BY <1>1, <1>2, <1>3
<1>5. [x \in Members |-> IF x \in both THEN both ELSE Blocks0[x]]
      = Joined(RootOf, RootOf[u], RootOf[v])
  BY <1>4 DEF Joined
<1> QED BY <1>5 DEF both

(* The order of the two roots makes no difference, and a set that is joined  *)
(* with itself stays.                                                        *)
LEMMA JoinedSame ==
    /\ \A f, a, b : Joined(f, a, b) = Joined(f, b, a)
    /\ \A a : Joined(RootOf, a, a) = Blocks0
<1>1. ASSUME NEW f, NEW a, NEW b PROVE Joined(f, a, b) = Joined(f, b, a)
  <2>1. {a, b} = {b, a}
    OBVIOUS
  <2> QED BY <2>1 DEF Joined
<1>2. ASSUME NEW a PROVE Joined(RootOf, a, a) = Blocks0
  <2>1. \A x \in Members :
          (IF RootOf[x] \in {a, a} THEN {y \in Members : RootOf[y] \in {a, a}}
           ELSE {y \in Members : RootOf[y] = RootOf[x]})
          = {y \in Members : RootOf[y] = RootOf[x]}
    OBVIOUS
  <2> QED BY <2>1 DEF Joined, Blocks0
<1> QED BY <1>1, <1>2

(* Both finds have returned.                                                 *)
LEMMA BothFound ==
    ASSUME SetIInv, s_pc = "b", Found
    PROVE  /\ s_ra = RootOf[s_call.a] /\ f_root = RootOf[s_call.b]
           /\ parent[s_ra] = s_ra /\ parent[f_root] = f_root
           /\ s_ra \in Members /\ f_root \in Members
           /\ s_call.a \in Members /\ s_call.b \in Members
<1>1. s_ra \in Members /\ f_root \in Members /\ s_call # NoCall
  BY DEF SetIInv, SetTypeOK
<1>2. s_call.a \in Members /\ s_call.b \in Members
  <2>1. s_call \in [op : {"union", "same"}, a : Members, b : Members]
    BY <1>1 DEF SetIInv
  <2> QED BY <2>1
<1>3. RootOf[f_root] = RootOf[s_call.b]
  BY DEF SetIInv, InFind, Argument
<1>4. RootOf[f_root] = f_root
  BY <1>1, RootFacts DEF Found
<1> QED BY <1>1, <1>2, <1>3, <1>4 DEF SetIInv, Found

(* union_set() joins the sets of its two arguments and no third one.         *)
LEMMA UnionSimulates ==
    ASSUME SetIInv, UnionReturns
    PROVE  SetIInv' /\ Sets!EndUnion
<1>1. /\ s_pc = "b" /\ Found /\ s_call.op = "union" /\ s_call' = NoCall
      /\ s_pc' = "none" /\ f_root' = f_root /\ f_i' = f_i /\ s_ra' = s_ra
      /\ s_answer' = s_answer
  BY DEF UnionReturns
<1>2. /\ s_ra = RootOf[s_call.a] /\ f_root = RootOf[s_call.b]
      /\ parent[s_ra] = s_ra /\ parent[f_root] = f_root
      /\ s_ra \in Members /\ f_root \in Members
      /\ s_call.a \in Members /\ s_call.b \in Members
  BY <1>1, BothFound
<1>3. rank \in [Members -> Nat] /\ parent \in [Members -> Members]
  BY DEF SetIInv, SetTypeOK
<1>4. /\ parent' \in [Members -> Members] /\ rank' \in [Members -> Nat]
      /\ Grounded(parent') /\ RanksGrow' /\ \E f : RootMap(f, parent')
      /\ Blocks0' = Joined(RootOf, s_ra, f_root)
  <2>1. CASE s_ra = f_root
    <3>1. parent' = parent /\ rank' = rank
      BY <2>1 DEF UnionReturns
    <3>2. Blocks0' = Blocks0 /\ Grounded(parent') /\ RanksGrow'
          /\ \E f : RootMap(f, parent')
      BY <3>1, SameForest
    <3> QED BY <1>3, <2>1, <3>1, <3>2, JoinedSame
  <2>2. CASE s_ra # f_root /\ rank[s_ra] < rank[f_root]
    <3>1. parent' = [parent EXCEPT ![s_ra] = f_root] /\ rank' = rank
      BY <2>2 DEF UnionReturns, Link
    <3>2. rank[s_ra] \in Nat /\ rank[f_root] \in Nat
      BY <1>2, <1>3
    <3>3. rank[s_ra] <= rank[f_root] /\ rank[s_ra] # rank[f_root]
      BY <2>2, <3>2, SMT
    <3>4. rank' = IF rank[f_root] = rank[s_ra] THEN [rank EXCEPT ![f_root] = @ + 1]
                  ELSE rank
      BY <3>1, <3>3
    <3>5. rank' \in [Members -> Nat] /\ RanksGrow'
      BY <1>2, <2>2, <3>1, <3>3, <3>4, LinkRanks
    <3>6. /\ parent' \in [Members -> Members] /\ Grounded(parent')
          /\ \E f : RootMap(f, parent')
          /\ Blocks0' = Joined(RootOf, f_root, s_ra)
      BY <1>2, <2>2, <3>1, LinkRoots
    <3> QED BY <3>5, <3>6, JoinedSame
  <2>3. CASE s_ra # f_root /\ ~(rank[s_ra] < rank[f_root])
    <3>1. /\ parent' = [parent EXCEPT ![f_root] = s_ra]
          /\ rank' = IF rank[s_ra] = rank[f_root] THEN [rank EXCEPT ![s_ra] = @ + 1]
                     ELSE rank
      BY <2>3 DEF UnionReturns, Link
    <3>2. rank[s_ra] \in Nat /\ rank[f_root] \in Nat
      BY <1>2, <1>3
    <3>3. rank[f_root] <= rank[s_ra]
      BY <2>3, <3>2, SMT
    <3>4. rank' \in [Members -> Nat] /\ RanksGrow'
      BY <1>2, <2>3, <3>1, <3>3, LinkRanks
    <3>5. /\ parent' \in [Members -> Members] /\ Grounded(parent')
          /\ \E f : RootMap(f, parent')
          /\ Blocks0' = Joined(RootOf, s_ra, f_root)
      BY <1>2, <2>3, <3>1, LinkRoots
    <3> QED BY <3>4, <3>5
  <2> QED BY <2>1, <2>2, <2>3
<1>5. SetTypeOK'
  BY <1>1, <1>4 DEF SetIInv, SetTypeOK
<1>6. SetIInv'
  BY <1>1, <1>4, <1>5 DEF SetIInv, InFind
<1>7. LET both == Blocks0[s_call.a] \cup Blocks0[s_call.b]
      IN  Blocks0' = [x \in Members |-> IF x \in both THEN both ELSE Blocks0[x]]
  BY <1>2, <1>4, JoinedBlocks
<1>8. Sets!EndUnion
  BY <1>1, <1>7 DEF Sets!EndUnion, Sets!NoCall, NoCall, Blocks0
<1> QED BY <1>6, <1>8

(* same_set() answers for the partition as it is.                            *)
LEMMA SameSimulates ==
    ASSUME SetIInv, SameReturns
    PROVE  SetIInv' /\ Sets!EndSame
<1>1. /\ s_pc = "b" /\ Found /\ s_call.op = "same" /\ s_call' = NoCall
      /\ s_pc' = "none" /\ f_root' = f_root /\ f_i' = f_i /\ s_ra' = s_ra
      /\ parent' = parent /\ rank' = rank /\ s_answer' = (s_ra = f_root)
  BY DEF SameReturns
<1>2. /\ s_ra = RootOf[s_call.a] /\ f_root = RootOf[s_call.b]
      /\ s_call.a \in Members /\ s_call.b \in Members
  BY <1>1, BothFound
<1>3. /\ Blocks0' = Blocks0 /\ Grounded(parent') /\ RanksGrow'
      /\ \E f : RootMap(f, parent')
  BY <1>1, SameForest
<1>4. SetTypeOK'
  BY <1>1 DEF SetIInv, SetTypeOK
<1>5. s_answer' = (s_call.a \in Blocks0[s_call.b])
  BY <1>1, <1>2 DEF Blocks0
<1>6. Sets!EndSame
  BY <1>1, <1>3, <1>5 DEF Sets!EndSame, Sets!NoCall, NoCall, Blocks0
<1> QED BY <1>1, <1>3, <1>4, <1>6 DEF SetIInv, InFind

(* At the start every element is alone.                                      *)
LEMMA InitSets == SetInit => SetIInv /\ Sets!Init
<1> SUFFICES ASSUME SetInit PROVE SetIInv /\ Sets!Init
  OBVIOUS
<1>1. /\ parent = [x \in Members |-> x] /\ rank = [x \in Members |-> 0]
      /\ 0 \in Members /\ s_call = NoCall /\ s_pc = "none" /\ s_answer = FALSE
      /\ f_root = 0 /\ f_i = 0 /\ s_ra = 0
  BY SetAssumption DEF SetInit, Members
<1>2. Grounded(parent)
  BY <1>1 DEF Grounded
<1>3. RootMap([x \in Members |-> x], parent)
  BY <1>1 DEF RootMap
<1>4. RanksGrow
  BY <1>1 DEF RanksGrow
<1>5. SetTypeOK
  BY <1>1 DEF SetTypeOK
<1>6. SetIInv
  BY <1>1, <1>2, <1>3, <1>4, <1>5 DEF SetIInv, InFind
<1>7. RootMap(RootOf, parent)
  BY <1>3, RootOfIsMap
<1>8. \A x \in Members : RootOf[x] = x
  BY <1>1, <1>6, RootFacts
<1>9. \A x \in Members : {y \in Members : RootOf[y] = RootOf[x]} = {x}
  BY <1>8
<1>10. Blocks0 = [x \in Members |-> {x}]
  BY <1>9 DEF Blocks0
<1> QED BY <1>1, <1>6, <1>10 DEF Sets!Init, Sets!NoCall, NoCall, Blocks0

(* Every step of the disjoint sets is one of the partition's, or none.       *)
LEMMA SetSimulates ==
    ASSUME SetIInv, [SetNext]_setVars
    PROVE  SetIInv' /\ [Sets!Next]_(Sets!vars)
<1>1. ASSUME NEW op \in {"union", "same"}, NEW a \in Members, NEW b \in Members,
             Call(op, a, b)
      PROVE  SetIInv' /\ Sets!Next
  BY <1>1, CallSimulates DEF Sets!Next
<1>2. ASSUME SetIInv', Blocks0' = Blocks0, s_call' = s_call, s_answer' = s_answer
      PROVE  SetIInv' /\ UNCHANGED Sets!vars
  BY <1>2 DEF Sets!vars, Blocks0
<1>3. CASE Climb
  BY <1>2, <1>3, ClimbKeeps DEF Climb, findVars
<1>4. CASE Compress
  BY <1>2, <1>4, CompressKeeps DEF Compress, findVars
<1>5. CASE FindAReturns
  BY <1>2, <1>5, FindAKeeps DEF FindAReturns
<1>6. CASE UnionReturns
  BY <1>6, UnionSimulates DEF Sets!Next
<1>7. CASE SameReturns
  BY <1>7, SameSimulates DEF Sets!Next
<1>8. CASE UNCHANGED setVars
  <2>1. /\ parent' = parent /\ rank' = rank /\ f_root' = f_root /\ f_i' = f_i
        /\ s_call' = s_call /\ s_pc' = s_pc /\ s_ra' = s_ra /\ s_answer' = s_answer
    BY <1>8 DEF setVars
  <2>2. /\ RootOf' = RootOf /\ Blocks0' = Blocks0
        /\ Grounded(parent') /\ RanksGrow' /\ \E f : RootMap(f, parent')
    BY <2>1, SameForest
  <2>3. SetTypeOK' /\ Argument' = Argument
    BY <2>1 DEF SetIInv, SetTypeOK, Argument
  <2>4. SetIInv'
    BY <2>1, <2>2, <2>3 DEF SetIInv, InFind
  <2> QED BY <1>2, <2>1, <2>2, <2>4
<1> QED BY <1>1, <1>3, <1>4, <1>5, <1>6, <1>7, <1>8 DEF SetNext

\* A root of rank r has 2^r elements below it, itself included.
TreesAreLarge ==
    \A r \in Members : parent[r] = r => 2 ^ rank[r] <= Cardinality(Blocks0[r])

\* The law of the powers of two, of which the provers know nothing else.
PowersDouble == \A n \in Nat : 2 ^ (n + 1) = 2 * 2 ^ n

(* The blocks are finite, and those of different roots disjoint.             *)
LEMMA BlocksFinite ==
    ASSUME SetIInv, NEW a \in Members
    PROVE  IsFiniteSet(Blocks0[a]) /\ Cardinality(Blocks0[a]) \in Nat
<1>1. IsFiniteSet(Members)
  BY SetAssumption, FS_Interval DEF Members
<1>2. Blocks0[a] \in SUBSET Members
  BY DEF Blocks0
<1> QED BY <1>1, <1>2, FS_Subset, FS_CardinalityType

LEMMA JoinedSize ==
    ASSUME SetIInv, NEW a \in Members, NEW b \in Members, a # b,
           parent[a] = a, parent[b] = b
    PROVE  Cardinality({y \in Members : RootOf[y] \in {a, b}})
           = Cardinality(Blocks0[a]) + Cardinality(Blocks0[b])
<1>1. RootOf[a] = a /\ RootOf[b] = b
  BY RootFacts
<1>2. {y \in Members : RootOf[y] \in {a, b}} = Blocks0[a] \cup Blocks0[b]
      /\ Blocks0[a] \cap Blocks0[b] = {}
  BY <1>1 DEF Blocks0
<1>3. /\ IsFiniteSet(Blocks0[a]) /\ Cardinality(Blocks0[a]) \in Nat
      /\ IsFiniteSet(Blocks0[b]) /\ Cardinality(Blocks0[b]) \in Nat
  BY BlocksFinite
<1>4. Cardinality(Blocks0[a] \cup Blocks0[b])
      = Cardinality(Blocks0[a]) + Cardinality(Blocks0[b])
        - Cardinality(Blocks0[a] \cap Blocks0[b])
  BY <1>3, FS_Union
<1>5. Cardinality(Blocks0[a] \cap Blocks0[b]) = 0
  BY <1>2, FS_EmptySet
<1>6. Cardinality({y \in Members : RootOf[y] \in {a, b}})
      = Cardinality(Blocks0[a] \cup Blocks0[b])
  BY <1>2
<1>7. Cardinality(Blocks0[a] \cup Blocks0[b])
      = Cardinality(Blocks0[a]) + Cardinality(Blocks0[b])
  BY <1>3, <1>4, <1>5
<1> QED BY <1>6, <1>7

(* A rank grows only when two trees of that rank become one.                 *)
LEMMA LinkSizes ==
    ASSUME PowersDouble, SetIInv, TreesAreLarge,
           NEW a \in Members, NEW b \in Members, a # b,
           parent[a] = a, parent[b] = b, rank[b] <= rank[a],
           parent' = [parent EXCEPT ![b] = a],
           rank' = IF rank[a] = rank[b] THEN [rank EXCEPT ![a] = @ + 1] ELSE rank
    PROVE  TreesAreLarge'
<1>1. /\ rank \in [Members -> Nat] /\ parent \in [Members -> Members]
      /\ rank[a] \in Nat /\ rank[b] \in Nat
  BY DEF SetIInv, SetTypeOK
<1>2. Blocks0' = Joined(RootOf, a, b)
  BY LinkRoots
<1>3. \A x \in Members :
        Blocks0'[x] = IF RootOf[x] \in {a, b} THEN {y \in Members : RootOf[y] \in {a, b}}
                      ELSE {y \in Members : RootOf[y] = RootOf[x]}
  BY <1>2 DEF Joined
<1>4. RootOf[a] = a /\ RootOf[b] = b
  BY RootFacts
<1>5. parent'[b] = a /\ \A x \in Members : x # b => parent'[x] = parent[x]
  BY <1>1
<1>6. \A x \in Members : x # a => rank'[x] = rank[x]
  BY <1>1
<1> SUFFICES ASSUME NEW r \in Members, parent'[r] = r
             PROVE  2 ^ rank'[r] <= Cardinality(Blocks0'[r])
  BY DEF TreesAreLarge
<1>7. r # b /\ parent[r] = r /\ RootOf[r] = r
  BY <1>5, RootFacts
<1>8. CASE r # a
  <2>1. Blocks0'[r] = Blocks0[r]
    BY <1>3, <1>7, <1>8 DEF Blocks0
  <2>2. rank'[r] = rank[r]
    BY <1>6, <1>8
  <2> QED BY <1>7, <2>1, <2>2 DEF TreesAreLarge
<1>9. CASE r = a
  <2> DEFINE A == Cardinality(Blocks0[a])
             B == Cardinality(Blocks0[b])
  <2>1. A \in Nat /\ B \in Nat
    BY BlocksFinite
  <2>2. Cardinality(Blocks0'[a]) = A + B
    BY <1>3, <1>4, JoinedSize, ZenonT(60)
  <2>3. 2 ^ rank[a] <= A /\ 2 ^ rank[b] <= B
    BY DEF TreesAreLarge
  <2> HIDE DEF A, B
  <2>4. 2 ^ rank[a] \in Int
    BY <1>1
  <2>5. CASE rank[a] = rank[b]
    <3>1. rank'[a] = rank[a] + 1
      BY <1>1, <2>5
    <3>2. 2 ^ (rank[a] + 1) = 2 * 2 ^ rank[a]
      BY <1>1 DEF PowersDouble
    <3>3. 2 ^ rank[a] <= B
      BY <2>3, <2>5
    <3> DEFINE p == 2 ^ rank[a]
    <3>4. p \in Int /\ p <= A /\ p <= B
      BY <2>3, <2>4, <3>3
    <3>5. 2 ^ rank'[a] = 2 * p
      BY <3>1, <3>2
    <3> HIDE DEF p
    <3>6. 2 * p <= A + B
      BY <2>1, <3>4
    <3> QED BY <1>9, <2>2, <3>5, <3>6
  <2>6. CASE rank[a] # rank[b]
    <3>1. rank'[a] = rank[a]
      BY <2>6
    <3> DEFINE p == 2 ^ rank[a]
    <3>2. p \in Int /\ p <= A
      BY <2>3, <2>4
    <3>3. 2 ^ rank'[a] = p
      BY <3>1
    <3> HIDE DEF p
    <3>4. p <= A + B
      BY <2>1, <3>2
    <3> QED BY <1>9, <2>2, <3>3, <3>4
  <2> QED BY <2>5, <2>6
<1> QED BY <1>8, <1>9

(* No step makes a tree too small for the rank of its root.                  *)
LEMMA SizesStep ==
    ASSUME PowersDouble, SetIInv, TreesAreLarge, [SetNext]_setVars
    PROVE  TreesAreLarge'
<1>1. ASSUME parent' = parent, rank' = rank PROVE TreesAreLarge'
  <2>1. Blocks0' = Blocks0
    BY <1>1, SameForest
  <2> QED BY <1>1, <2>1 DEF TreesAreLarge
<1>2. ASSUME NEW op, NEW a, NEW b, Call(op, a, b) PROVE TreesAreLarge'
  BY <1>1, <1>2 DEF Call
<1>3. CASE Compress
  <2>1. /\ parent' = [parent EXCEPT ![f_i] = f_root] /\ rank' = rank
        /\ f_i \in Members /\ parent \in [Members -> Members]
        /\ parent[f_root] = f_root /\ parent[f_i] # f_root
    BY <1>3 DEF Compress, SetIInv, SetTypeOK
  <2>2. Blocks0' = Blocks0
    BY <1>3, CompressKeeps
  <2>3. \A r \in Members : parent'[r] = r => parent[r] = r
    BY <2>1
  <2> QED BY <2>1, <2>2, <2>3 DEF TreesAreLarge
<1>4. CASE UnionReturns
  <2>1. /\ s_pc = "b" /\ Found
    BY <1>4 DEF UnionReturns
  <2>2. /\ s_ra \in Members /\ f_root \in Members
        /\ parent[s_ra] = s_ra /\ parent[f_root] = f_root
    BY <2>1, BothFound
  <2>3. rank[s_ra] \in Nat /\ rank[f_root] \in Nat
    BY <2>2 DEF SetIInv, SetTypeOK
  <2>4. CASE s_ra = f_root
    BY <1>1, <1>4, <2>4 DEF UnionReturns
  <2>5. CASE s_ra # f_root /\ rank[s_ra] < rank[f_root]
    <3>1. parent' = [parent EXCEPT ![s_ra] = f_root] /\ rank' = rank
      BY <1>4, <2>5 DEF UnionReturns, Link
    <3>2. rank[s_ra] <= rank[f_root] /\ rank[s_ra] # rank[f_root]
      BY <2>3, <2>5, SMT
    <3>3. rank' = IF rank[f_root] = rank[s_ra] THEN [rank EXCEPT ![f_root] = @ + 1]
                  ELSE rank
      BY <3>1, <3>2
    <3> QED BY <2>2, <2>5, <3>1, <3>2, <3>3, LinkSizes
  <2>6. CASE s_ra # f_root /\ ~(rank[s_ra] < rank[f_root])
    <3>1. /\ parent' = [parent EXCEPT ![f_root] = s_ra]
          /\ rank' = IF rank[s_ra] = rank[f_root] THEN [rank EXCEPT ![s_ra] = @ + 1]
                     ELSE rank
      BY <1>4, <2>6 DEF UnionReturns, Link
    <3>2. rank[f_root] <= rank[s_ra]
      BY <2>3, <2>6, SMT
    <3> QED BY <2>2, <2>6, <3>1, <3>2, LinkSizes
  <2> QED BY <2>4, <2>5, <2>6
<1>5. CASE Climb
  BY <1>1, <1>5 DEF Climb
<1>6. CASE FindAReturns
  BY <1>1, <1>6 DEF FindAReturns
<1>7. CASE SameReturns
  BY <1>1, <1>7 DEF SameReturns
<1>8. CASE UNCHANGED setVars
  BY <1>1, <1>8 DEF setVars
<1> QED BY <1>2, <1>3, <1>4, <1>5, <1>6, <1>7, <1>8 DEF SetNext

(* At the start a root has no rank and itself below it.                      *)
LEMMA InitSizes == SetInit => TreesAreLarge
<1> SUFFICES ASSUME SetInit, NEW r \in Members
             PROVE  2 ^ rank[r] <= Cardinality(Blocks0[r])
  BY DEF TreesAreLarge
<1>1. rank[r] = 0
  BY DEF SetInit
<1>2. SetIInv /\ Sets!Init
  BY InitSets
<1>3. Blocks0[r] = {r}
  BY <1>2 DEF Sets!Init, Blocks0
<1>4. Cardinality({r}) = 1
  BY FS_Singleton
<1>5. 2 ^ 0 = 1
  OBVIOUS
<1> QED BY <1>1, <1>3, <1>4, <1>5

(* RanksBound is the growth of the ranks and the size of the trees.          *)
LEMMA RanksBoundGives ==
    ASSUME SetIInv, TreesAreLarge
    PROVE  RanksBound
<1>1. \A x \in Members : parent[x] # x => rank[x] < rank[parent[x]]
  BY DEF SetIInv, RanksGrow
<1>2. ASSUME NEW r \in Members, parent[r] = r
      PROVE  2 ^ rank[r] <= Cardinality({x \in Members : RootOf[x] = r})
  <2>1. RootOf[r] = r
    BY <1>2, RootFacts
  <2>2. Blocks0[r] = {x \in Members : RootOf[x] = r}
    BY <2>1 DEF Blocks0
  <2> QED BY <1>2, <2>2 DEF TreesAreLarge
<1> QED BY <1>1, <1>2 DEF RanksBound

-----------------------------------------------------------------------------
\* The parts together.

(* A step of the system is for every part a step of its own or none.         *)
LEMMA EachPartSteps ==
    ASSUME [PartsNext]_partsVars
    PROVE  /\ [QueueNext]_queueVars /\ [PipeNext]_pipeVars /\ [SchedNext]_schedVars
           /\ [MeshNext]_meshVars /\ [KernelNext]_kernelVars /\ [LocalNext]_localVars
           /\ [FlowNext]_flowVars /\ [PersistentNext]_persistentVars
           /\ [AuditNext]_auditVars /\ [SetNext]_setVars /\ [SoaNext]_soaVars
           /\ [MinNext]_minVars /\ [TableNext]_tableVars
BY DEF PartsNext, partsVars, testVars

\* The invariants of all parts but the queue.
PartsIInv ==
    /\ PipeIInv /\ BagIInv /\ MeshIInv /\ KernelIInv /\ LocalIInv
    /\ FlowIInv /\ FileIInv /\ FileSized /\ AuditIInv /\ SetIInv /\ SoaIInv /\ MinIInv
    /\ TableIInv /\ SumsIInv

(* Whatever part runs, the invariants of all of them hold.                   *)
THEOREM PartsInvariance == PartsSpec => []PartsIInv
<1>1. PartsInit => PartsIInv
  BY InitPipe, InitBag, InitMesh, InitKernel, InitLocal, InitFlow, InitFile, InitSized,
     InitAudit, InitSets, InitSoa, InitMin, InitTable, InitSums
     DEF PartsInit, PartsIInv
<1>2. PartsIInv /\ [PartsNext]_partsVars => PartsIInv'
  <2> SUFFICES ASSUME PartsIInv, [PartsNext]_partsVars PROVE PartsIInv'
    OBVIOUS
  <2> QED BY EachPartSteps, PipeStep, HeapSimulates, MeshStep, KernelStep, LocalStep,
             FlowStep, FileStep, AuditStep, SetSimulates, SoaStep, MinSimulates,
             TableSimulates, SumsStep DEF PartsIInv
<1> QED BY <1>1, <1>2, PTL DEF PartsSpec

(* The system runs the queue as NetworkQueue describes it.                   *)
THEOREM QueueRuns == PartsSpec => QueueSpec
<1>1. PartsInit => QueueInit
  BY DEF PartsInit
<1>2. [PartsNext]_partsVars => [QueueNext]_queueVars
  BY EachPartSteps
<1> QED BY <1>1, <1>2, PTL DEF PartsSpec, QueueSpec

(* The threads of the network programs never race for a slot of the queue.   *)
THEOREM PartsNoRace == PartsSpec => []SlotsRaceFree
BY QueueRuns, QueueNoRace, PTL

(* size() of the queue is safe for both threads, however old what they load. *)
THEOREM PartsSizeExact == PartsSpec => []SizeSafe
BY QueueRuns, QueueSizeExact, PTL

(* The queue of the network programs is a bounded FIFO of whole elements.    *)
THEOREM PartsFifo == PartsSpec => ImplementsFifo
BY QueueRuns, QueueIsFifo, PTL

(* The variables of every part have their types.                             *)
THEOREM TypesHold == PartsSpec => []PartsTypeOK
<1>1. QueueIInv => QueueTypeOK
  BY DEF QueueIInv
<1>2. QueueTypeOK /\ PartsIInv => PartsTypeOK
  BY DEF PartsTypeOK, PartsIInv, PipeIInv, BagIInv, HeapIInv, MeshIInv, KernelIInv, LocalIInv,
         FlowIInv, FileIInv, AuditIInv, SetIInv, SoaIInv, MinIInv, TableIInv
<1> QED BY <1>1, <1>2, QueueRuns, QueueInvariance, PartsInvariance, PTL

(* The ring of the kernel owes a completion more for every packet that the   *)
(* network thread dispatched.                                                *)
THEOREM RingKeepsOwing == PartsSpec => []RingOwes
<1>1. PartsIInv => RingOwes
  BY DEF PartsIInv, PipeIInv
<1> QED BY <1>1, PartsInvariance, PTL

(* The heap of the scheduler is ordered, in a call everywhere but at the     *)
(* node that moves.                                                          *)
THEOREM HeapIsOrdered == PartsSpec => []HeapOrder
<1>1. PartsIInv => HeapOrder
  BY DEF PartsIInv, BagIInv, HeapIInv
<1> QED BY <1>1, PartsInvariance, PTL

(* The heap keeps every task that was pushed, and the task that pop() takes  *)
(* has the greatest priority: it is a priority queue.                        *)
THEOREM HeapIsPriorityQueue == PartsSpec => HeapImplementsBag
<1>1. PartsInit => Queue!Init
  BY InitBag DEF PartsInit
<1>2. PartsIInv /\ [PartsNext]_partsVars => [Queue!Next]_<<HeapBag, h_root>>
  BY EachPartSteps, HeapSimulates DEF PartsIInv
<1> QED BY <1>1, <1>2, PartsInvariance, PTL DEF PartsSpec, HeapImplementsBag, Queue!Spec

(* So is the heap of points: pop() returns a point that none queued is less  *)
(* than, and neither push() nor pop() loses or doubles another handle.       *)
THEOREM MinHeapIsPriorityQueue == PartsSpec => MinHeapImplementsBag
<1>1. PartsInit => MinQueue!Init
  BY InitMin DEF PartsInit
<1>2. PartsIInv /\ [PartsNext]_partsVars => [MinQueue!Next]_<<MinBag, b_out>>
  BY EachPartSteps, MinSimulates DEF PartsIInv
<1> QED BY <1>1, <1>2, PartsInvariance, PTL DEF PartsSpec, MinHeapImplementsBag, MinQueue!Spec

(* When max_entries is a power of two, a handle that insert() stored is what *)
(* get() returns for its key, and an insert is dropped only when max_entries *)
(* other keys are in the table.                                              *)
THEOREM TableIsDictionary ==
    ASSUME PowerOfTwo(MaxEntries)
    PROVE  PartsSpec => TableImplementsDict
<1>1. PartsInit => Dict!Init
  BY InitTable DEF PartsInit
<1>2. PartsIInv /\ [PartsNext]_partsVars
         => [Dict!Next]_<<[key \in TableKeys |-> Get(key)], t_call>>
  BY EachPartSteps, TableSimulates, MaskingIsDict DEF PartsIInv
<1> QED BY <1>1, <1>2, PartsInvariance, PTL DEF PartsSpec, TableImplementsDict, Dict!Spec

(* No edge that can still take flow falls by more than one height, but while *)
(* the node of a sweep is being lifted.                                      *)
THEOREM HeightsFall == PartsSpec => []HeightsFallByOne
<1>1. PartsIInv => HeightsFallByOne
  BY DEF PartsIInv, FlowIInv
<1> QED BY <1>1, PartsInvariance, PTL

(* No edge carries more than it can, no node owes, what left the source is  *)
(* at the nodes, and the sink has no more than the least cut lets through.   *)
THEOREM FlowStaysPreflow == PartsSpec => []Preflow
<1>1. PartsIInv => Preflow
  BY FlowIsPreflow DEF PartsIInv
<1> QED BY <1>1, PartsInvariance, PTL

(* The lookup by groups of lanes returns what the search slot by slot stored, *)
(* for every key whose probes no removal made a hole in.                     *)
THEOREM LookupsAreRight == PartsSpec => []LookupRight
<1>1. PartsIInv => LookupRight
  BY LookupFinds DEF PartsIInv
<1> QED BY <1>1, PartsInvariance, PTL

(* Path compression moves no element to another set, a union joins the sets  *)
(* of its two arguments and no third one, and same_set() answers for the     *)
(* partition as it is.                                                       *)
THEOREM SetsAreAPartition == PartsSpec => SetsImplementPartition
<1>1. PartsInit => Sets!Init
  BY InitSets DEF PartsInit
<1>2. PartsIInv /\ [PartsNext]_partsVars => [Sets!Next]_(Sets!vars)
  BY EachPartSteps, SetSimulates DEF PartsIInv
<1> QED BY <1>1, <1>2, PartsInvariance, PTL
        DEF PartsSpec, SetsImplementPartition, Sets!Spec

(* Ranks grow along the parents, and a root of rank r has 2^r elements below *)
(* it: find_set() ends, after at most as many links as the logarithm of the  *)
(* number of elements.                                                       *)
THEOREM RanksAreLogarithms ==
    ASSUME PowersDouble
    PROVE  PartsSpec => []RanksBound
<1>1. PartsInit => TreesAreLarge
  BY InitSizes DEF PartsInit
<1>2. PartsIInv /\ TreesAreLarge /\ [PartsNext]_partsVars => TreesAreLarge'
  BY EachPartSteps, SizesStep DEF PartsIInv
<1>3. PartsIInv /\ TreesAreLarge => RanksBound
  BY RanksBoundGives DEF PartsIInv
<1> QED BY <1>1, <1>2, <1>3, PartsInvariance, PTL DEF PartsSpec

(* A kernel that returns has loaded and stored every element of its arrays,  *)
(* each once, the masked or scalar tail included, for every count; and on    *)
(* the way it touches nothing past their end.                                *)
THEOREM KernelsAreExact == PartsSpec => []KernelsCoverExactly
<1>1. PartsIInv => KernelsCoverExactly
  BY CoversExactly DEF PartsIInv
<1> QED BY <1>1, PartsInvariance, PTL

(* No two live regions of the threads' arenas overlap, whatever objects the  *)
(* threads make and release.                                                 *)
THEOREM ThreadsKeepApart == PartsSpec => []BlocksPrivate
<1>1. PartsIInv => BlocksPrivate
  BY BlocksArePrivate DEF PartsIInv
<1> QED BY <1>1, PartsInvariance, PTL

(* The file of the persistent program holds datagrams of the run that wrote  *)
(* it, the last cycle's whole, and where the inspector finds a signature a   *)
(* datagram is whole.                                                        *)
THEOREM FileHoldsThisRun == PartsSpec => []FileIsThisRun
<1>1. PartsIInv => FileIsThisRun
  BY FileOfThisRun DEF PartsIInv
<1> QED BY <1>1, PartsInvariance, PTL

(* The audit file that is closed has a row for every datagram counted.       *)
THEOREM AuditIsComplete == PartsSpec => []CsvComplete
<1>1. PartsIInv => CsvComplete
  BY DEF PartsIInv, AuditIInv
<1> QED BY <1>1, PartsInvariance, PTL
=============================================================================
