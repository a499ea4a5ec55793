--------------------------- MODULE JournalProofs ---------------------------
(***************************************************************************)
(* Proofs that a slot of the journal whose header does not describe its    *)
(* payload was being written when the process died, and that the newest    *)
(* datagrams are in the file whole, for any size of the file and of the    *)
(* records.                                                                *)
(***************************************************************************)
EXTENDS Journal, SharedLemmas, FiniteSetTheorems

N == ArenaSize \div Needed

\* What the header stored so far says of the datagram in the slot.
Stored ==
    pc = "header" =>
        /\ \A b \in 1 .. arrived.len : m[slot].payload[b] = arrived.id
        /\ "timestamp_ns" \notin unset => m[slot].timestamp_ns = arrived.id
        /\ "payload_len" \notin unset => m[slot].payload_len = arrived.len

IInv == TypeOK /\ Stored /\ TornOnlyByCrashes
-----------------------------------------------------------------------------
(* The file has at least one slot, and there are finitely many. *)
LEMMA SlotCount ==
    /\ N \in Nat \ {0}
    /\ Slots = 0 .. N - 1
    /\ IsFiniteSet(Slots) /\ Cardinality(Slots) = N
<1>1. N \in Nat \ {0}
  BY JournalAssumption, FitsIsSlot, SMT DEF N
<1>2. Slots = 0 .. N - 1
  BY DEF Slots, N
<1> HIDE DEF N
<1>3. IsFiniteSet(0 .. N - 1) /\ Cardinality(0 .. N - 1) = N
  BY <1>1, FS_Interval
<1> QED BY <1>1, <1>2, <1>3

(* The reservation in use is a slot of the file. *)
LEMMA SlotInFile ==
    ASSUME TypeOK PROVE slot \in Slots
<1>1. PICK s \in Slots : curr_off = s * Needed
  BY DEF TypeOK
<1>2. s \in Nat
  BY SlotCount
<1>3. (s * Needed) \div Needed = s
  BY <1>2, JournalAssumption, SlotOfMultiple
<1> QED BY <1>1, <1>3 DEF slot, SlotAt

(* The history keeps at most a cycle of reservations. *)
LEMMA WindowType ==
    ASSUME TypeOK, NEW d \in Datagram
    PROVE  With(d) \in Seq(Datagram) /\ Len(With(d)) <= Cardinality(Slots)
<1>1. window \in Seq(Datagram) /\ Len(window) <= Cardinality(Slots)
  BY DEF TypeOK
<1>2. Cardinality(Slots) \in Nat \ {0}
  BY SlotCount
<1>3. With(d) = Slide(window, Cardinality(Slots), d)
  BY DEF With, Slide
<1> QED BY <1>1, <1>2, <1>3, WindowMoves

(* What recv() is asked to skip is no datagram.                              *)
LEMMA SkippedType == Skipped \in Datagram
BY JournalAssumption DEF Skipped, Datagram, Ids
-----------------------------------------------------------------------------
LEMMA TypeInit == Init => TypeOK
<1> SUFFICES ASSUME Init PROVE TypeOK
  OBVIOUS
<1> USE JournalAssumption
<1>1. m \in [Slots -> Record]
  BY DEF Init, Blank, Record, Ids, Lens
<1>2. (0 * Needed) = 0 /\ 0 \in 0 .. N /\ 0 \in Slots
  BY SlotCount
<1>3. \E s \in 0 .. ArenaSize \div Needed : offset = s * Needed
  BY <1>2 DEF Init, N
<1>4. \E s \in Slots : curr_off = s * Needed
  BY <1>2 DEF Init
<1>5. window \in Seq(Datagram) /\ Len(window) <= Cardinality(Slots)
  BY SlotCount DEF Init
<1>6. received \in Ids /\ before \in 0 .. received /\ crashes \in 0 .. MaxCrashes
  BY DEF Init, Ids
<1> QED BY <1>1, <1>3, <1>4, <1>5, <1>6, SkippedType DEF Init, TypeOK

LEMMA TypeReserve ==
    ASSUME TypeOK, Reserve PROVE TypeOK'
<1>1. PICK s \in 0 .. N : offset = s * Needed
  BY DEF TypeOK, N
<1>2. s \in Nat /\ Needed \in Nat \ {0} /\ ArenaSize \in Nat
  BY <1>1, SlotCount, JournalAssumption
<1>3. CASE offset + Needed > ArenaSize
  <2>1. offset' = 0 * Needed /\ 0 \in 0 .. N
    BY <1>2, <1>3, SlotCount DEF Reserve
  <2>2. \E k \in 0 .. ArenaSize \div Needed : offset' = k * Needed
    BY <2>1 DEF N
  <2> QED BY <1>3, <2>2 DEF Reserve, TypeOK
<1>4. CASE ~(offset + Needed > ArenaSize)
  <2>1. s + 1 <= N
    <3>1. s * Needed + Needed <= ArenaSize
      BY <1>1, <1>2, <1>4
    <3> QED BY <1>2, <3>1, FitsIsSlot DEF N
  <2>2. s \in Slots /\ s + 1 \in 0 .. N
    BY <1>2, <2>1, SlotCount
  <2>3. offset' = (s + 1) * Needed /\ curr_off' = s * Needed /\ pc' = "recv"
    <3>1. offset' = s * Needed + Needed
      BY <1>1, <1>4 DEF Reserve
    <3>2. s * Needed + Needed = (s + 1) * Needed
      BY <1>2
    <3> QED BY <1>1, <1>4, <3>1, <3>2 DEF Reserve
  <2>4. \E k \in 0 .. ArenaSize \div Needed : offset' = k * Needed
    BY <2>2, <2>3 DEF N
  <2>5. \E k \in Slots : curr_off' = k * Needed
    BY <2>2, <2>3
  <2> QED BY <2>3, <2>4, <2>5 DEF Reserve, TypeOK
<1> QED BY <1>3, <1>4

LEMMA TypeRecv ==
    ASSUME TypeOK, NEW len \in Lens, Recv(len) PROVE TypeOK'
<1> USE JournalAssumption
<1>1. slot \in Slots
  BY SlotInFile
<1>2. received + 1 \in Ids
  BY DEF TypeOK, Recv, Ids
<1>3. arrived' \in Datagram
  BY <1>2 DEF Recv, Datagram, Lens
<1>4. m' \in [Slots -> Record]
  <2> DEFINE p == [b \in Lens |-> IF b <= len THEN received + 1 ELSE m[slot].payload[b]]
  <2>1. m[slot] \in Record
    BY <1>1 DEF TypeOK
  <2>2. p \in [Lens -> Ids]
    BY <1>2, <2>1 DEF Record
  <2>3. [m[slot] EXCEPT !.payload = p] \in Record
    <3> HIDE DEF p
    <3> QED BY <2>1, <2>2 DEF Record
  <2>4. m' = [m EXCEPT ![slot] = [m[slot] EXCEPT !.payload = p]]
    BY <1>1 DEF Recv, TypeOK
  <2> HIDE DEF p
  <2> QED BY <1>1, <2>3, <2>4 DEF TypeOK
<1>5. before' \in 0 .. received' /\ received' \in Ids
  BY <1>2 DEF TypeOK, Recv, Ids
<1> QED BY <1>3, <1>4, <1>5 DEF TypeOK, Recv

LEMMA TypeStoreField ==
    ASSUME TypeOK, NEW f \in HeaderFields, StoreField(f) PROVE TypeOK'
<1>1. slot \in Slots /\ m[slot] \in Record /\ arrived \in Datagram
  BY SlotInFile DEF TypeOK
<1>2. m' \in [Slots -> Record]
  BY <1>1 DEF StoreField, TypeOK, Record, Datagram
<1>3. unset' \subseteq HeaderFields
  BY DEF StoreField, TypeOK
<1>4. /\ pc' \in {"reserve", "header"}
      /\ window' \in Seq(Datagram) /\ Len(window') <= Cardinality(Slots)
  BY <1>1, WindowType DEF StoreField, TypeOK
<1> QED BY <1>2, <1>3, <1>4 DEF StoreField, TypeOK

LEMMA TypeStep ==
    ASSUME TypeOK, [Next]_vars PROVE TypeOK'
<1>1. CASE Start
  BY <1>1, JournalAssumption, SlotCount, EmptySeq DEF Start, TypeOK, Ids, N
<1>2. CASE Reserve
  BY <1>2, TypeReserve
<1>3. CASE \E len \in Lens : Recv(len)
  BY <1>3, TypeRecv
<1>4. CASE RecvNothing
  BY <1>4, WindowType, SkippedType DEF RecvNothing, TypeOK
<1>5. CASE \E f \in HeaderFields : StoreField(f)
  BY <1>5, TypeStoreField
<1>6. CASE Crash
  BY <1>6, JournalAssumption, SlotCount, SkippedType DEF Crash, TypeOK, N
<1>7. CASE UNCHANGED vars
  BY <1>7 DEF vars, TypeOK
<1> QED BY <1>1, <1>2, <1>3, <1>4, <1>5, <1>6, <1>7 DEF Next

(* TypeOK for every size of the file, and with it that every reservation   *)
(* the loop uses is a whole slot of the file (lines 49-56).                *)
THEOREM TypeCorrect == Spec => []TypeOK
<1>1. Init => TypeOK
  BY TypeInit
<1>2. TypeOK /\ [Next]_vars => TypeOK'
  BY TypeStep
<1> QED BY <1>1, <1>2, PTL DEF Spec
-----------------------------------------------------------------------------
(* A step that writes in one slot only leaves the others as torn as they were. *)
LEMMA SameElsewhere ==
    ASSUME NEW i \in Slots, \A s \in Slots \ {i} : m'[s] = m[s]
    PROVE  Torn' \ {i} = Torn \ {i}
BY DEF Torn, Describes

(* Torn slots are finitely many; fewer slots have no more of them. *)
LEMMA TornFinite ==
    ASSUME NEW T \in SUBSET Slots, NEW S \in SUBSET T
    PROVE  /\ Cardinality(S) \in Nat /\ Cardinality(T) \in Nat
           /\ Cardinality(S) <= Cardinality(T)
<1>1. IsFiniteSet(T)
  BY SlotCount, FS_Subset
<1>2. IsFiniteSet(S) /\ Cardinality(S) <= Cardinality(T)
  BY <1>1, FS_Subset
<1> QED BY <1>1, <1>2, FS_CardinalityType

(* Receiving into a slot starts a header: the slot is in progress, and may be *)
(* torn from now on.                                                          *)
LEMMA RecvStep ==
    ASSUME IInv, NEW len \in Lens, Recv(len) PROVE Stored' /\ TornOnlyByCrashes'
<1>1. slot \in Slots /\ m[slot] \in Record /\ slot' = slot
  BY SlotInFile DEF IInv, TypeOK, Recv, slot, SlotAt
<1>2. /\ pc' = "header" /\ unset' = HeaderFields /\ crashes' = crashes
      /\ arrived' = [id |-> received + 1, len |-> len]
      /\ \A b \in 1 .. len : m'[slot].payload[b] = received + 1
      /\ \A s \in Slots \ {slot} : m'[s] = m[s]
  BY <1>1, JournalAssumption DEF IInv, TypeOK, Recv, Record, Lens
<1>3. Stored'
  BY <1>1, <1>2 DEF Stored, HeaderFields
<1>4. Torn' \ InProgress' = Torn \ {slot}
  BY <1>1, <1>2, SameElsewhere DEF InProgress
<1>5. InProgress = {} /\ Torn \subseteq Slots
  BY DEF Recv, InProgress, Torn
<1>6. Cardinality(Torn \ {slot}) <= Cardinality(Torn \ InProgress)
  BY <1>5, TornFinite
<1>7. TornOnlyByCrashes'
  <2>1. /\ Cardinality(Torn \ {slot}) \in Nat
        /\ Cardinality(Torn \ InProgress) \in Nat
    BY <1>5, TornFinite
  <2>2. Cardinality(Torn \ InProgress) <= crashes /\ crashes \in Nat
    BY JournalAssumption DEF IInv, TypeOK, TornOnlyByCrashes
  <2>3. Cardinality(Torn \ {slot}) <= crashes
    BY <1>6, <2>1, <2>2
  <2> QED BY <1>2, <1>4, <2>3 DEF TornOnlyByCrashes
<1> QED BY <1>3, <1>7

(* A store of one field leaves what the others say of the datagram.          *)
LEMMA FieldStored ==
    ASSUME IInv, NEW f \in HeaderFields, StoreField(f)
    PROVE  /\ slot \in Slots /\ arrived \in Datagram /\ slot' = slot
           /\ pc = "header" /\ unset \subseteq HeaderFields
           /\ arrived' = arrived /\ crashes' = crashes
           /\ \A s \in Slots \ {slot} : m'[s] = m[s]
           /\ m'[slot].magic = (f = "magic" \/ m[slot].magic)
           /\ \A b \in 1 .. arrived.len : m'[slot].payload[b] = arrived.id
           /\ "timestamp_ns" \notin unset' => m'[slot].timestamp_ns = arrived.id
           /\ "payload_len" \notin unset' => m'[slot].payload_len = arrived.len
<1>1. /\ slot \in Slots /\ m[slot] \in Record /\ arrived \in Datagram
      /\ slot' = slot /\ pc = "header" /\ unset \subseteq HeaderFields
      /\ arrived' = arrived /\ crashes' = crashes
  BY SlotInFile DEF IInv, TypeOK, StoreField, slot, SlotAt
<1>2. /\ m'[slot].payload = m[slot].payload
      /\ m'[slot].timestamp_ns =
           IF f = "timestamp_ns" THEN arrived.id ELSE m[slot].timestamp_ns
      /\ m'[slot].payload_len =
           IF f = "payload_len" THEN arrived.len ELSE m[slot].payload_len
      /\ m'[slot].magic = (f = "magic" \/ m[slot].magic)
      /\ \A s \in Slots \ {slot} : m'[s] = m[s]
  BY <1>1 DEF IInv, TypeOK, StoreField
<1> QED BY <1>1, <1>2 DEF IInv, Stored, StoreField

(* Storing the last field makes the header describe the payload; storing one *)
(* before it leaves the slot in progress.                                    *)
LEMMA StoreFieldStep ==
    ASSUME IInv, NEW f \in HeaderFields, StoreField(f)
    PROVE  Stored' /\ TornOnlyByCrashes'
<1>1. /\ slot' = slot /\ slot \in Slots /\ pc = "header" /\ crashes' = crashes
      /\ arrived' = arrived
  BY FieldStored
<1>2. \A s \in Slots \ {slot} : m'[s] = m[s]
  BY FieldStored
<1>3. /\ \A b \in 1 .. arrived.len : m'[slot].payload[b] = arrived.id
      /\ "timestamp_ns" \notin unset' => m'[slot].timestamp_ns = arrived.id
      /\ "payload_len" \notin unset' => m'[slot].payload_len = arrived.len
  BY FieldStored
<1>4. Stored'
  BY <1>1, <1>3 DEF Stored
<1>5. Torn' \ InProgress' = Torn \ InProgress
  <2>1. InProgress = {slot} /\ Torn' \ {slot} = Torn \ {slot}
    BY <1>1, <1>2, SameElsewhere DEF InProgress
  <2>2. CASE unset' = {}
    <3>1. m'[slot].timestamp_ns = arrived.id /\ m'[slot].payload_len = arrived.len
      BY <1>3, <2>2
    <3>2. slot \notin Torn'
      BY <1>3, <3>1 DEF Torn, Describes
    <3>3. InProgress' = {}
      BY <2>2 DEF InProgress, StoreField
    <3> QED BY <2>1, <3>2, <3>3
  <2>3. CASE unset' # {}
    <3>1. InProgress' = {slot}
      BY <1>1, <2>3 DEF InProgress, StoreField
    <3> QED BY <2>1, <3>1
  <2> QED BY <2>2, <2>3
<1> QED BY <1>1, <1>4, <1>5 DEF IInv, TornOnlyByCrashes

(* A crash makes at most the slot in progress one more torn slot. *)
LEMMA CrashStep ==
    ASSUME IInv, Crash PROVE Stored' /\ TornOnlyByCrashes'
<1>1. m' = m /\ pc' = "off" /\ crashes' = crashes + 1 /\ crashes \in Nat
  BY JournalAssumption DEF IInv, TypeOK, Crash
<1>2. Torn' \ InProgress' = Torn
  BY <1>1 DEF Torn, Describes, InProgress
<1> DEFINE rest == Torn \ InProgress
<1>3. rest \subseteq Slots /\ rest \cup {slot} \subseteq Slots
      /\ Torn \subseteq rest \cup {slot}
  BY SlotInFile DEF IInv, Torn, InProgress
<1>4. IsFiniteSet(rest) /\ Cardinality(rest) \in Nat
  BY <1>3, SlotCount, FS_Subset, TornFinite
<1>5. Cardinality(rest) <= crashes
  BY DEF IInv, TornOnlyByCrashes
<1> HIDE DEF rest
<1>6. Cardinality(rest \cup {slot}) <= Cardinality(rest) + 1
  <2>1. Cardinality(rest \cup {slot}) =
          IF slot \in rest THEN Cardinality(rest) ELSE Cardinality(rest) + 1
    BY <1>4, FS_AddElement
  <2> QED BY <1>4, <2>1
<1>7. /\ Cardinality(Torn) <= Cardinality(rest \cup {slot})
      /\ Cardinality(Torn) \in Nat /\ Cardinality(rest \cup {slot}) \in Nat
  BY <1>3, TornFinite
<1>8. Cardinality(Torn) <= crashes + 1
  BY <1>1, <1>4, <1>5, <1>6, <1>7
<1> QED BY <1>1, <1>2, <1>8 DEF Stored, TornOnlyByCrashes

(* Every other step leaves the file, and what is in progress, as they were. *)
LEMMA QuietStep ==
    ASSUME IInv, m' = m, crashes' = crashes, pc # "header", pc' # "header"
    PROVE  Stored' /\ TornOnlyByCrashes'
<1>1. Torn' \ InProgress' = Torn \ InProgress
  BY DEF Torn, Describes, InProgress
<1> QED BY <1>1 DEF IInv, Stored, TornOnlyByCrashes

(* The initial state, and every step.                                        *)
LEMMA InitIInv == Init => IInv
<1> SUFFICES ASSUME Init PROVE IInv
  OBVIOUS
<1>1. Torn \ InProgress = {}
  BY DEF Init, Torn, Blank
<1>2. Cardinality(Torn \ InProgress) <= crashes
  BY <1>1, FS_EmptySet DEF Init
<1> QED BY <1>2, TypeInit DEF Init, IInv, Stored, TornOnlyByCrashes

LEMMA StepIInv == IInv /\ [Next]_vars => IInv'
<1> SUFFICES ASSUME IInv, [Next]_vars PROVE Stored' /\ TornOnlyByCrashes'
  BY TypeStep DEF IInv
<1>1. CASE Start
  BY <1>1, QuietStep DEF Start
<1>2. CASE Reserve
  BY <1>2, QuietStep DEF Reserve
<1>3. CASE \E len \in Lens : Recv(len)
  BY <1>3, RecvStep
<1>4. CASE RecvNothing
  BY <1>4, QuietStep DEF RecvNothing
<1>5. CASE \E f \in HeaderFields : StoreField(f)
  BY <1>5, StoreFieldStep
<1>6. CASE Crash
  BY <1>6, CrashStep
<1>7. CASE UNCHANGED vars
  BY <1>7 DEF vars, IInv, Stored, TornOnlyByCrashes, Torn, Describes,
              InProgress, slot, SlotAt
<1> QED BY <1>1, <1>2, <1>3, <1>4, <1>5, <1>6, <1>7 DEF Next

(* TornOnlyByCrashes for every size of the file and of the records, every   *)
(* order of the header's stores, and any number of wraps, failed receives   *)
(* and restarts (lines 58-67).                                              *)
THEOREM TornBound == Spec => []TornOnlyByCrashes
<1>1. IInv => TornOnlyByCrashes
  BY DEF IInv
<1> QED BY InitIInv, StepIInv, <1>1, PTL DEF Spec
-----------------------------------------------------------------------------
\* Every entry of a history w that a cycle headed by slot h has not come round
\* to is in the file, in the slot its reservation had.
HoldsIn(file, s, d) ==
    /\ file[s].magic /\ file[s].timestamp_ns = d.id /\ file[s].payload_len = d.len
    /\ \A b \in 1 .. d.len : file[s].payload[b] = d.id
KeptIn(file, w, h) ==
    \A k \in DOMAIN w :
        w[k] # Skipped /\ Len(w) - k < N - 1
          => HoldsIn(file, Back(N, h, Len(w) - k), w[k])

\* Slot h is being written, or is the next to be: its place in the file follows
\* from the offset, and the offset from it.
Headed(h) ==
    /\ pc = "reserve" => offset = h * Needed \/ (h = 0 /\ offset = N * Needed)
    /\ pc \in {"recv", "header"} => slot = h /\ offset = (h + 1) * Needed
    /\ KeptIn(m, window, h)
MagicStored == pc = "header" /\ "magic" \notin unset => m[slot].magic
NewestIInv == IInv /\ MagicStored /\ \E h \in Slots : Headed(h)

(* A slot is in the file, and the one before a slot is one further back from *)
(* the slot after it.                                                        *)
LEMMA SlotsMove ==
    ASSUME NEW h \in Slots
    PROVE  /\ After(N, h) \in Slots /\ Back(N, After(N, h), 0) = h
           /\ \A j \in Nat : j < N - 1 =>
                 /\ Back(N, h, j) \in Slots /\ Back(N, h, j) # h
                 /\ Back(N, After(N, h), j + 1) = Back(N, h, j)
<1> N \in Nat \ {0} /\ h \in 0 .. N - 1 /\ Slots = 0 .. N - 1
  BY SlotCount
<1> HIDE DEF N
<1> QED BY BackMoves

(* With() puts an outcome at the end of the history and leaves the others    *)
(* one further back.                                                         *)
LEMMA WithMoves ==
    ASSUME TypeOK, NEW d \in Datagram
    PROVE  LET w == With(d)
           IN  /\ Len(w) \in Nat /\ DOMAIN w = 1 .. Len(w) /\ w[Len(w)] = d
               /\ \A k \in 1 .. Len(w) : k # Len(w) =>
                     \E i \in DOMAIN window : /\ w[k] = window[i]
                                             /\ Len(window) - i \in Nat
                                             /\ Len(w) - k = (Len(window) - i) + 1
<1> DEFINE w == With(d)
           c == Cardinality(Slots)
           n == Len(w)
           o == Len(window)
<1>1. window \in Seq(Datagram) /\ o \in Nat /\ DOMAIN window = 1 .. o
  BY LenProperties DEF TypeOK
<1>2. w \in Seq(Datagram) /\ w[n] = d /\ MovedBack(window, w)
  <2>1. c \in Nat \ {0} /\ o <= c
    BY SlotCount DEF TypeOK
  <2>2. w = Slide(window, c, d)
    BY DEF With, Slide
  <2> DEFINE p == Slide(window, c, d)
  <2>3. window \in Seq(Datagram) /\ Len(window) <= c
    BY <1>1, <2>1
  <2> HIDE DEF w, c
  <2>4. MovedBack(window, p)
    BY <2>1, <2>3, WindowMoves
  <2>5. p[Len(p)] = d
    BY <2>1, <2>3, WindowMoves
  <2>6. p \in Seq(Datagram)
    BY <2>1, <2>3, WindowMoves
  <2> QED BY <2>2, <2>4, <2>5, <2>6
<1> HIDE DEF w
<1>3. n \in Nat /\ DOMAIN w = 1 .. n
  BY <1>2, LenProperties
<1>4. \A k \in 1 .. n - 1 : \E i \in 1 .. o : w[k] = window[i] /\ n - k = o - i + 1
  BY <1>2 DEF MovedBack
<1> HIDE DEF n, o
<1>5. ASSUME NEW k \in 1 .. n, k # n
      PROVE  \E i \in DOMAIN window : /\ w[k] = window[i] /\ o - i \in Nat
                                     /\ n - k = (o - i) + 1
  <2>1. n \in Nat
    BY <1>3
  <2>2. k \in 1 .. n - 1
    BY <2>1, <1>5, SMT
  <2>3. PICK i \in 1 .. o : w[k] = window[i] /\ n - k = o - i + 1
    BY <1>4, <2>2
  <2>4. o \in Nat /\ i \in DOMAIN window
    BY <1>1, <2>3
  <2>5. o - i \in Nat /\ n - k = (o - i) + 1
    BY <2>3, <2>4, SMT
  <2> QED BY <2>3, <2>4, <2>5
<1> QED BY <1>2, <1>3, <1>5 DEF w, n, o

(* What the head's slot is written with does not disturb the entries that    *)
(* are kept, and a reservation that ends moves them all one further back.    *)
LEMMA KeptWhileWriting ==
    ASSUME TypeOK, NEW h \in Slots, NEW file, KeptIn(m, window, h),
           \A s \in Slots \ {h} : file[s] = m[s]
    PROVE  KeptIn(file, window, h)
<1> SUFFICES ASSUME NEW k \in DOMAIN window, window[k] # Skipped,
                    Len(window) - k < N - 1
             PROVE  HoldsIn(file, Back(N, h, Len(window) - k), window[k])
  BY DEF KeptIn
<1>1. Len(window) - k \in Nat
  <2>1. Len(window) \in Nat /\ k \in 1 .. Len(window)
    BY LenProperties DEF TypeOK
  <2> QED BY <2>1, SMT
<1>2. HoldsIn(m, Back(N, h, Len(window) - k), window[k])
  BY DEF KeptIn
<1>3. Back(N, h, Len(window) - k) \in Slots \ {h}
  BY <1>1, SlotsMove
<1> QED BY <1>2, <1>3 DEF HoldsIn

LEMMA KeptWhenOver ==
    ASSUME TypeOK, NEW h \in Slots, NEW file, KeptIn(m, window, h),
           \A s \in Slots \ {h} : file[s] = m[s],
           NEW d \in Datagram, d # Skipped => HoldsIn(file, h, d)
    PROVE  KeptIn(file, With(d), After(N, h))
<1> DEFINE w == With(d)
<1>1. KeptIn(file, window, h)
  BY KeptWhileWriting
<1>2. DOMAIN w = 1 .. Len(w) /\ w[Len(w)] = d /\ Len(w) \in Nat
  BY WithMoves
<1> HIDE DEF w
<1> SUFFICES ASSUME NEW k \in 1 .. Len(w), w[k] # Skipped, Len(w) - k < N - 1
             PROVE  HoldsIn(file, Back(N, After(N, h), Len(w) - k), w[k])
  BY <1>2 DEF KeptIn, w
<1>3. CASE k = Len(w)
  <2>1. Len(w) - k = 0
    BY <1>2, <1>3
  <2>2. Back(N, After(N, h), 0) = h
    BY SlotsMove
  <2>3. HoldsIn(file, h, w[k])
    BY <1>2, <1>3
  <2>4. Back(N, After(N, h), Len(w) - k) = h
    BY <2>1, <2>2
  <2> QED BY <2>3, <2>4
<1>4. CASE k # Len(w)
  <2>1. PICK i \in DOMAIN window : /\ w[k] = window[i]
                                 /\ Len(window) - i \in Nat
                                 /\ Len(w) - k = (Len(window) - i) + 1
    BY <1>4, WithMoves DEF w
  <2> DEFINE j == Len(window) - i
  <2>2. j \in Nat /\ j < N - 1 /\ Len(w) - k = j + 1
    BY <2>1, SlotCount
  <2>3. HoldsIn(file, Back(N, h, j), window[i])
    BY <1>1, <2>1, <2>2 DEF KeptIn
  <2> HIDE DEF j
  <2>4. Back(N, After(N, h), j + 1) = Back(N, h, j)
    BY <2>2, SlotsMove
  <2> QED BY <2>1, <2>2, <2>3, <2>4
<1> QED BY <1>3, <1>4

(* A reservation that is over leaves the offset at the slot after it.        *)
LEMMA HeadMoves ==
    ASSUME NEW h \in Slots, offset = (h + 1) * Needed
    PROVE  \/ offset = After(N, h) * Needed
           \/ After(N, h) = 0 /\ offset = N * Needed
BY DEF After

(* The next reservation is the head's slot; at the end of the file the head  *)
(* is the first slot (lines 49-56).                                          *)
LEMMA ReserveHeaded ==
    ASSUME TypeOK, Reserve, NEW h \in Slots, Headed(h)
    PROVE  Headed(h)'
<1>1. /\ N \in Nat \ {0} /\ h \in 0 .. N - 1 /\ Needed \in Nat \ {0}
      /\ ArenaSize \in Nat
  BY SlotCount, JournalAssumption
<1>2. /\ m' = m /\ window' = window /\ pc = "reserve"
      /\ offset = h * Needed \/ (h = 0 /\ offset = N * Needed)
  BY DEF Reserve, Headed
<1>3. KeptIn(m', window', h)
  BY <1>2 DEF Headed
<1>4. CASE offset + Needed > ArenaSize
  <2>1. h = 0 /\ offset' = 0 /\ pc' = "reserve"
    <3>1. offset' = 0 /\ pc' = "reserve"
      BY <1>2, <1>4 DEF Reserve
    <3>2. h * Needed + Needed <= ArenaSize
      <4>1. h \in Nat /\ h + 1 <= ArenaSize \div Needed
        BY <1>1, SMT DEF N
      <4> QED BY <1>1, <4>1, SlotFits
    <3>3. h * Needed \in Int
      BY <1>1
    <3> QED BY <1>1, <1>2, <1>4, <3>1, <3>2, <3>3
  <2>2. 0 * Needed = 0
    BY <1>1
  <2> QED BY <1>3, <2>1, <2>2 DEF Headed
<1>5. CASE ~(offset + Needed > ArenaSize)
  <2>1. offset = h * Needed
    <3>1. CASE h = 0 /\ offset = N * Needed
      <4>1. N \in Nat /\ N * Needed + Needed <= ArenaSize
        BY <1>1, <1>5, <3>1
      <4>2. N + 1 <= N
        BY <1>1, <4>1, FitsIsSlot DEF N
      <4> QED BY <1>1, <4>2
    <3> QED BY <1>2, <3>1
  <2>2. curr_off' = h * Needed /\ pc' = "recv" /\ offset' = (h + 1) * Needed
    <3>1. curr_off' = offset /\ pc' = "recv" /\ offset' = offset + Needed
      BY <1>2, <1>5 DEF Reserve
    <3>2. h * Needed + Needed = (h + 1) * Needed
      BY <1>1
    <3> QED BY <2>1, <3>1, <3>2
  <2>3. slot' = h
    <3>1. (h * Needed) \div Needed = h
      BY <1>1, SlotOfMultiple
    <3> QED BY <2>2, <3>1 DEF slot, SlotAt
  <2> QED BY <1>3, <2>2, <2>3 DEF Headed
<1> QED BY <1>4, <1>5

(* Every step keeps the newest entries of the history in the file.           *)
LEMMA NewestStep ==
    ASSUME NewestIInv, IInv', [Next]_vars
    PROVE  NewestIInv'
<1>1. PICK h \in Slots : Headed(h)
  BY DEF NewestIInv
<1>2. IInv /\ TypeOK /\ MagicStored /\ slot \in Slots
  BY SlotInFile DEF NewestIInv, IInv
<1>3. CASE Start
  <2>1. window' = <<>> /\ DOMAIN window' = {} /\ pc' = "reserve" /\ offset' = 0
    BY <1>3 DEF Start
  <2>2. 0 \in Slots /\ 0 * Needed = 0
    BY SlotCount, JournalAssumption
  <2>3. Headed(0)'
    BY <2>1, <2>2 DEF Headed, KeptIn
  <2> QED BY <2>1, <2>2, <2>3 DEF NewestIInv, MagicStored
<1>4. CASE Reserve
  <2>1. Headed(h)'
    BY <1>1, <1>2, <1>4, ReserveHeaded
  <2>2. MagicStored'
    BY <1>4 DEF Reserve, MagicStored
  <2> QED BY <2>1, <2>2 DEF NewestIInv
<1>5. ASSUME NEW len \in Lens, Recv(len) PROVE NewestIInv'
  <2>1. /\ pc = "recv" /\ pc' = "header" /\ unset' = HeaderFields
        /\ slot' = slot /\ offset' = offset /\ window' = window
        /\ \A s \in Slots \ {slot} : m'[s] = m[s]
    BY <1>2, <1>5 DEF Recv, TypeOK, slot, SlotAt
  <2>2. slot = h /\ offset = (h + 1) * Needed /\ KeptIn(m, window, h)
    BY <1>1, <2>1 DEF Headed
  <2>3. KeptIn(m', window, h)
    BY <1>2, <2>1, <2>2, KeptWhileWriting
  <2>4. Headed(h)'
    BY <2>1, <2>2, <2>3 DEF Headed
  <2>5. MagicStored'
    BY <2>1 DEF MagicStored, HeaderFields
  <2> QED BY <2>4, <2>5 DEF NewestIInv
<1>6. CASE RecvNothing
  <2>1. /\ pc = "recv" /\ pc' = "reserve" /\ window' = With(Skipped)
        /\ m' = m /\ offset' = offset
    BY <1>6 DEF RecvNothing
  <2>2. offset = (h + 1) * Needed /\ KeptIn(m, window, h)
    BY <1>1, <2>1 DEF Headed
  <2>3. KeptIn(m, With(Skipped), After(N, h))
    BY <1>2, <2>2, SkippedType, KeptWhenOver
  <2>4. Headed(After(N, h))'
    BY <2>1, <2>2, <2>3, HeadMoves DEF Headed
  <2> QED BY <2>1, <2>4, SlotsMove DEF NewestIInv, MagicStored
<1>7. ASSUME NEW f \in HeaderFields, StoreField(f) PROVE NewestIInv'
  <2>1. /\ slot' = slot /\ pc = "header" /\ unset \subseteq HeaderFields
        /\ arrived \in Datagram /\ offset' = offset /\ unset' = unset \ {f}
        /\ \A s \in Slots \ {slot} : m'[s] = m[s]
    BY <1>2, <1>7, FieldStored DEF StoreField
  <2>2. slot = h /\ offset = (h + 1) * Needed /\ KeptIn(m, window, h)
    BY <1>1, <2>1 DEF Headed
  <2>3. "magic" \notin unset' => m'[slot].magic
    BY <1>2, <1>7, <2>1, FieldStored DEF MagicStored
  <2>4. CASE unset' = {}
    <3>1. pc' = "reserve" /\ window' = With(arrived)
      BY <1>7, <2>4 DEF StoreField
    <3>2. HoldsIn(m', h, arrived)
      BY <1>2, <1>7, <2>2, <2>3, <2>4, FieldStored DEF HoldsIn
    <3>3. KeptIn(m', With(arrived), After(N, h))
      BY <1>2, <2>1, <2>2, <3>2, KeptWhenOver
    <3>4. Headed(After(N, h))'
      BY <2>1, <2>2, <3>1, <3>3, HeadMoves DEF Headed
    <3> QED BY <3>1, <3>4, SlotsMove DEF NewestIInv, MagicStored
  <2>5. CASE unset' # {}
    <3>1. pc' = "header" /\ window' = window
      BY <1>7, <2>1, <2>5 DEF StoreField
    <3>2. KeptIn(m', window, h)
      BY <1>2, <2>1, <2>2, KeptWhileWriting
    <3>3. Headed(h)'
      BY <2>1, <2>2, <3>1, <3>2 DEF Headed
    <3>4. MagicStored'
      BY <2>1, <2>3 DEF MagicStored
    <3> QED BY <3>3, <3>4 DEF NewestIInv
  <2> QED BY <2>4, <2>5
<1>8. CASE Crash
  <2>1. pc' = "off" /\ m' = m /\ window' = window
    BY <1>8 DEF Crash
  <2>2. Headed(h)'
    BY <1>1, <2>1 DEF Headed
  <2> QED BY <2>1, <2>2 DEF NewestIInv, MagicStored
<1>9. CASE UNCHANGED vars
  <2>1. Headed(h)' /\ MagicStored'
    BY <1>1, <1>2, <1>9 DEF vars, Headed, MagicStored, slot, SlotAt
  <2> QED BY <2>1 DEF NewestIInv
<1> QED BY <1>3, <1>4, <1>5, <1>6, <1>7, <1>8, <1>9 DEF Next

(* The journal is a window on the newest traffic, for every size of the file *)
(* and of the records, and whatever the reservations after a record received *)
(* (lines 48-67).                                                            *)
THEOREM NewestIsKept == Spec => []NewestKept
<1>1. Init => NewestIInv
  <2> SUFFICES ASSUME Init PROVE NewestIInv
    OBVIOUS
  <2>1. 0 \in Slots /\ window = <<>> /\ DOMAIN window = {} /\ pc = "off"
    BY SlotCount DEF Init
  <2>2. Headed(0)
    BY <2>1 DEF Headed, KeptIn
  <2> QED BY <2>1, <2>2, InitIInv DEF NewestIInv, MagicStored
<1>2. NewestIInv /\ [Next]_vars => NewestIInv'
  BY StepIInv, NewestStep DEF NewestIInv
<1>3. NewestIInv => NewestKept
  <2> SUFFICES ASSUME NewestIInv, NEW k \in DOMAIN window, window[k] # Skipped,
                      Len(window) - k < Cardinality(Slots) - 1
               PROVE  \E s \in Slots : Holds(s, window[k])
    BY DEF NewestKept
  <2>1. PICK h \in Slots : Headed(h)
    BY DEF NewestIInv
  <2> DEFINE j == Len(window) - k
  <2>2. j \in Nat /\ j < N - 1
    <3>1. Len(window) \in Nat /\ k \in 1 .. Len(window)
      BY LenProperties DEF NewestIInv, IInv, TypeOK
    <3> QED BY <3>1, SlotCount
  <2>3. Back(N, h, j) \in Slots /\ HoldsIn(m, Back(N, h, j), window[k])
    BY <2>1, <2>2, SlotsMove DEF Headed, KeptIn
  <2> HIDE DEF j
  <2>4. Holds(Back(N, h, j), window[k])
    BY <2>3 DEF HoldsIn, Holds, Describes
  <2> QED BY <2>3, <2>4
<1> QED BY <1>1, <1>2, <1>3, PTL DEF Spec
=============================================================================
