------------------------------ MODULE Journal ------------------------------
(***************************************************************************)
(* src/super_core_v5.cpp: one thread receives datagrams straight into a    *)
(* journal file mapped in memory, each behind a header that is written     *)
(* when the payload is in place.  At the end of the arena it starts again  *)
(* at the beginning.                                                       *)
(*                                                                         *)
(* The mapping is shared with the file: a crash of the process loses the   *)
(* offset and the step it was in, and no byte already written.  (A loss of *)
(* power, which loses pages, is not modelled.)                             *)
(*                                                                         *)
(* A payload byte, and a timestamp, is the id of the datagram it is from.  *)
(***************************************************************************)
EXTENDS Integers, Sequences, FiniteSets

CONSTANTS ArenaSize,     \* ARENA_SIZE
          Needed,        \* sizeof(RecordHeader) + 1472: one reservation
          MaxPayload,    \* 1472
          MaxDatagrams,  \* bound: datagrams received
          MaxCrashes     \* bound: crashes of the process

ASSUME JournalAssumption ==
    /\ ArenaSize \in Nat /\ Needed \in Nat \ {0} /\ Needed <= ArenaSize
    /\ MaxPayload \in Nat \ {0}
    /\ MaxDatagrams \in Nat /\ MaxCrashes \in Nat

VARIABLES m,          \* the mapped file: header and payload of each slot
          pc,         \* "off", or where the loop is: "reserve", "recv", "header"
          offset,     \* the next byte to reserve
          curr_off,   \* the reservation of this iteration
          arrived,    \* the datagram recv put there: id and length
          unset,      \* fields of its header not yet stored
          received,   \* history: datagrams received in all runs
          before,     \* history: datagrams received before this run
          window,     \* history: what this run's last cycle of reservations
                      \* came to, oldest first
          crashes     \* history: crashes so far

vars == <<m, pc, offset, curr_off, arrived, unset, received, before, window, crashes>>
-----------------------------------------------------------------------------
Slots == 0 .. (ArenaSize \div Needed) - 1
SlotAt(off) == off \div Needed
slot == SlotAt(curr_off)

Ids == 0 .. MaxDatagrams
Lens == 1 .. MaxPayload
HeaderFields == {"timestamp_ns", "payload_len", "magic"}

Datagram == [id : Ids, len : 0 .. MaxPayload]
Record == [timestamp_ns : Ids, payload_len : 0 .. MaxPayload, magic : BOOLEAN,
           payload : [Lens -> Ids]]

\* A reservation that recorded nothing.
Skipped == [id |-> 0, len |-> 0]

\* The history of the last Cardinality(Slots) reservations, with one more.
With(outcome) ==
    LET w == Append(window, outcome)
    IN  SubSeq(w, IF Len(w) > Cardinality(Slots) THEN 2 ELSE 1, Len(w))

\* A slot of a file that ftruncate has just extended.
Blank == [timestamp_ns |-> 0, payload_len |-> 0, magic |-> FALSE,
          payload |-> [b \in Lens |-> 0]]

Init ==
    /\ m = [s \in Slots |-> Blank]
    /\ pc = "off" /\ offset = 0 /\ curr_off = 0
    /\ arrived = Skipped /\ unset = {}
    /\ received = 0 /\ before = 0 /\ window = <<>> /\ crashes = 0

\* open without O_TRUNC, ftruncate only of a shorter file, mmap: the bytes of
\* the file stay.  atomic<size_t> offset{0}.
Start ==
    /\ pc = "off"
    /\ pc' = "reserve" /\ offset' = 0
    /\ before' = received /\ window' = <<>>
    /\ UNCHANGED <<m, curr_off, arrived, unset, received, crashes>>

\* Mutant: a reservation that ends at the end of the arena is refused.
ReserveShort ==
    /\ pc = "reserve"
    /\ IF offset + Needed >= ArenaSize
         THEN offset' = 0 /\ UNCHANGED <<pc, curr_off>>
         ELSE offset' = offset + Needed /\ curr_off' = offset /\ pc' = "recv"
    /\ UNCHANGED <<m, arrived, unset, received, before, window, crashes>>

\* Mutant: the end of the arena is not tested.
ReserveUntested ==
    /\ pc = "reserve" /\ offset <= ArenaSize
    /\ offset' = offset + Needed /\ curr_off' = offset /\ pc' = "recv"
    /\ UNCHANGED <<m, arrived, unset, received, before, window, crashes>>

\* fetch_add and the test; past the end the cycle starts again.
Reserve ==
    /\ pc = "reserve"
    /\ IF offset + Needed > ArenaSize
         THEN offset' = 0 /\ UNCHANGED <<pc, curr_off>>
         ELSE offset' = offset + Needed /\ curr_off' = offset /\ pc' = "recv"
    /\ UNCHANGED <<m, arrived, unset, received, before, window, crashes>>

\* Mutant: a slot that has a header keeps it.
RecvKeepingHeader(len) ==
    /\ pc = "recv" /\ received < MaxDatagrams
    /\ received' = received + 1
    /\ arrived' = [id |-> received + 1, len |-> len]
    /\ m' = [m EXCEPT ![slot].payload =
               [b \in Lens |-> IF b <= len THEN received + 1 ELSE @[b]]]
    /\ IF m[slot].magic THEN pc' = "reserve" /\ UNCHANGED unset
                        ELSE pc' = "header" /\ unset' = HeaderFields
    /\ UNCHANGED <<offset, curr_off, before, window, crashes>>

\* recv copies len bytes into the slot: the bytes after them, and the header,
\* keep what the record before had there.
Recv(len) ==
    /\ pc = "recv" /\ received < MaxDatagrams
    /\ received' = received + 1
    /\ arrived' = [id |-> received + 1, len |-> len]
    /\ m' = [m EXCEPT ![slot].payload =
               [b \in Lens |-> IF b <= len THEN received + 1 ELSE @[b]]]
    /\ pc' = "header" /\ unset' = HeaderFields
    /\ UNCHANGED <<offset, curr_off, before, window, crashes>>

\* recv fails or the datagram is empty: the slot is skipped as it is.
RecvNothing ==
    /\ pc = "recv"
    /\ pc' = "reserve" /\ window' = With(Skipped)
    /\ UNCHANGED <<m, offset, curr_off, arrived, unset, received, before, crashes>>

\* The plain stores of the header, which the compiler may order as it likes.
StoreField(f) ==
    /\ pc = "header" /\ f \in unset
    /\ m' = [m EXCEPT ![slot] =
               [timestamp_ns |-> IF f = "timestamp_ns" THEN arrived.id ELSE @.timestamp_ns,
                payload_len  |-> IF f = "payload_len" THEN arrived.len ELSE @.payload_len,
                magic        |-> f = "magic" \/ @.magic,
                payload      |-> @.payload]]
    /\ unset' = unset \ {f}
    /\ IF unset' = {}
         THEN pc' = "reserve" /\ window' = With(arrived)
         ELSE UNCHANGED <<pc, window>>
    /\ UNCHANGED <<offset, curr_off, arrived, received, before, crashes>>

\* The process dies anywhere in the loop; what was not in the mapping is lost.
Crash ==
    /\ pc # "off" /\ crashes < MaxCrashes
    /\ pc' = "off" /\ crashes' = crashes + 1
    /\ offset' = 0 /\ curr_off' = 0 /\ arrived' = Skipped /\ unset' = {}
    /\ UNCHANGED <<m, received, before, window>>

Next ==
    \/ Start
    \/ Reserve
    \/ \E len \in Lens : Recv(len)
    \/ RecvNothing
    \/ \E f \in HeaderFields : StoreField(f)
    \/ Crash

Spec == Init /\ [][Next]_vars
-----------------------------------------------------------------------------
\* Types of every variable; a reservation in use is a whole slot of the file.
TypeOK ==
    /\ m \in [Slots -> Record]
    /\ pc \in {"off", "reserve", "recv", "header"}
    /\ \E s \in 0 .. ArenaSize \div Needed : offset = s * Needed
    /\ \E s \in Slots : curr_off = s * Needed
    /\ arrived \in Datagram /\ unset \subseteq HeaderFields
    /\ received \in Ids /\ before \in 0 .. received
    /\ window \in Seq(Datagram) /\ Len(window) <= Cardinality(Slots)
    /\ crashes \in 0 .. MaxCrashes

Describes(rec) == \A b \in 1 .. rec.payload_len : rec.payload[b] = rec.timestamp_ns
Torn == {s \in Slots : m[s].magic /\ ~Describes(m[s])}
InProgress == IF pc = "header" THEN {slot} ELSE {}

\* What an auditor can rely on (lines 9-14 and 58-67): every header with the
\* magic number describes the payload behind it, except in the slot being
\* written and in at most one slot for every crash the journal has lived
\* through, whatever runs, wraps and failed receives came after it.
TornOnlyByCrashes == Cardinality(Torn \ InProgress) <= crashes

\* The journal is a window on the newest traffic (lines 48-67): a datagram
\* recorded by one of this run's last reservations, all but one of a full
\* cycle, is in the file whole, whichever reservations after it received
\* nothing, and also when the process then dies in the middle of a record.
Holds(s, d) ==
    /\ m[s].magic /\ m[s].timestamp_ns = d.id /\ m[s].payload_len = d.len
    /\ Describes(m[s])
NewestKept ==
    \A k \in DOMAIN window :
        /\ window[k] # Skipped
        /\ Len(window) - k < Cardinality(Slots) - 1
        => \E s \in Slots : Holds(s, window[k])

\* "continuar de onde parou" (lines 20-21), "vamos apenas anexar (append) se o
\* arquivo ja tiver dados" (lines 38-39): the first datagram of a run does not
\* overwrite a whole record while a slot of the file is free.
Whole(rec) == rec.magic /\ rec.payload_len > 0 /\ Describes(rec)
RestartAppends ==
    [][/\ pc = "recv" /\ pc' = "header" /\ received = before
       /\ \E s \in Slots : ~m[s].magic
       => ~Whole(m[slot])]_vars
=============================================================================
