-------------------------- MODULE PersistentIngest --------------------------
(***************************************************************************)
(* tests/test_persistent_ingest.cpp on core/sys/persistent_arena.hpp: one  *)
(* thread receives datagrams straight into a file mapped in memory, with   *)
(* no header, and resets the arena when it is full.  The next run opens    *)
(* the file with O_TRUNC.  A byte of the file is the number of the         *)
(* datagram it came with, 0 if none did.  The byte counter, which only the *)
(* monitor's line shows, is left out.                                      *)
(***************************************************************************)
EXTENDS Integers, Sequences, FiniteSets

CONSTANTS FileSize,     \* capacity of the arena
          Asked,        \* 1500: what the loop asks the arena for
          CacheLine,    \* 64: what the arena rounds it up to
          MaxLen,       \* bound: bytes of a datagram, at most Asked
          MaxReceived,  \* bound: datagrams received in all runs
          MaxRuns       \* bound: runs of the program

AlignedReq == ((Asked + CacheLine - 1) \div CacheLine) * CacheLine

ASSUME PersistentAssumption ==
    /\ FileSize \in Nat /\ Asked \in Nat \ {0} /\ CacheLine \in Nat \ {0}
    /\ AlignedReq <= FileSize
    /\ MaxLen \in 1 .. Asked /\ MaxReceived \in Nat /\ MaxRuns \in Nat

VARIABLES f_sized,     \* whether the file has its length; it has none until ftruncate
          f_file,      \* the records of the mapped file, byte by byte
          f_pc,        \* "off", "extend" in the constructor of the arena, or where
                       \* the loop is: "reserve", "recv", "count"
          f_offset,    \* the arena's offset
          f_buffer,    \* the address recv was given
          f_packets,   \* the counter the monitor shows
          f_received,  \* history: datagrams received in all runs
          f_before,    \* history: datagrams received before this run
          f_window,    \* history: what the last reservations of this run came to
          f_runs       \* history: runs so far

persistentVars == <<f_sized, f_file, f_pc, f_offset, f_buffer, f_packets, f_received,
                    f_before, f_window, f_runs>>
-----------------------------------------------------------------------------
Blocks == 0 .. (FileSize \div AlignedReq) - 1
BlockAt(off) == off \div AlignedReq
Octets == 1 .. MaxLen
Zeroed == [s \in Blocks |-> [b \in Octets |-> 0]]

\* The history of the last reservations, as many as the file has blocks.
WindowWith(outcome) ==
    LET w == Append(f_window, outcome)
    IN  SubSeq(w, IF Len(w) > Cardinality(Blocks) THEN 2 ELSE 1, Len(w))

PersistentInit ==
    /\ f_sized = FALSE /\ f_file = Zeroed
    /\ f_pc = "off" /\ f_offset = 0 /\ f_buffer = 0 /\ f_packets = 0
    /\ f_received = 0 /\ f_before = 0 /\ f_window = <<>> /\ f_runs = 0

\* tools/journal_inspector.cpp reads the file at any time, if there is one, and
\* counts in its first block the byte every payload is made of ('P' in
\* tools/net_stress_gen.cpp): zeros are all it does not count.  A file without
\* length can be mapped but not read.
Signatures == {b \in Octets : f_file[0][b] # 0}
Verdict ==
    CASE f_runs = 0       -> "no file"
      [] f_runs # 0 /\ ~f_sized -> "SIGBUS"
      [] f_runs # 0 /\ f_sized /\ Signatures # {} -> "SUCESSO"
      [] f_runs # 0 /\ f_sized /\ Signatures = {} -> "FALHA"

\* Mutant: the file is opened without O_TRUNC.
OpenTruncatedKeeping ==
    /\ f_pc = "off" /\ f_runs < MaxRuns
    /\ f_pc' = "extend" /\ f_offset' = 0 /\ f_buffer' = 0 /\ f_packets' = 0
    /\ f_before' = f_received /\ f_window' = <<>> /\ f_runs' = f_runs + 1
    /\ UNCHANGED <<f_sized, f_file, f_received>>

\* The constructor of the arena opens the file, and cuts it to no bytes.
OpenTruncated ==
    /\ f_pc = "off" /\ f_runs < MaxRuns
    /\ f_sized' = FALSE /\ f_file' = Zeroed
    /\ f_pc' = "extend" /\ f_offset' = 0 /\ f_buffer' = 0 /\ f_packets' = 0
    /\ f_before' = f_received /\ f_window' = <<>> /\ f_runs' = f_runs + 1
    /\ UNCHANGED f_received

\* ftruncate extends it with zeros, and it is mapped.
ExtendFile ==
    /\ f_pc = "extend"
    /\ f_sized' = TRUE
    /\ f_pc' = "reserve"
    /\ UNCHANGED <<f_file, f_offset, f_buffer, f_packets, f_received, f_before,
                   f_window, f_runs>>

\* allocate(), and on a full arena reset() and allocate() again.
ReserveBlock ==
    /\ f_pc = "reserve"
    /\ LET at == IF f_offset + AlignedReq > FileSize THEN 0 ELSE f_offset
       IN  f_buffer' = at /\ f_offset' = at + AlignedReq
    /\ f_pc' = "recv"
    /\ UNCHANGED <<f_sized, f_file, f_packets, f_received, f_before, f_window, f_runs>>

\* recv copies the datagram over what the block held before.
ReceiveInto(len) ==
    /\ f_pc = "recv" /\ f_received < MaxReceived
    /\ f_received' = f_received + 1
    /\ f_file' = [f_file EXCEPT ![BlockAt(f_buffer)] =
                    [b \in Octets |-> IF b <= len THEN f_received + 1 ELSE @[b]]]
    /\ f_window' = WindowWith([id |-> f_received + 1, len |-> len])
    /\ f_pc' = "count"
    /\ UNCHANGED <<f_sized, f_offset, f_buffer, f_packets, f_before, f_runs>>

\* recv fails or the datagram is empty: the block stays reserved.
ReceiveNone ==
    /\ f_pc = "recv"
    /\ f_pc' = "reserve" /\ f_window' = WindowWith([id |-> 0, len |-> 0])
    /\ UNCHANGED <<f_sized, f_file, f_offset, f_buffer, f_packets, f_received, f_before,
                   f_runs>>

CountPacket ==
    /\ f_pc = "count"
    /\ f_packets' = f_packets + 1
    /\ f_pc' = "reserve"
    /\ UNCHANGED <<f_sized, f_file, f_offset, f_buffer, f_received, f_before, f_window, f_runs>>

\* The loop has no end but a kill, which may come anywhere; a constructor that
\* throws ends the program too.
Kill ==
    /\ f_pc # "off"
    /\ f_pc' = "off" /\ f_offset' = 0 /\ f_buffer' = 0 /\ f_packets' = 0
    /\ UNCHANGED <<f_sized, f_file, f_received, f_before, f_window, f_runs>>

PersistentNext ==
    \/ OpenTruncated \/ ExtendFile \/ ReserveBlock \/ ReceiveNone \/ CountPacket \/ Kill
    \/ \E len \in Octets : ReceiveInto(len)
-----------------------------------------------------------------------------
\* Types of the program's variables.
PersistentTypeOK ==
    /\ f_sized \in BOOLEAN /\ f_file \in [Blocks -> [Octets -> 0 .. MaxReceived]]
    /\ f_pc \in {"off", "extend", "reserve", "recv", "count"}
    /\ f_offset \in 0 .. FileSize /\ BlockAt(f_buffer) \in Blocks
    /\ f_packets \in 0 .. MaxReceived
    /\ f_received \in 0 .. MaxReceived /\ f_before \in 0 .. f_received
    /\ f_window \in Seq([id : 0 .. MaxReceived, len : 0 .. MaxLen])
    /\ f_runs \in 0 .. MaxRuns

\* What a reader of the file can rely on although no header tells the records
\* apart (persistent_arena.hpp lines 20-45, test_persistent_ingest.cpp lines
\* 43-55): it holds bytes of this run only; what the last cycle of reservations
\* received is there whole, also after a kill; behind a short datagram come only
\* bytes of older ones; and where the inspector says SUCESSO, "gravou pacotes
\* integros" (journal_inspector.cpp line 43), a datagram of this run is whole.
WholeIn(s, d) ==
    /\ f_sized
    /\ \A b \in Octets : IF b <= d.len THEN f_file[s][b] = d.id ELSE f_file[s][b] < d.id
FileIsThisRun ==
    /\ \A s \in Blocks, b \in Octets : f_file[s][b] \notin 1 .. f_before
    /\ \A k \in DOMAIN f_window :
          f_window[k].id # 0 => \E s \in Blocks : WholeIn(s, f_window[k])
    /\ Verdict = "SUCESSO" =>
          \E id \in f_before + 1 .. f_received, len \in Octets :
             WholeIn(0, [id |-> id, len |-> len])
=============================================================================
