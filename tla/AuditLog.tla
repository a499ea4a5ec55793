------------------------------ MODULE AuditLog ------------------------------
(***************************************************************************)
(* tests/test_network_ingest.cpp: a worker receives datagrams into memory  *)
(* of an arena and enters each in a log of fixed length; main() watches    *)
(* its counter for some seconds, stops it, joins it and writes the log.    *)
(* The worker's loads of `running` are relaxed: one that returns the old   *)
(* value is one that comes before the store.  The arena is of an earlier   *)
(* version (allocate of a size, memory of its own) and not in src/; the    *)
(* byte counter, which only the monitor shows, is left out.                *)
(***************************************************************************)
EXTENDS Integers, Sequences

CONSTANTS ArenaPackets,  \* packets the arena has room for between resets
          LogEntries,    \* MAX_LOG_ENTRIES
          Seconds,       \* 10: rounds of the monitor
          MaxAudited     \* bound: datagrams that arrive

ASSUME AuditAssumption ==
    /\ ArenaPackets \in Nat \ {0} /\ LogEntries \in Nat
    /\ Seconds \in Nat /\ MaxAudited \in Nat

VARIABLES l_running,   \* running
          l_worker,    \* "open", "loop", "recv", "log", "count" or "closed"
          l_taken,     \* packets cut from the arena since its last reset
          l_packets,   \* packets_received
          l_log,       \* telemetry_log: the datagram each entry is about
          l_main,      \* "watch", "join" or "done"
          l_second,    \* rounds of the monitor
          l_csv,       \* rows of the file
          l_arrived    \* history: datagrams recv returned

auditVars == <<l_running, l_worker, l_taken, l_packets, l_log, l_main,
               l_second, l_csv, l_arrived>>
-----------------------------------------------------------------------------
Entry(seq, datagram) == [seq |-> seq, datagram |-> datagram]
NoEntry == Entry(0, 0)

AuditInit ==
    /\ l_running = TRUE /\ l_worker = "open"
    /\ l_taken = 0 /\ l_packets = 0 /\ l_log = [i \in 0 .. LogEntries - 1 |-> NoEntry]
    /\ l_main = "watch" /\ l_second = 0 /\ l_csv = <<>> /\ l_arrived = 0

\* socket() and bind(); the worker returns when either fails.
OpenSocket ==
    /\ l_worker = "open"
    /\ l_worker' \in {"loop", "closed"}
    /\ UNCHANGED <<l_running, l_taken, l_packets, l_log, l_main, l_second, l_csv, l_arrived>>

LeaveLoop ==
    /\ l_worker = "loop" /\ ~l_running
    /\ l_worker' = "closed"
    /\ UNCHANGED <<l_running, l_taken, l_packets, l_log, l_main, l_second, l_csv, l_arrived>>

\* allocate(), and on a full arena reset() and allocate() again.
CutPacket ==
    /\ l_worker = "loop" /\ l_running
    /\ l_taken' = IF l_taken = ArenaPackets THEN 1 ELSE l_taken + 1
    /\ l_worker' = "recv"
    /\ UNCHANGED <<l_running, l_packets, l_log, l_main, l_second, l_csv, l_arrived>>

\* recv does not block.
RecvAudited ==
    /\ l_worker = "recv" /\ l_arrived < MaxAudited
    /\ l_arrived' = l_arrived + 1
    /\ l_worker' = "log"
    /\ UNCHANGED <<l_running, l_taken, l_packets, l_log, l_main, l_second, l_csv>>

RecvAgain ==
    /\ l_worker = "recv"
    /\ l_worker' = "loop"
    /\ UNCHANGED <<l_running, l_taken, l_packets, l_log, l_main, l_second, l_csv, l_arrived>>

\* Mutant: the log is taken to be circular.
EnterInLogWrapping ==
    /\ l_worker = "log"
    /\ l_log' = [l_log EXCEPT ![l_packets % LogEntries] = Entry(l_packets, l_arrived)]
    /\ l_worker' = "count"
    /\ UNCHANGED <<l_running, l_taken, l_packets, l_main, l_second, l_csv, l_arrived>>

\* A datagram beyond the end of the log is counted and not entered.
EnterInLog ==
    /\ l_worker = "log"
    /\ l_log' = IF l_packets < LogEntries
                  THEN [l_log EXCEPT ![l_packets] = Entry(l_packets, l_arrived)]
                  ELSE l_log
    /\ l_worker' = "count"
    /\ UNCHANGED <<l_running, l_taken, l_packets, l_main, l_second, l_csv, l_arrived>>

CountAudited ==
    /\ l_worker = "count"
    /\ l_packets' = l_packets + 1
    /\ l_worker' = "loop"
    /\ UNCHANGED <<l_running, l_taken, l_log, l_main, l_second, l_csv, l_arrived>>

Watch ==
    /\ l_main = "watch" /\ l_second < Seconds
    /\ l_second' = l_second + 1
    /\ UNCHANGED <<l_running, l_worker, l_taken, l_packets, l_log, l_main, l_csv, l_arrived>>

StopWorker ==
    /\ l_main = "watch" /\ l_second = Seconds
    /\ l_running' = FALSE
    /\ l_main' = "join"
    /\ UNCHANGED <<l_worker, l_taken, l_packets, l_log, l_second, l_csv, l_arrived>>

\* The file, when join() has returned.
WriteCsv ==
    /\ l_main = "join" /\ l_worker = "closed"
    /\ LET total == IF l_packets < LogEntries THEN l_packets ELSE LogEntries
       IN  l_csv' = [i \in 1 .. total |-> l_log[i - 1]]
    /\ l_main' = "done"
    /\ UNCHANGED <<l_running, l_worker, l_taken, l_packets, l_log, l_second, l_arrived>>

AuditNext ==
    \/ OpenSocket \/ LeaveLoop \/ CutPacket \/ RecvAudited \/ RecvAgain
    \/ EnterInLog \/ CountAudited
    \/ Watch \/ StopWorker \/ WriteCsv
-----------------------------------------------------------------------------
\* Types of the program's variables.
AuditTypeOK ==
    /\ l_running \in BOOLEAN
    /\ l_worker \in {"open", "loop", "recv", "log", "count", "closed"}
    /\ l_taken \in 0 .. ArenaPackets
    /\ l_packets \in 0 .. MaxAudited /\ l_arrived \in 0 .. MaxAudited
    /\ l_log \in [0 .. LogEntries - 1 -> [seq : Nat, datagram : Nat]]
    /\ l_main \in {"watch", "join", "done"} /\ l_second \in 0 .. Seconds
    /\ l_csv \in Seq([seq : Nat, datagram : Nat])

\* The audit file lists the oldest datagrams, as many as the log has entries,
\* each once, in the order they came and without a gap, wherever in its loop
\* the worker was when it was stopped, and none if it could not open its
\* socket (lines 51-72 and 95-104).
CsvComplete ==
    l_main = "done" =>
        /\ \A i \in DOMAIN l_csv : l_csv[i] = Entry(i - 1, i)
        /\ Len(l_csv) = IF l_arrived < LogEntries THEN l_arrived ELSE LogEntries
=============================================================================
