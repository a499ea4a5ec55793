----------------------------- MODULE MCJournal -----------------------------
(* Three slots that fill the arena exactly, so that the test of line 52 is at *)
(* its limit; two crashes, and datagrams enough to go round and restart.      *)
EXTENDS Journal
=============================================================================
