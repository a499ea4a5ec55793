---------------------------- MODULE MCHashTable ----------------------------
(* A table of ten entries, whose mask 9 names the slots 0, 1, 8 and 9.      *)
EXTENDS HashTable

MCTableKeys == 0 .. 4
=============================================================================
