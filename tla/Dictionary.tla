----------------------------- MODULE Dictionary -----------------------------
(***************************************************************************)
(* What an insert-only table with room for a number of keys promises: an   *)
(* insert sets the value of its key and of no other; a new key may be      *)
(* refused when there is no room, and then nothing changes.                *)
(***************************************************************************)
EXTENDS Naturals, FiniteSets

CONSTANTS Key, Value,
          Missing,      \* what a key without a value maps to
          Room          \* how many keys fit

VARIABLES dict,         \* [Key -> Value \cup {Missing}]
          call          \* the last insert: its key and its value; <<>> before it

Present == {k \in Key : dict[k] # Missing}

Init == dict = [k \in Key |-> Missing] /\ call = <<>>

Insert(k, v) == dict' = [dict EXCEPT ![k] = v]

Refuse(k, v) ==
    /\ dict[k] = Missing /\ Cardinality(Present) >= Room
    /\ UNCHANGED dict

Next ==
    \E k \in Key, v \in Value :
        call' = <<k, v>> /\ (Insert(k, v) \/ Refuse(k, v))

Spec == Init /\ [][Next]_<<dict, call>>
=============================================================================
