----------------------------- MODULE HashMapSoA -----------------------------
(***************************************************************************)
(* relational/hash_map_soa.hpp and find_match_512 of                       *)
(* core/platform/vcore_avx512.cpp: keys and values in two arrays, linear   *)
(* probing slot by slot to insert and remove, Lanes slots at a time to     *)
(* look up.  The vector load faults on a slot that is no multiple of Lanes.*)
(***************************************************************************)
EXTENDS Integers, FiniteSets

CONSTANTS SoaKeys,       \* keys callers use, HASH_EMPTY not among them
          SoaValues,
          Home,          \* [SoaKeys -> Nat]: the multiplicative hash, masked
          SoaSlots,      \* m_capacity
          Lanes          \* 16: keys in a vector

HASH_EMPTY == "empty"
Absent == "absent"
Faults == "faults"

\* The marks of the model are neither keys nor values.
ASSUME SoaAssumption ==
    /\ SoaSlots \in Nat \ {0} /\ Lanes \in Nat \ {0} /\ SoaSlots % Lanes = 0
    /\ Home \in [SoaKeys -> 0 .. SoaSlots - 1]
    /\ HASH_EMPTY \notin SoaKeys /\ {Absent, Faults, "next"} \cap SoaValues = {}

VARIABLES m_keys, m_values,
          s_map,         \* history: the value each key was last inserted with
          s_cut          \* history: keys whose probes a removal made a hole in

soaVars == <<m_keys, m_values, s_map, s_cut>>
-----------------------------------------------------------------------------
At(key, i) == (Home[key] + i) % SoaSlots
SoaRange == 0 .. SoaSlots - 1

\* The first probe of the key that Test holds of, as a set of at most one.
FirstSlot(key, Test(_)) ==
    {At(key, i) : i \in {i \in SoaRange : Test(At(key, i))
                           /\ \A j \in 0 .. i - 1 : ~Test(At(key, j))}}

SoaInit ==
    /\ m_keys = [s \in SoaRange |-> HASH_EMPTY]
    /\ m_values \in [SoaRange -> {Absent}]
    /\ s_map = [key \in SoaKeys |-> Absent]
    /\ s_cut = {}

\* insert(): false when no slot is empty or has the key.
SoaInsert(key, value) ==
    LET Takes(s) == m_keys[s] \in {HASH_EMPTY, key}
    IN  \E slot \in FirstSlot(key, Takes) :
           /\ m_keys' = [m_keys EXCEPT ![slot] = key]
           /\ m_values' = [m_values EXCEPT ![slot] = value]
           /\ s_map' = [s_map EXCEPT ![key] = value]
    /\ UNCHANGED s_cut

\* The keys found only by probing past this slot.
Past(slot) ==
    {k \in SoaKeys : \E i, j \in SoaRange :
        /\ i < j /\ At(k, i) = slot /\ m_keys[At(k, j)] = k
        /\ \A n \in 0 .. j - 1 : m_keys[At(k, n)] # k}

\* remove(): the slot of the key is emptied and nothing is left in its place.
SoaRemove(key) ==
    LET Ends(s) == m_keys[s] \in {HASH_EMPTY, key}
    IN  \E slot \in FirstSlot(key, Ends) :
           /\ m_keys[slot] = key
           /\ m_keys' = [m_keys EXCEPT ![slot] = HASH_EMPTY]
           /\ s_map' = [s_map EXCEPT ![key] = Absent]
           /\ s_cut' = s_cut \cup Past(slot)
           /\ UNCHANGED m_values

\* find_match_512(&m_keys[slot], target)
Matches(slot, target) == {l \in 0 .. Lanes - 1 : m_keys[slot + l] = target}

\* Mutant: an empty lane ends the search before the lanes are compared.
GroupAnswerEmptyFirst(slot, key) ==
    IF slot % Lanes # 0 THEN Faults
    ELSE IF Matches(slot, HASH_EMPTY) # {} THEN Absent
    ELSE IF Matches(slot, key) # {}
      THEN m_values[slot + CHOOSE l \in Matches(slot, key) :
                             \A j \in Matches(slot, key) : l <= j]
    ELSE "next"

\* One round of lookup(): the first matching lane, else absent if a lane is empty.
GroupAnswer(slot, key) ==
    IF slot % Lanes # 0 THEN Faults
    ELSE IF Matches(slot, key) # {}
      THEN m_values[slot + CHOOSE l \in Matches(slot, key) :
                             \A j \in Matches(slot, key) : l <= j]
    ELSE IF Matches(slot, HASH_EMPTY) # {} THEN Absent
    ELSE "next"

Lookup(key) ==
    LET From[i \in Nat] ==
            IF i >= SoaSlots THEN Absent
            ELSE LET answer == GroupAnswer(At(key, i), key)
                 IN  IF answer = "next" THEN From[i + Lanes] ELSE answer
    IN  From[0]

SoaNext ==
    \E key \in SoaKeys : SoaRemove(key) \/ \E value \in SoaValues : SoaInsert(key, value)
-----------------------------------------------------------------------------
\* Types of the map's variables.
SoaTypeOK ==
    /\ m_keys \in [SoaRange -> SoaKeys \cup {HASH_EMPTY}]
    /\ m_values \in [SoaRange -> SoaValues \cup {Absent}]
    /\ s_map \in [SoaKeys -> SoaValues \cup {Absent}]
    /\ s_cut \subseteq SoaKeys

\* The search by groups of lanes finds what the search slot by slot stored
\* (lines 62-132): a key whose first group can be loaded has the value of its
\* last insert, or none after a remove, however many keys probe through it. The
\* exception is a key that a removal cut off: it may be missed, or found again
\* after its own removal, since a second insert leaves the first copy behind.
LookupRight ==
    \A key \in SoaKeys \ s_cut : Home[key] % Lanes = 0 => Lookup(key) = s_map[key]
=============================================================================
