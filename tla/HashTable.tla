----------------------------- MODULE HashTable -----------------------------
(***************************************************************************)
(* relational/hash_table.hpp: keys to handles, linear probing over a table *)
(* of max_entries slots.  hash() and the probe mask with max_entries - 1,  *)
(* and the constructor takes any number: unless it is a power of two some  *)
(* slots are never used.  There is no remove.                              *)
(***************************************************************************)
EXTENDS Integers, FiniteSets

CONSTANTS TableKeys,    \* keys callers use, as numbers
          TableHandles, \* handles callers store, none of them null
          MaxEntries    \* m_capacity

NullHandle == "null"

ASSUME TableAssumption ==
    TableKeys \subseteq Nat /\ MaxEntries \in Nat \ {0} /\ NullHandle \notin TableHandles

VARIABLES t_slots,      \* m_table
          t_call        \* history: the last insert

tableVars == <<t_slots, t_call>>
-----------------------------------------------------------------------------
\* p[1] & p[2]
BitAnd[p \in Nat \X Nat] ==
    IF p[1] = 0 THEN 0
    ELSE 2 * BitAnd[<<p[1] \div 2, p[2] \div 2>>] + (p[1] % 2) * (p[2] % 2)

Tries == 0 .. MaxEntries - 1
Masked(n) == BitAnd[<<n, MaxEntries - 1>>]
Hash(key) == Masked(key)

\* Mutant: the slots after the last one are not reached from the first ones.
ProbedClipped ==
    [key \in TableKeys |-> [i \in Tries |->
        IF Hash(key) + i < MaxEntries THEN Hash(key) + i ELSE MaxEntries - 1]]
Probed == [key \in TableKeys |-> [i \in Tries |-> Masked(Hash(key) + i)]]
Probe(key, i) == Probed[key][i]

FirstTry(key, Test(_)) ==
    {i \in Tries : Test(Probe(key, i)) /\ \A j \in 0 .. i - 1 : ~Test(Probe(key, j))}

Free == [occupied |-> FALSE]
Holding(key, handle) == [occupied |-> TRUE, key |-> key, handle |-> handle]
Holds(slot, key) == t_slots[slot].occupied /\ t_slots[slot].key = key

TableInit ==
    /\ t_slots = [s \in Tries |-> Free]
    /\ t_call = <<>>

\* The first slot that is free or has the key; when no probe finds one, nothing.
TableInsert(key, handle) ==
    LET Takes(s) == ~t_slots[s].occupied \/ Holds(s, key)
    IN  /\ t_slots' = [s \in Tries |->
                         IF \E i \in FirstTry(key, Takes) : s = Probe(key, i)
                           THEN Holding(key, handle) ELSE t_slots[s]]
        /\ t_call' = <<key, handle>>

\* get(): a free slot or the end of the probes means that the key is not there.
Get(key) ==
    LET Ends(s) == ~t_slots[s].occupied \/ Holds(s, key)
        Found == {Probe(key, i) : i \in FirstTry(key, Ends)}
    IN  IF \E s \in Found : t_slots[s].occupied
          THEN t_slots[CHOOSE s \in Found : TRUE].handle
          ELSE NullHandle

TableNext == \E key \in TableKeys, handle \in TableHandles : TableInsert(key, handle)
TableSpec == TableInit /\ [][TableNext]_tableVars
-----------------------------------------------------------------------------
\* Types of the table's variables.
TableTypeOK ==
    /\ \A s \in Tries : t_slots[s] = Free \/
          \E key \in TableKeys, handle \in TableHandles : t_slots[s] = Holding(key, handle)
    /\ t_call \in (TableKeys \X TableHandles) \cup {<<>>}

\* get() of every key is what a dictionary with room for max_entries keys would
\* hold (lines 73-112): an insert changes the answer for its own key only, whatever
\* shares its slots, and is dropped only when the table is full.  So it is when
\* max_entries is a power of two.
Dict == INSTANCE Dictionary WITH
            Key <- TableKeys, Value <- TableHandles, Missing <- NullHandle,
            Room <- MaxEntries,
            dict <- [key \in TableKeys |-> Get(key)], call <- t_call
TableImplementsDict == Dict!Spec

\* While at most half of max_entries keys were inserted, the last that was is found
\* (perf/stress_test_1m.cpp 23-44 makes 2,000,000 entries for 1,000,000 keys and
\* dereferences what get() of each returns).  The mask need not name that many slots.
Inserted == {key \in TableKeys : Get(key) # NullHandle} \cup {t_call[1]}
HalfFullFinds ==
    t_call # <<>> /\ 2 * Cardinality(Inserted) <= MaxEntries => Get(t_call[1]) = t_call[2]
=============================================================================
