---------------------------- MODULE DisjointSet ----------------------------
(***************************************************************************)
(* relational/disjoint_set.hpp: union-find by rank with path compression.  *)
(* The loops of find_set are taken a link at a time: the first climbs from *)
(* f_root to the root, the second makes each node from f_i on point to it. *)
(* union_set and same_set find the representatives of a and then of b.     *)
(***************************************************************************)
EXTENDS Integers, FiniteSets

CONSTANT SetSize

ASSUME SetAssumption == SetSize \in Nat \ {0}

VARIABLES parent, rank,    \* m_parent and m_rank of the nodes
          f_root, f_i,     \* find_set()
          s_call, s_pc,    \* the call in progress; which argument it looks for
          s_ra,            \* the representative of a
          s_answer         \* what same_set last returned

setVars == <<parent, rank, f_root, f_i, s_call, s_pc, s_ra, s_answer>>
findVars == <<s_call, s_ra, s_answer>>

Members == 0 .. SetSize - 1
NoCall == [op |-> "none"]
-----------------------------------------------------------------------------
\* make_set()
SetInit ==
    /\ parent = [x \in Members |-> x]
    /\ rank = [x \in Members |-> 0]
    /\ f_root = 0 /\ f_i = 0 /\ s_ra = 0
    /\ s_call = NoCall /\ s_pc = "none" /\ s_answer = FALSE

Call(op, a, b) ==
    /\ s_call = NoCall
    /\ s_call' = [op |-> op, a |-> a, b |-> b]
    /\ s_pc' = "a" /\ f_root' = a /\ f_i' = a
    /\ UNCHANGED <<parent, rank, s_ra, s_answer>>

InFind == s_pc \in {"a", "b"}

Climb ==
    /\ InFind /\ parent[f_root] # f_root
    /\ f_root' = parent[f_root]
    /\ UNCHANGED <<parent, rank, f_i, s_pc, findVars>>

Compress ==
    /\ InFind /\ parent[f_root] = f_root /\ parent[f_i] # f_root
    /\ parent' = [parent EXCEPT ![f_i] = f_root]
    /\ f_i' = parent[f_i]
    /\ UNCHANGED <<rank, f_root, s_pc, findVars>>

Found == parent[f_root] = f_root /\ parent[f_i] = f_root

FindAReturns ==
    /\ s_pc = "a" /\ Found
    /\ s_pc' = "b" /\ s_ra' = f_root
    /\ f_root' = s_call.b /\ f_i' = s_call.b
    /\ UNCHANGED <<parent, rank, s_call, s_answer>>

\* Mutants: the second argument is linked in place of its representative; the
\* rank grows on the root that is put below.
LinkArgument(ra, rb) ==
    /\ parent' = [parent EXCEPT ![s_call.b] = ra]
    /\ UNCHANGED rank

LinkRankBelow(ra, rb) ==
    IF rank[ra] < rank[rb] THEN parent' = [parent EXCEPT ![ra] = rb] /\ UNCHANGED rank
    ELSE /\ parent' = [parent EXCEPT ![rb] = ra]
         /\ rank' = IF rank[ra] = rank[rb] THEN [rank EXCEPT ![rb] = @ + 1] ELSE rank

\* The root of less rank goes below the other; of equal ones the second does.
Link(ra, rb) ==
    IF rank[ra] < rank[rb] THEN parent' = [parent EXCEPT ![ra] = rb] /\ UNCHANGED rank
    ELSE /\ parent' = [parent EXCEPT ![rb] = ra]
         /\ rank' = IF rank[ra] = rank[rb] THEN [rank EXCEPT ![ra] = @ + 1] ELSE rank

\* find_set(b) has returned f_root.
UnionReturns ==
    /\ s_pc = "b" /\ Found /\ s_call.op = "union"
    /\ IF s_ra = f_root THEN UNCHANGED <<parent, rank>> ELSE Link(s_ra, f_root)
    /\ s_call' = NoCall /\ s_pc' = "none"
    /\ UNCHANGED <<f_root, f_i, s_ra, s_answer>>

SameReturns ==
    /\ s_pc = "b" /\ Found /\ s_call.op = "same"
    /\ s_answer' = (s_ra = f_root)
    /\ s_call' = NoCall /\ s_pc' = "none"
    /\ UNCHANGED <<parent, rank, f_root, f_i, s_ra>>

SetNext ==
    \/ \E op \in {"union", "same"}, a \in Members, b \in Members : Call(op, a, b)
    \/ Climb
    \/ Compress
    \/ FindAReturns
    \/ UnionReturns
    \/ SameReturns
-----------------------------------------------------------------------------
\* Types of the forest's variables.
SetTypeOK ==
    /\ parent \in [Members -> Members] /\ rank \in [Members -> Nat]
    /\ f_root \in Members /\ f_i \in Members /\ s_ra \in Members
    /\ s_pc \in {"none", "a", "b"} /\ s_answer \in BOOLEAN
    /\ (s_pc = "none") = (s_call = NoCall)

\* Every loop of find_set ends: ranks grow strictly along the parents, so there
\* is no cycle to climb for ever, and a root of rank r has 2^r nodes below it,
\* so no m_rank outgrows the logarithm of the number of nodes (lines 82-119).
RootOf[x \in Members] == IF parent[x] = x THEN x ELSE RootOf[parent[x]]
RanksBound ==
    /\ \A x \in Members : parent[x] # x => rank[x] < rank[parent[x]]
    /\ \A r \in Members :
          parent[r] = r => 2 ^ rank[r] <= Cardinality({x \in Members : RootOf[x] = r})

\* Compression never moves a node to another set, a union joins the sets of its
\* two arguments and no third one, and same_set answers for the partition as it
\* is (lines 78-129).
Sets == INSTANCE Partition WITH
            Elements <- Members,
            blocks <- [x \in Members |-> {y \in Members : RootOf[y] = RootOf[x]}],
            call <- s_call, answer <- s_answer
SetsImplementPartition == Sets!Spec
=============================================================================
