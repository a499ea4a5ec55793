----------------------------- MODULE MCMaxFlow -----------------------------
(* A network of three inner nodes in which the flow that reached one of them *)
(* has to be sent back and around another.                                   *)
EXTENDS MaxFlow, Sequences

MCRows == << <<0, 0, 3, 1, 2>>,
             <<0, 0, 2, 2, 0>>,
             <<0, 0, 0, 0, 3>>,
             <<0, 2, 3, 0, 2>>,
             <<0, 0, 0, 0, 0>> >>
MCNetwork == {[p \in Pairs |-> MCRows[p[1] + 1][p[2] + 1]]}
=============================================================================
