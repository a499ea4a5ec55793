---------------------------- MODULE PriorityBag ----------------------------
(***************************************************************************)
(* What a bounded priority queue promises: it holds what was put in, each  *)
(* as often as it was put in and not yet taken out, and what it gives out  *)
(* is never preceded by something it still holds.                          *)
(***************************************************************************)
EXTENDS Naturals, FiniteSets

CONSTANTS Things,
          Room,           \* how many it can hold
          Before(_, _)    \* Before(x, y): x has to leave before y

VARIABLES bag,            \* [Things -> Nat]: how often each is inside
          out             \* what was taken out last

Size == Cardinality(UNION {{x} \X (1 .. bag[x]) : x \in Things})

Init == bag = [x \in Things |-> 0] /\ out \notin Things

Put(x) ==
    /\ Size < Room
    /\ bag' = [bag EXCEPT ![x] = @ + 1]
    /\ UNCHANGED out

Take(x) ==
    /\ bag[x] > 0
    /\ \A y \in Things : bag[y] > 0 => ~Before(y, x)
    /\ bag' = [bag EXCEPT ![x] = @ - 1]
    /\ out' = x

Next == \E x \in Things : Put(x) \/ Take(x)

Spec == Init /\ [][Next]_<<bag, out>>
=============================================================================
