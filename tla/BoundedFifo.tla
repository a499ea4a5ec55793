---------------------------- MODULE BoundedFifo ----------------------------
(***************************************************************************)
(* What a bounded single-producer single-consumer queue promises: records  *)
(* come out once each, whole, in the order they went in, and at most       *)
(* Capacity of them are inside at any time.                                *)
(***************************************************************************)
EXTENDS Naturals, Sequences

CONSTANTS Capacity,   \* records the queue can hold
          Record      \* everything a caller may put in

VARIABLES sent,       \* every record put in so far, oldest first
          got         \* every record taken out so far, oldest first

vars == <<sent, got>>

Init == sent = <<>> /\ got = <<>>

Put(rec) ==
    /\ Len(sent) - Len(got) < Capacity
    /\ sent' = Append(sent, rec)
    /\ UNCHANGED got

Get ==
    /\ Len(got) < Len(sent)
    /\ got' = Append(got, sent[Len(got) + 1])
    /\ UNCHANGED sent

Next == Get \/ \E rec \in Record : Put(rec)

Spec == Init /\ [][Next]_vars
=============================================================================
