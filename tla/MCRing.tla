------------------------------- MODULE MCRing -------------------------------
(* The two programs over the ring: pc "none" is the two threads that share   *)
(* it, any other pc is main.cpp's one thread.  Two slots and indices modulo  *)
(* 4, so that five records reuse every slot and wrap the indices; payloads   *)
(* of one byte and of more bytes than a slot has; for main.cpp five          *)
(* datagrams more than the ring holds.                                       *)
EXTENDS RingIngest

MCLens == {1, 3}

RingInit ==
    /\ Init
    /\ pc \in {"none", "recv"} /\ elapsed = FALSE /\ count = 0 /\ dropped = 0

RingNext ==
    \/ pc = "none" /\ Next /\ UNCHANGED <<pc, elapsed, count, dropped>>
    \/ pc # "none" /\ IngestNext

RingSpec ==
    /\ RingInit /\ [][RingNext]_ingestVars
    /\ pc = "none" => ConsumerFairness
    /\ pc # "none" => IngestFairness
=============================================================================
