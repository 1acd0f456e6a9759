----------------------------- MODULE MCRingQueue ----------------------------
(* Instances of RingQueue for TLC. *)
EXTENDS RingQueue, TLC

MCCells == RoundUpPow2(2)

(* Threads of a kind are interchangeable; used for safety only. *)
Symmetry == Permutations(Producers) \cup Permutations(Consumers)

=============================================================================
