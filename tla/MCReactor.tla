----------------------------- MODULE MCReactor -----------------------------
(* Small instances of Reactor for TLC. *)
EXTENDS Reactor, TLC

MCFds == 1..2
Symmetry == Permutations(Clients)
OrderlyOnly == {"fin"}
AnyHangup == {"fin", "rst"}

CONSTANT Talker

(* Two requests from every client; two from Talker and none from
   the others; one from every client. *)
TwoRequestsFromEach == [k \in Clients |-> 4]
OneTalks == [k \in Clients |-> IF k = Talker THEN 4 ELSE 0]
OneRequestFromEach == [k \in Clients |-> 2]

=============================================================================
