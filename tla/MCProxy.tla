------------------------------ MODULE MCProxy ------------------------------
(* Instances of the proxy for TLC. *)
EXTENDS Proxy

CONSTANTS c1, c2, u1, u2

MCRoutes == <<[prefix |-> "/a", up |-> u1], [prefix |-> "/", up |-> u2]>>
MCMatches == {<<"/a/x", "/a">>, <<"/a/x", "/">>, <<"/b", "/">>}
BothToOne == [k \in Clients |-> "/a/x"]
OneRequest == [k \in Clients |-> 1]
MCFds == 3..6
============================================================================
