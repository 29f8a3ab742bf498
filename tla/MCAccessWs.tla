------------------------------ MODULE MCAccessWs ------------------------------
(* Instances of accessws for TLC.                                           *)
EXTENDS AccessWsProps, TLC
CONSTANTS u1, u2, s1, s2, m1, a1, a2, p1
MCTopics == [order |-> {m1}, asset |-> {a1, a2}, position |-> {p1}]
MCLegs   == [m \in {m1} |-> <<a1, a2>>]
MCParams == [order |-> {<<>>}, asset |-> {<<a1, Bad>>, <<a2, a2>>}, position |-> {<<p1>>}]
MCSymmetry == Permutations({u1, u2}) \cup Permutations({s1, s2})
==============================================================================
