----------------------------- MODULE MCMulticastFeed ----------------------------
(* MulticastFeed for TLC: the instances are in the cfg files. *)
EXTENDS MulticastFeed, TLC

CONSTANTS p1, p2, c1, c2, h1, h2

OneProject == {p1}
TwoProjects == {p1, p2}
OneClient == {c1}
TwoClients == {c1, c2}
OneHost == {h1}
TwoHosts == {h1, h2}
Statuses == {"Success", "Failed"}
OneStatus == {"Failed"}

Symmetric == Permutations(Project) \cup Permutations(Client)
================================================================================
