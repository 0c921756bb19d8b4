------------------------------ MODULE MCQueryFeed ------------------------------
(* QueryFeed for TLC: the instances are in the cfg files. *)
EXTENDS QueryFeed, TLC

CONSTANTS p1, p2, c1, c2

OneProject == {p1}
TwoProjects == {p1, p2}
OneClient == {c1}
TwoClients == {c1, c2}
Statuses == {"Success", "Failed"}

Symmetric == Permutations(Project) \cup Permutations(Client)
================================================================================
