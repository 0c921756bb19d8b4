---------------------------- MODULE MCMulticastFeedBoard ----------------------------
(* MulticastFeedBoard for TLC. *)
EXTENDS MulticastFeedBoard

CONSTANTS p1, p2, c1, c2, h1, h2

TwoProjects == {p1, p2}
OneProject == {p1}
OneClient == {c1}
TwoClients == {c1, c2}
OneHost == {h1}
TwoHosts == {h1, h2}
OneStatus == {"Failed"}
================================================================================
