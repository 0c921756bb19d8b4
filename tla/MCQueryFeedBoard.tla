---------------------------- MODULE MCQueryFeedBoard ----------------------------
(* QueryFeedBoard for TLC. *)
EXTENDS QueryFeedBoard

CONSTANTS p1, p2, c1, c2

TwoProjects == {p1, p2}
OneProject == {p1}
OneClient == {c1}
TwoClients == {c1, c2}
\* With jobs that are not built yet, and whatever a refused page makes of one.
GetsWell == {"Success"}
================================================================================
