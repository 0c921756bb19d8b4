---------------------------- MODULE MCProjectRefresh ----------------------------
(* ProjectRefresh for TLC. *)
EXTENDS ProjectRefresh

Results == {"SUCCESS", "UNSTABLE", "FAILURE", "NOT_BUILT"}
================================================================================
