----------------------------- MODULE MCApplication -----------------------------
(* Application for TLC: a query, a multicast and an unknown address. *)
EXTENDS Application

CONSTANTS x, y, query, multicast, unknown

TwoProcesses == {x, y}
Addresses == {query, multicast, unknown}
Known == {query, multicast}
OneMulticast == {multicast}
================================================================================
