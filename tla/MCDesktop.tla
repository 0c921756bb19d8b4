------------------------------- MODULE MCDesktop -------------------------------
(* Desktop for TLC: the instances are in the cfg files. *)
EXTENDS Desktop

CONSTANTS c1

OneProject == 1..1
TwoProjects == 1..2
OneClient == {c1}
AlphabeticalName == [p \in Project |-> p]
SomeStatuses == {"Success", "Unstable", "Disabled"}
================================================================================
