------------------------------ MODULE Application ------------------------------
(***************************************************************************)
(* The life of the Qt application: it is started any number of times, one  *)
(* instance gets past the guard and has a window and a connection, it is   *)
(* closed or dies, and the next one finds the settings file it left.       *)
(***************************************************************************)
EXTENDS SingleInstance, Connection

CONSTANT MaxStarts   \* bound on starts

ASSUME StartsAssumption == MaxStarts \in Nat

VARIABLE starts

vars == <<instanceVars, connectionVars, starts>>

\* A fault that does not touch the window or its threads.
FaultElsewhere == Fault /\ UNCHANGED <<file, guiVars, running, commPC, connected,
                                      netVars, unannounced, lost, applies>>

\* Somebody starts the application.
Start(p) == /\ starts < MaxStarts
            /\ starts' = starts + 1
            /\ \/ Construct(p) /\ UNCHANGED connectionVars
               \/ ConstructUnfixed(p) /\ FaultElsewhere

\* The guard lets p on, or does not.
Ask(p) == /\ \/ Admit(p) /\ UNCHANGED connectionVars
             \/ Refuse(p) /\ UNCHANGED connectionVars
             \/ RefuseDenied(p) /\ FaultElsewhere
          /\ UNCHANGED starts

\* The window of the one that runs is made.
OpenWindow == /\ Running # {}
              /\ Open
              /\ UNCHANGED <<instanceVars, starts>>

\* main returns, without a window or once it is closed.
LeaveMain(p) == /\ Return(p)
                /\ IF place[p] = "running" THEN Close ELSE UNCHANGED connectionVars
                /\ UNCHANGED starts

Perish(p) == /\ Die(p)
             /\ IF place[p] = "running" /\ guiPC # "off" THEN Crash
                ELSE FaultElsewhere
             /\ UNCHANGED starts

\* The window of the one that runs.
Window == WindowStep /\ UNCHANGED <<instanceVars, starts>>

Next == \/ \E p \in Process : Start(p) \/ Ask(p) \/ LeaveMain(p) \/ Perish(p)
        \/ OpenWindow
        \/ Window

Init == InstanceInit /\ ConnectionInit /\ starts = 0

Spec == Init /\ [][Next]_vars

\* The threads run; the GUI's whatever the user does meanwhile.  An address that
\* resolves does so in the end.
Fairness == /\ WF_vars(GuiStep /\ UNCHANGED <<instanceVars, starts>>)
            /\ WF_vars(CommunicationThread /\ UNCHANGED <<instanceVars, starts>>)
            /\ WF_vars(NetworkThread /\ UNCHANGED <<instanceVars, starts>>)

FairSpec == Spec /\ Fairness

--------------------------------------------------------------------------------
\* Every variable keeps its type: what a file holds that was being written when
\* the process died is never taken for an address.
TypeOK == InstanceTypeOK /\ ConnectionTypeOK /\ starts \in 0..MaxStarts
================================================================================
