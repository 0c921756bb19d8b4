----------------------------- MODULE SingleInstance -----------------------------
(***************************************************************************)
(* The guard that lets one Qt application run at a time                    *)
(* (SingleInstanceMode): a segment of shared memory that whoever runs is   *)
(* attached to.  On Unix, which the guard has a fix for, a segment is      *)
(* removed by the last process that detaches from it, and stays behind if  *)
(* that process dies instead.                                              *)
(*                                                                         *)
(* The two places where the segment is touched are under one semaphore     *)
(* each, and a process that dies in one of them leaves what it would have  *)
(* left before it, so each is one step.  (Unix gives the semaphore back.)  *)
(* The system may deny a process the segment (no memory, no permission);   *)
(* that the semaphore itself cannot be had is left out.                    *)
(***************************************************************************)
EXTENDS FiniteSets

CONSTANT Process   \* the processes somebody starts the application in

VARIABLES
  place,      \* place[p]: where main of p is
  segment,    \* the shared memory exists
  attached,   \* the processes attached to it
  met,        \* history: those that have seen another one run as they started
  denied      \* history: those that were denied the segment as they started

instanceVars == <<place, segment, attached, met, denied>>

Running == {p \in Process : place[p] = "running"}

\* p starts, and what it has met and was denied is what it is from now on.
Starts(p) ==
  /\ place[p] = "absent"
  /\ place' = [place EXCEPT ![p] = "built"]
  /\ met' = IF Running = {} THEN met \ {p} ELSE met \cup {p}
  /\ UNCHANGED attached

\* Mutant: the fix removes the segment, whoever is attached.
Construct_Removes(p) ==
  /\ Starts(p)
  /\ segment' = FALSE
  /\ denied' = denied \ {p}

\* Mutant: the constructor is without the fix.
Construct_NoFix(p) ==
  /\ Starts(p)
  /\ denied' = denied \ {p}
  /\ UNCHANGED segment

\* The constructor attaches and detaches: a segment nobody is attached to goes.
Construct(p) ==
  /\ Starts(p)
  /\ segment' = (segment /\ attached # {})
  /\ denied' = denied \ {p}

\* The constructor cannot attach to a segment, and does not look: it stays.
ConstructUnfixed(p) ==
  /\ segment
  /\ Starts(p)
  /\ denied' = denied \cup {p}
  /\ UNCHANGED segment

\* isAlreadyRunning: there is no segment, and p creates it.
Admit(p) ==
  /\ place[p] = "built"
  /\ ~segment
  /\ segment' = TRUE
  /\ attached' = attached \cup {p}
  /\ place' = [place EXCEPT ![p] = "running"]
  /\ met' = met \cup {q \in Process \ {p} : place[q] = "built"}
  /\ UNCHANGED denied

\* isAlreadyRunning: p attaches, so another one runs; p detaches.
Refuse(p) ==
  /\ place[p] = "built"
  /\ segment
  /\ segment' = (attached # {})
  /\ place' = [place EXCEPT ![p] = "refused"]
  /\ UNCHANGED <<attached, met, denied>>

\* isAlreadyRunning: p can neither attach nor create, and concludes that another
\* one runs, whether there is a segment or not.
RefuseDenied(p) ==
  /\ place[p] = "built"
  /\ place' = [place EXCEPT ![p] = "refused"]
  /\ denied' = denied \cup {p}
  /\ UNCHANGED <<segment, attached, met>>

\* main returns: the destructor detaches if p is attached.
Return(p) ==
  /\ place[p] \in {"running", "refused"}
  /\ place' = [place EXCEPT ![p] = "absent"]
  /\ attached' = attached \ {p}
  /\ segment' = IF p \in attached THEN attached' # {} ELSE segment
  /\ UNCHANGED <<met, denied>>

\* The process dies; the system detaches it and removes nothing.
Die(p) ==
  /\ place[p] # "absent"
  /\ place' = [place EXCEPT ![p] = "absent"]
  /\ attached' = attached \ {p}
  /\ UNCHANGED <<segment, met, denied>>

InstanceInit == /\ place = [p \in Process |-> "absent"]
                /\ segment = FALSE
                /\ attached = {}
                /\ met = {}
                /\ denied = {}

--------------------------------------------------------------------------------
InstanceTypeOK ==
  /\ place \in [Process -> {"absent", "built", "running", "refused"}]
  /\ segment \in BOOLEAN
  /\ attached \in SUBSET Process
  /\ met \in SUBSET Process
  /\ denied \in SUBSET Process

\* Two instances never run at the same time, whatever dies in between.
OneInstance == \A p, q \in Running : p = q

\* Whoever is told that another instance runs has been started while one did, or
\* was denied the segment: one that a dead instance has left behind turns nobody
\* away who could have removed it, and what another process is denied does not
\* count.
RefusedForAReason ==
  \A p \in Process : place[p] = "refused" => p \in met \cup denied
================================================================================
