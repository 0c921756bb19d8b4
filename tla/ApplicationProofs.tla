--------------------------- MODULE ApplicationProofs ---------------------------
(***************************************************************************)
(* Proofs about Application, for any number of processes and starts, any   *)
(* addresses, faults and deaths.                                           *)
(***************************************************************************)
EXTENDS Application, TLAPS

\* The one that runs is the one attached.  Whoever has got as far as to ask has met
\* another one, if it finds the segment, or was denied it.
Guarded ==
  /\ attached = Running
  /\ OneInstance
  /\ attached # {} => segment
  /\ \A p \in Process :
       \/ place[p] = "built" /\ segment
       \/ place[p] = "refused"
       => p \in met \cup denied

\* From Drop's first line on the client is told, and from its last on it is not
\* on its way to a sleep it will not be woken from.
Joining ==
  /\ commPC \in {"unpark", "join"} => ~clientRunning
  /\ commPC = "join" /\ netPC \in {"pass", "parked"} => token

\* The file has the address unless one has been applied that is still to be saved.
Kept ==
  /\ ~lost /\ ~(guiPC = "save" /\ changed) => Loaded = address
  /\ guiPC = "assign" /\ ~changed => chosen = address

IInv == TypeOK /\ Guarded /\ Joining /\ Kept


LEMMA InitInv == Init => IInv
<1> SUFFICES ASSUME Init PROVE IInv
  OBVIOUS
<1> USE DEF Init, InstanceInit, ConnectionInit
<1>1. TypeOK
  <2>1. InstanceTypeOK
    BY DEF InstanceTypeOK
  <2>2. ConnectionTypeOK
    <3>1. 0 \in 0..MaxApplies /\ 0 \in 0..MaxFaults
      BY ConnectionConstants
    <3>2. {changed, quitting, running, clientRunning, token, unannounced, lost}
            \subseteq BOOLEAN
      OBVIOUS
    <3>3. QED
      BY <3>1, <3>2, ConnectionConstants DEF ConnectionTypeOK
  <2>3. QED
    BY <2>1, <2>2, StartsAssumption DEF TypeOK
<1>2. Guarded
  BY DEF Guarded, Running, OneInstance
<1>3. Joining /\ Kept
  BY DEF Joining, Kept, Loaded
<1>4. QED
  BY <1>1, <1>2, <1>3 DEF IInv

--------------------------------------------------------------------------------
(* The guard. *)

GuardStep(p) == \/ Construct(p) \/ ConstructUnfixed(p)
                \/ Admit(p) \/ Refuse(p) \/ RefuseDenied(p)
                \/ Return(p) \/ Die(p)

\* Every step of a process at the guard keeps it.
LEMMA GuardKept ==
  ASSUME InstanceTypeOK, Guarded, NEW p \in Process, GuardStep(p)
  PROVE  InstanceTypeOK' /\ Guarded'
<1> USE DEF InstanceTypeOK
<1>1. CASE Construct(p)
  <2>1. InstanceTypeOK'
    BY <1>1 DEF Construct, Starts
  <2>2. Running' = Running
    BY <1>1 DEF Construct, Starts, Running
  <2>3. \A q \in Process \ {p} : q \in (met \cup denied)' <=> q \in met \cup denied
    BY <1>1 DEF Construct, Starts
  <2>4. segment' => segment /\ p \in met'
    BY <1>1 DEF Construct, Starts, Guarded
  <2>5. QED
    BY <1>1, <2>1, <2>2, <2>3, <2>4 DEF Construct, Starts, Guarded, OneInstance
<1>2. CASE Admit(p)
  <2>1. InstanceTypeOK'
    BY <1>2 DEF Admit
  <2>2. Running = {} /\ Running' = {p} /\ attached' = {p}
    BY <1>2 DEF Admit, Guarded, Running
  <2>3. \A q \in Process :
          place'[q] \in {"built", "refused"} => q \in met' \cup denied'
    BY <1>2 DEF Admit, Guarded
  <2>4. QED
    BY <1>2, <2>1, <2>2, <2>3 DEF Admit, Guarded, OneInstance
<1>3. CASE Refuse(p)
  <2>1. InstanceTypeOK'
    BY <1>3 DEF Refuse
  <2>2. Running' = Running
    BY <1>3 DEF Refuse, Running
  <2>3. QED
    BY <1>3, <2>1, <2>2 DEF Refuse, Guarded, OneInstance
<1>4. CASE Return(p)
  <2>1. InstanceTypeOK'
    BY <1>4 DEF Return
  <2>2. Running' = Running \ {p}
    BY <1>4 DEF Return, Running
  <2>3. segment' => segment
    BY <1>4 DEF Return, Guarded
  <2>4. attached' # {} => segment'
    BY <1>4 DEF Return, Guarded
  <2>5. QED
    BY <1>4, <2>1, <2>2, <2>3, <2>4 DEF Return, Guarded, OneInstance
<1>5. CASE Die(p)
  <2>1. InstanceTypeOK'
    BY <1>5 DEF Die
  <2>2. Running' = Running \ {p}
    BY <1>5 DEF Die, Running
  <2>3. QED
    BY <1>5, <2>1, <2>2 DEF Die, Guarded, OneInstance
<1>6. CASE ConstructUnfixed(p)
  <2>1. InstanceTypeOK'
    BY <1>6 DEF ConstructUnfixed, Starts
  <2>2. Running' = Running
    BY <1>6 DEF ConstructUnfixed, Starts, Running
  <2>3. /\ p \in denied'
        /\ \A q \in Process \ {p} : q \in (met \cup denied)' <=> q \in met \cup denied
    BY <1>6 DEF ConstructUnfixed, Starts
  <2>4. QED
    BY <1>6, <2>1, <2>2, <2>3 DEF ConstructUnfixed, Starts, Guarded, OneInstance
<1>7. CASE RefuseDenied(p)
  <2>1. InstanceTypeOK'
    BY <1>7 DEF RefuseDenied
  <2>2. Running' = Running
    BY <1>7 DEF RefuseDenied, Running
  <2>3. QED
    BY <1>7, <2>1, <2>2 DEF RefuseDenied, Guarded, OneInstance
<1>8. QED
  BY <1>1, <1>2, <1>3, <1>4, <1>5, <1>6, <1>7 DEF GuardStep

--------------------------------------------------------------------------------
(* The connection. *)

ConnectionInv == ConnectionTypeOK /\ Joining /\ Kept

LEMMA GuiKept ==
  ASSUME ConnectionInv, UserStep \/ GuiStep
  PROVE  ConnectionInv'
<1> USE ConnectionConstants
    DEF ConnectionInv, ConnectionTypeOK, Joining, Kept, Loaded, guiVars, netVars,
        boundVars
<1>1. CASE SaveSettings
  BY <1>1 DEF SaveSettings
<1>2. CASE Exit
  BY <1>2 DEF Exit
<1>3. CASE \E a \in Address : Apply(a)
  <2>1. PICK a \in Address : Apply(a)
    BY <1>3
  <2>2. applies' \in 0..MaxApplies
    BY <2>1 DEF Apply
  <2>3. ConnectionTypeOK'
    BY <2>1, <2>2 DEF Apply
  <2>4. changed' = (address # chosen')
    BY <2>1 DEF Apply
  <2>5. Kept'
    BY <2>1, <2>4 DEF Apply
  <2>6. QED
    BY <2>1, <2>3, <2>5 DEF Apply
<1>4. CASE Assign
  BY <1>4 DEF Assign
<1>5. CASE OpenFile
  BY <1>5 DEF OpenFile
<1>6. CASE FailToOpen
  BY <1>6 DEF FailToOpen, Fault
<1>7. CASE Stop
  BY <1>7 DEF Stop
<1>8. CASE JoinAndRestart
  BY <1>8 DEF JoinAndRestart
<1>9. CASE Flush
  BY <1>9 DEF Flush
<1>10. CASE JoinAndClose
  BY <1>10 DEF JoinAndClose
<1>11. QED
  BY <1>1, <1>2, <1>3, <1>4, <1>5, <1>6, <1>7, <1>8, <1>9, <1>10
     DEF UserStep, GuiStep

LEMMA ThreadsKept ==
  ASSUME ConnectionInv, CommunicationThread \/ NetworkThread \/ Panic
  PROVE  ConnectionInv'
<1> USE ConnectionConstants
    DEF ConnectionInv, ConnectionTypeOK, Joining, Kept, Loaded, guiVars, netVars,
        boundVars
<1>1. CASE StartClient
  BY <1>1 DEF StartClient, NewClient, Readable
<1>2. CASE LeaveLoop
  BY <1>2 DEF LeaveLoop
<1>3. CASE TellClient
  BY <1>3 DEF TellClient
<1>4. CASE Unpark
  BY <1>4 DEF Unpark
<1>5. CASE JoinClient
  BY <1>5 DEF JoinClient
<1>6. CASE CheckRunning
  BY <1>6 DEF CheckRunning
<1>7. CASE Pass
  BY <1>7 DEF Pass
<1>8. CASE Wake
  BY <1>8 DEF Wake
<1>9. CASE Panic
  BY <1>9 DEF Panic, Fault
<1>10. QED
  BY <1>1, <1>2, <1>3, <1>4, <1>5, <1>6, <1>7, <1>8, <1>9
     DEF CommunicationThread, NetworkThread

LEMMA LifeKept ==
  ASSUME ConnectionInv, Open \/ Close \/ Crash
  PROVE  ConnectionInv'
<1> USE ConnectionConstants
    DEF ConnectionInv, ConnectionTypeOK, Joining, Kept, Loaded, guiVars, netVars,
        boundVars
<1>1. CASE Open
  BY <1>1 DEF Open
<1>2. CASE Close
  BY <1>2 DEF Close, Off
<1>3. CASE Crash
  <2>1. faults' \in 0..MaxFaults
    BY <1>3 DEF Crash, Fault
  <2>2. lost' \in BOOLEAN /\ (~lost' => ~lost)
    BY <1>3 DEF Crash
  <2>3. QED
    BY <1>3, <2>1, <2>2 DEF Crash, Off
<1>4. QED
  BY <1>1, <1>2, <1>3

\* What leaves the connection alone, but for counting a fault, keeps it.
LEMMA OthersKept ==
  ASSUME ConnectionInv, faults' \in 0..MaxFaults,
         UNCHANGED <<file, guiVars, running, commPC, connected, netVars,
                     unannounced, lost, applies>>
  PROVE  ConnectionInv'
BY DEF ConnectionInv, ConnectionTypeOK, Joining, Kept, Loaded, guiVars, netVars

LEMMA ElsewhereKept ==
  ASSUME ConnectionInv, FaultElsewhere \/ UNCHANGED connectionVars
  PROVE  ConnectionInv'
<1>1. faults' \in 0..MaxFaults
  BY ConnectionConstants
     DEF FaultElsewhere, Fault, connectionVars, boundVars, ConnectionInv, ConnectionTypeOK
<1>2. QED
  BY <1>1, OthersKept DEF FaultElsewhere, connectionVars, boundVars

--------------------------------------------------------------------------------
\* The invariant holds in every state.
LEMMA IInvariant == Spec => []IInv
<1>1. Init => IInv
  BY InitInv
<1>2. IInv /\ [Next]_vars => IInv'
  <2> SUFFICES ASSUME IInv, [Next]_vars PROVE IInv'
    OBVIOUS
  <2>1. /\ InstanceTypeOK /\ Guarded /\ ConnectionInv
        /\ starts \in 0..MaxStarts /\ faults \in 0..MaxFaults
    BY DEF IInv, TypeOK, ConnectionInv, ConnectionTypeOK
  <2>2. SUFFICES /\ InstanceTypeOK' /\ Guarded'
                 /\ ConnectionInv' /\ starts' \in 0..MaxStarts
    BY DEF IInv, TypeOK, ConnectionInv
  <2>3. ASSUME NEW p \in Process, Start(p)
        PROVE  /\ InstanceTypeOK' /\ Guarded'
               /\ ConnectionInv' /\ starts' \in 0..MaxStarts
    <3>1. InstanceTypeOK' /\ Guarded'
      BY <2>1, <2>3, GuardKept DEF Start, GuardStep
    <3>2. ConnectionInv'
      BY <2>1, <2>3, ElsewhereKept DEF Start
    <3>3. QED
      BY <2>1, <2>3, <3>1, <3>2, StartsAssumption DEF Start
  <2>4. ASSUME NEW p \in Process, Ask(p)
        PROVE  /\ InstanceTypeOK' /\ Guarded'
               /\ ConnectionInv' /\ starts' \in 0..MaxStarts
    <3>1. InstanceTypeOK' /\ Guarded'
      BY <2>1, <2>4, GuardKept DEF Ask, GuardStep
    <3>2. ConnectionInv'
      BY <2>1, <2>4, ElsewhereKept DEF Ask
    <3>3. QED
      BY <2>1, <2>4, <3>1, <3>2 DEF Ask
  <2>5. ASSUME OpenWindow
        PROVE  /\ InstanceTypeOK' /\ Guarded'
               /\ ConnectionInv' /\ starts' \in 0..MaxStarts
    <3>1. ConnectionInv'
      BY <2>1, <2>5, LifeKept DEF OpenWindow
    <3>2. QED
      BY <2>1, <2>5, <3>1
         DEF OpenWindow, instanceVars, InstanceTypeOK, Guarded, Running, OneInstance
  <2>6. ASSUME NEW p \in Process, LeaveMain(p)
        PROVE  /\ InstanceTypeOK' /\ Guarded'
               /\ ConnectionInv' /\ starts' \in 0..MaxStarts
    <3>1. InstanceTypeOK' /\ Guarded'
      BY <2>1, <2>6, GuardKept DEF LeaveMain, GuardStep
    <3>2. CASE place[p] = "running"
      BY <2>1, <2>6, <3>1, <3>2, LifeKept DEF LeaveMain
    <3>3. CASE place[p] # "running"
      BY <2>1, <2>6, <3>1, <3>3, ElsewhereKept DEF LeaveMain
    <3>4. QED
      BY <3>2, <3>3
  <2>7. ASSUME NEW p \in Process, Perish(p)
        PROVE  /\ InstanceTypeOK' /\ Guarded'
               /\ ConnectionInv' /\ starts' \in 0..MaxStarts
    <3>1. InstanceTypeOK' /\ Guarded'
      BY <2>1, <2>7, GuardKept DEF Perish, GuardStep
    <3>2. CASE place[p] = "running" /\ guiPC # "off"
      BY <2>1, <2>7, <3>1, <3>2, LifeKept DEF Perish
    <3>3. CASE ~(place[p] = "running" /\ guiPC # "off")
      <4>1. ConnectionInv'
        BY <2>1, <2>7, <3>3, ElsewhereKept DEF Perish
      <4>2. QED
        BY <2>1, <2>7, <3>1, <4>1 DEF Perish
    <3>4. QED
      BY <3>2, <3>3
  <2>8. ASSUME Window
        PROVE  /\ InstanceTypeOK' /\ Guarded'
               /\ ConnectionInv' /\ starts' \in 0..MaxStarts
    <3>1. ConnectionInv'
      BY <2>1, <2>8, GuiKept, ThreadsKept DEF Window, WindowStep
    <3>2. QED
      BY <2>1, <2>8, <3>1
         DEF Window, instanceVars, InstanceTypeOK, Guarded, Running, OneInstance
  <2>9. ASSUME UNCHANGED vars
        PROVE  /\ InstanceTypeOK' /\ Guarded'
               /\ ConnectionInv' /\ starts' \in 0..MaxStarts
    <3>1. ConnectionInv'
      BY <2>1, <2>9, ElsewhereKept DEF vars
    <3>2. QED
      BY <2>1, <2>9, <3>1
         DEF vars, instanceVars, InstanceTypeOK, Guarded, Running, OneInstance
  <2>10. QED
    BY <2>3, <2>4, <2>5, <2>6, <2>7, <2>8, <2>9 DEF Next
<1>3. QED
  BY <1>1, <1>2, PTL DEF Spec

--------------------------------------------------------------------------------
(* What follows. *)

\* Every variable keeps its type.
THEOREM TypeCorrect == Spec => []TypeOK
<1>1. IInv => TypeOK
  BY DEF IInv
<1>2. QED
  BY <1>1, IInvariant, PTL

\* The guard: two instances never run at the same time.
THEOREM OneRunsAtATime == Spec => []OneInstance
<1>1. IInv => OneInstance
  BY DEF IInv, Guarded
<1>2. QED
  BY <1>1, IInvariant, PTL

\* The guard: whoever is turned away has been started while another instance ran,
\* or was denied the segment itself.
THEOREM NobodyIsTurnedAway == Spec => []RefusedForAReason
<1>1. IInv => RefusedForAReason
  BY DEF IInv, Guarded, RefusedForAReason
<1>2. QED
  BY <1>1, IInvariant, PTL

\* MonitorClient::drop: a query client that is joined is not left parked.
THEOREM NoParkIsWaitedOut == Spec => []JoinIsPrompt
<1>1. IInv => JoinIsPrompt
  BY DEF IInv, Joining, JoinIsPrompt
<1>2. QED
  BY <1>1, IInvariant, PTL

\* Settings: the address that was applied is what the next start loads, unless the
\* application died in a save or the file did not open for one.
THEOREM AddressIsKept == Spec => []SettingsSurvive
<1>1. IInv => SettingsSurvive
  BY DEF IInv, Kept, SettingsSurvive
<1>2. QED
  BY <1>1, IInvariant, PTL
================================================================================
