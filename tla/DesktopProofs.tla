------------------------------ MODULE DesktopProofs ------------------------------
(***************************************************************************)
(* Proofs about Desktop, for any projects and statuses, and any number of  *)
(* servers, changes and clicks.                                            *)
(***************************************************************************)
EXTENDS Desktop, ClientMonitorProofs

--------------------------------------------------------------------------------
\* A box that is set to what the notify list says of its own id changes
\* nothing, in whatever state the GUI thread is.
LEMMA BoxAsListed ==
  ASSUME NEW p, OnRowItemChanged(p, p \in notifyList)
  PROVE  notifyList' = notifyList /\ guiPC' = guiPC
<1>1. CASE p \in notifyList
  BY <1>1 DEF OnRowItemChanged
<1>2. CASE p \notin notifyList
  BY <1>2 DEF OnRowItemChanged
<1> QED
  BY <1>1, <1>2

\* The GUI thread never takes the mutex while it holds it: filling the table
\* does not save the settings (ServerOverviewTable::setProjectInformation).
THEOREM MutexIsTakenOnce == Spec => []NeverLocksTwice
<1>1. Init => NeverLocksTwice
  BY DEF Init, NeverLocksTwice
<1>2. NeverLocksTwice /\ [Next]_vars => NeverLocksTwice'
  <2> SUFFICES ASSUME NeverLocksTwice, [Next]_vars
               PROVE  guiPC' # "stuck"
    BY DEF NeverLocksTwice
  <2>1. guiPC # "stuck"
    BY DEF NeverLocksTwice
  <2>2. CASE ServerChanges \/ Arrive \/ UNCHANGED vars
    BY <2>1, <2>2 DEF ServerChanges, Arrive, vars, guiVars
  <2>3. CASE CommunicationThread
    BY <2>1, <2>3 DEF CommunicationThread, StartClient, RefreshProjects,
       AcquireProjects, Swap, EmitUpdated, EndThread, guiVars
  <2>4. ASSUME NEW p \in Project, UpdateRow(p)
        PROVE  guiPC' # "stuck"
    <3>1. \/ UNCHANGED guiPC
          \/ OnRowItemChanged(p, p \in notifyList)
      BY <2>4 DEF UpdateRow, RowId
    <3> QED
      BY <2>1, <3>1, BoxAsListed
  <2>5. CASE GuiThread
    BY <2>1, <2>4, <2>5 DEF GuiThread, TakeEvent, GiveNotices, EndTable,
       ComputeIcon, JoinAndExit, JoinAndRestart
  <2>6. ASSUME NEW p \in Project, ToggleNotify(p)
        PROVE  guiPC' # "stuck"
    BY <2>6 DEF ToggleNotify, Idle, OnRowItemChanged
  <2>7. CASE UserStep
    BY <2>1, <2>6, <2>7 DEF UserStep, OpenMenu, ChooseVolunteer, CloseMenu,
       SwitchServer, Exit
  <2> QED
    BY <2>2, <2>3, <2>5, <2>7 DEF Next
<1> QED
  BY <1>1, <1>2, PTL DEF Spec

--------------------------------------------------------------------------------
\* Types.  The table is only left when every project of the list that is not
\* disabled has its row: the list stays the same while it is filled.

RowsToCome ==
  guiPC = "table" =>
    LET visible == {p \in DOMAIN list : list[p].status # "Disabled"}
    IN  toUpdate \subseteq visible /\ visible \subseteq DOMAIN rows \cup toUpdate

TypeInv == TypeOK /\ RowsToCome

LEMMA MappedElim ==
  ASSUME NEW S, NEW f \in Mapped(S)
  PROVE  DOMAIN f \in SUBSET Project /\ f \in [DOMAIN f -> S]
<1>1. PICK T \in SUBSET Project : f \in [T -> S]
  BY DEF Mapped
<1> QED BY <1>1

LEMMA MappedIntro ==
  ASSUME NEW S, NEW T \in SUBSET Project, NEW f \in [T -> S]
  PROVE  f \in Mapped(S)
BY DEF Mapped

LEMMA EmptyIsMapped == ASSUME NEW S PROVE EmptyList \in Mapped(S)
<1>1. EmptyList \in [{} -> S]
  BY DEF EmptyList
<1> QED BY <1>1, MappedIntro

\* A list of the server is a list, of statuses of this instance.
LEMMA ServerListType ==
  ASSUME NEW l \in ServerLists
  PROVE  /\ l \in ProjectList
         /\ \A p \in DOMAIN l : l[p].status \in ListStatus
<1>1. PICK S \in SUBSET Project \ {{}}, f \in [Project -> ListStatus] :
        l = [p \in S |-> [status |-> f[p], timestamp |-> 0, volunteer |-> NoOne]]
  BY DEF ServerLists
<1>2. 0 \in Time
  BY DataBounds DEF Time
<1>3. l \in [S -> Entry]
  BY <1>1, <1>2, DesktopConstants DEF Entry, Volunteers
<1>4. l \in ProjectList
  BY <1>3, ListIntro
<1>5. \A p \in DOMAIN l : l[p].status \in ListStatus
  BY <1>1
<1> QED BY <1>4, <1>5

\* What the icon sums up is a status.
LEMMA WorstOfType ==
  ASSUME NEW l, NEW watched
  PROVE  WorstOf(l, watched) \in Status
<1> DEFINE found == {i \in DOMAIN Priority : \E p \in watched \cap DOMAIN l :
                                                l[p].status = Priority[i]}
<1>1. CASE found = {}
  BY <1>1 DEF WorstOf, Status
<1>2. CASE found # {}
  <2>1. DOMAIN Priority = 1..6
    BY DEF Priority
  <2>2. \E i \in found : \A j \in found : i <= j
    <3>1. found \subseteq 1..6
      BY <2>1
    <3> HIDE DEF found
    <3> SUFFICES ASSUME \A i \in found : \E j \in found : j < i
                 PROVE  FALSE
      BY <3>1
    <3>2. 1 \notin found
      BY <3>1
    <3>3. 2 \notin found
      BY <3>1, <3>2
    <3>4. 3 \notin found
      BY <3>1, <3>2, <3>3
    <3>5. 4 \notin found
      BY <3>1, <3>2, <3>3, <3>4
    <3>6. 5 \notin found
      BY <3>1, <3>2, <3>3, <3>4, <3>5
    <3>7. 6 \notin found
      BY <3>1, <3>2, <3>3, <3>4, <3>5, <3>6
    <3>8. found = {}
      BY <3>1, <3>2, <3>3, <3>4, <3>5, <3>6, <3>7
    <3> QED BY <1>2, <3>8
  <2>3. (CHOOSE i \in found : \A j \in found : i <= j) \in 1..6
    <3>1. (CHOOSE i \in found : \A j \in found : i <= j) \in found
      <4> HIDE DEF found
      <4> QED BY <2>2
    <3> QED BY <2>1, <3>1
  <2>4. \A i \in 1..6 : Priority[i] \in Status
    BY DEF Priority, Status
  <2>5. WorstOf(l, watched) = Priority[CHOOSE i \in found : \A j \in found : i <= j]
    BY <1>2 DEF WorstOf
  <2> QED BY <2>3, <2>4, <2>5
<1> QED BY <1>1, <1>2

\* Filling the table leaves the notify list and the GUI thread where they are.
LEMMA UpdateRowKeeps ==
  ASSUME NEW p \in Project, UpdateRow(p)
  PROVE  notifyList' = notifyList /\ guiPC' = guiPC
<1>1. CASE UNCHANGED <<notifyList, guiPC>>
  BY <1>1
<1>2. CASE OnRowItemChanged(p, p \in notifyList)
  BY <1>2, BoxAsListed
<1> QED
  BY <1>1, <1>2 DEF UpdateRow, RowId

LEMMA InitType == Init => TypeInv
<1> SUFFICES ASSUME Init PROVE TypeInv
  OBVIOUS
<1>1. ClientTypeOK
  BY EmptyListType, EmptySeq DEF Init, ClientInit, ClientTypeOK
<1>2. EmptyList \in ProjectList
  BY EmptyListType
<1>3. /\ rows \in Mapped([status : Status, notify : BOOLEAN])
      /\ lastStatus \in Mapped(Status)
  BY EmptyIsMapped DEF Init
<1>4. RowsToCome
  BY DEF Init, RowsToCome
<1> QED BY <1>1, <1>2, <1>3, <1>4, DesktopConstants
        DEF Init, TypeInv, TypeOK, NoMenu, Status

LEMMA ServerStepType ==
  ASSUME TypeInv, ServerChanges \/ Arrive
  PROVE  TypeInv'
<1>1. CASE ServerChanges
  <2>1. serverList' \in ServerLists
    BY <1>1 DEF ServerChanges
  <2> QED BY <1>1, <2>1 DEF ServerChanges, TypeInv, TypeOK, ClientTypeOK, RowsToCome,
          clientVars, commVars, guiVars, windowVars
<1>2. CASE Arrive
  <2>1. serverList \in ProjectList
    BY ServerListType DEF TypeInv, TypeOK
  <2>2. ClientTypeOK'
    BY <1>2, <2>1, ClientType, DesktopConstants DEF Arrive, TypeInv, TypeOK
  <2> QED BY <1>2, <2>1, <2>2 DEF Arrive, TypeInv, TypeOK, RowsToCome, commVars,
          guiVars, windowVars
<1> QED BY <1>1, <1>2

LEMMA CommunicationStepType ==
  ASSUME TypeInv, CommunicationThread
  PROVE  TypeInv'
<1> USE DEF TypeInv, TypeOK, RowsToCome, guiVars, windowVars, serverVars
<1>1. CASE StartClient \/ AcquireProjects \/ EmitUpdated
  <2>1. ClientTypeOK'
    BY <1>1 DEF StartClient, AcquireProjects, EmitUpdated, clientVars, ClientTypeOK
  <2>2. acquired' \in ProjectList
    BY <1>1, DesktopConstants DEF StartClient, AcquireProjects, EmitUpdated, ClientTypeOK
  <2> QED BY <1>1, <2>1, <2>2 DEF StartClient, AcquireProjects, EmitUpdated
<1>2. CASE RefreshProjects \/ EndThread
  <2>1. ClientTypeOK'
    BY <1>2, ClientType, DesktopConstants DEF RefreshProjects, EndThread
  <2> QED BY <1>2, <2>1 DEF RefreshProjects, EndThread
<1>3. CASE Swap
  <2>1. ClientTypeOK'
    BY <1>3 DEF Swap, clientVars, ClientTypeOK
  <2>2. raced' \in BOOLEAN
    BY <1>3 DEF Swap
  <2> QED BY <1>3, <2>1, <2>2, EmptyListType DEF Swap, MutexIsFree
<1> QED BY <1>1, <1>2, <1>3 DEF CommunicationThread

\* The GUI thread, filling the table.
LEMMA TableStepType ==
  ASSUME TypeInv, GiveNotices \/ EndTable \/ \E p \in Project : UpdateRow(p)
  PROVE  TypeInv'
<1> DEFINE RowType == [status : Status, notify : BOOLEAN]
           visible == {p \in DOMAIN list : list[p].status # "Disabled"}
<1> USE DEF TypeInv, TypeOK
<1>1. DOMAIN list \in SUBSET Project /\ list \in [DOMAIN list -> Entry]
  BY ListElim
<1>2. DOMAIN rows \in SUBSET Project /\ rows \in [DOMAIN rows -> RowType]
  BY MappedElim
<1>3. \A p \in DOMAIN list : list[p].status \in Status
  BY <1>1 DEF Entry
<1>4. CASE GiveNotices
  <2>1. lastStatus' \in Mapped(Status)
    <3>1. lastStatus' \in [DOMAIN list -> Status]
      BY <1>3, <1>4 DEF GiveNotices
    <3> QED BY <1>1, <3>1, MappedIntro
  <2>2. notice' \in [Project -> {"none", "broken", "fixed"}]
    BY <1>4 DEF GiveNotices, NoticeOf
  <2>3. RowsToCome'
    BY <1>4 DEF GiveNotices, RowsToCome
  <2>4. ClientTypeOK'
    BY <1>4 DEF GiveNotices, ClientTypeOK, clientVars
  <2>5. toUpdate' \in SUBSET Project /\ wasWell' \in SUBSET Project
    BY <1>1, <1>4 DEF GiveNotices
  <2> QED BY <1>4, <2>1, <2>2, <2>3, <2>4, <2>5 DEF GiveNotices, commVars, serverVars
<1>5. CASE EndTable
  <2>1. visible \subseteq DOMAIN rows
    BY <1>5 DEF EndTable, RowsToCome
  <2>2. rows' \in [visible -> RowType]
    BY <1>2, <1>5, <2>1 DEF EndTable
  <2>3. rows' \in Mapped(RowType)
    BY <1>1, <2>2, MappedIntro
  <2>4. ClientTypeOK' /\ RowsToCome'
    BY <1>5 DEF EndTable, ClientTypeOK, clientVars, RowsToCome
  <2> QED BY <1>5, <2>3, <2>4 DEF EndTable, commVars, serverVars
<1>6. ASSUME NEW p \in Project, UpdateRow(p)
      PROVE  TypeInv'
  <2>1. notifyList' = notifyList /\ guiPC' = guiPC
    BY <1>6, UpdateRowKeeps
  <2>2. p \in DOMAIN list
    BY <1>6 DEF UpdateRow, RowsToCome
  <2>3. rows' = [q \in DOMAIN rows \cup {p} |->
                   IF q = p THEN [status |-> list[p].status, notify |-> p \in notifyList]
                            ELSE rows[q]]
    BY <1>6 DEF UpdateRow
  <2>4. rows' \in [DOMAIN rows \cup {p} -> RowType]
    <3>1. (p \in notifyList) \in BOOLEAN
      OBVIOUS
    <3>2. [status |-> list[p].status, notify |-> p \in notifyList] \in RowType
      BY <1>3, <2>2, <3>1
    <3> QED BY <1>2, <2>3, <3>2
  <2>5. rows' \in Mapped(RowType)
    BY <1>2, <2>4, MappedIntro
  <2>6. RowsToCome'
    <3>1. DOMAIN rows' = DOMAIN rows \cup {p}
      BY <2>4
    <3> QED BY <1>6, <2>1, <3>1 DEF UpdateRow, RowsToCome
  <2>7. ClientTypeOK'
    BY <1>6 DEF UpdateRow, ClientTypeOK, clientVars
  <2> QED BY <1>6, <2>1, <2>5, <2>6, <2>7 DEF UpdateRow, commVars, serverVars
<1> QED BY <1>4, <1>5, <1>6

\* The GUI thread, between two tables.
LEMMA WindowStepType ==
  ASSUME TypeInv, TakeEvent \/ ComputeIcon \/ JoinAndExit \/ JoinAndRestart
  PROVE  TypeInv'
<1> USE DEF TypeInv, TypeOK, RowsToCome
<1>1. ClientTypeOK'
  BY DEF TakeEvent, ComputeIcon, JoinAndExit, JoinAndRestart, ClientTypeOK, clientVars
<1>2. CASE TakeEvent
  BY <1>1, <1>2 DEF TakeEvent, commVars, windowVars, serverVars
<1>3. CASE ComputeIcon
  <2>1. ListStatus \cup {"Unknown"} \subseteq Status
    BY DesktopConstants DEF Status
  <2>2. icon' \in Status
    BY <1>3, <2>1, WorstOfType DEF ComputeIcon
  <2> QED BY <1>1, <1>3, <2>2 DEF ComputeIcon, commVars, serverVars
<1>4. CASE JoinAndExit
  BY <1>1, <1>4 DEF JoinAndExit, commVars, windowVars, serverVars
<1>5. CASE JoinAndRestart
  BY <1>1, <1>5, EmptyListType DEF JoinAndRestart, windowVars
<1> QED BY <1>2, <1>3, <1>4, <1>5

LEMMA UserStepType ==
  ASSUME TypeInv, UserStep
  PROVE  TypeInv'
<1> USE DEF TypeInv, TypeOK, RowsToCome
<1>1. ASSUME NEW p \in Project, ToggleNotify(p)
      PROVE  TypeInv'
  <2>1. DOMAIN rows \in SUBSET Project
        /\ rows \in [DOMAIN rows -> [status : Status, notify : BOOLEAN]]
    BY MappedElim
  <2>2. rows' \in [DOMAIN rows -> [status : Status, notify : BOOLEAN]]
    BY <1>1, <2>1 DEF ToggleNotify
  <2>3. rows' \in Mapped([status : Status, notify : BOOLEAN])
    BY <2>1, <2>2, MappedIntro
  <2>4. notifyList' \in SUBSET Project /\ guiPC' \in {guiPC, "lock"}
    BY <1>1 DEF ToggleNotify, Idle, OnRowItemChanged
  <2>5. ClientTypeOK' /\ guiPC' # "table"
    BY <1>1, <2>4 DEF ToggleNotify, Idle, ClientTypeOK, clientVars
  <2>6. wasWell' \in SUBSET Project
    BY <1>1 DEF ToggleNotify
  <2> QED BY <1>1, <2>3, <2>4, <2>5, <2>6 DEF ToggleNotify, commVars, serverVars
<1>2. ASSUME NEW p \in Project, OpenMenu(p)
      PROVE  TypeInv'
  BY <1>2 DEF OpenMenu, ClientTypeOK, clientVars, commVars, windowVars, serverVars
<1>3. CASE ChooseVolunteer
  <2>1. \E p \in Project : SetVolunteering(User, p)
    BY <1>3, MappedElim DEF ChooseVolunteer
  <2>2. ClientTypeOK'
    BY <2>1, ClientType, DesktopConstants
  <2> QED BY <1>3, <2>2 DEF ChooseVolunteer, NoMenu, commVars, windowVars, serverVars
<1>4. CASE CloseMenu
  BY <1>4 DEF CloseMenu, NoMenu, ClientTypeOK, clientVars, commVars, windowVars, serverVars
<1>5. CASE SwitchServer \/ Exit
  BY <1>5, EmptyListType DEF SwitchServer, Exit, ClientTypeOK, clientVars, commVars,
     windowVars, serverVars
<1> QED BY <1>1, <1>2, <1>3, <1>4, <1>5 DEF UserStep

LEMMA StepType == TypeInv /\ [Next]_vars => TypeInv'
<1>1. TypeInv /\ UNCHANGED vars => TypeInv'
  BY DEF TypeInv, TypeOK, ClientTypeOK, RowsToCome, vars, clientVars, commVars, guiVars,
     windowVars, serverVars
<1> QED BY <1>1, ServerStepType, CommunicationStepType, TableStepType, WindowStepType,
        UserStepType DEF Next, GuiThread

\* Every variable of the application keeps its type: a row that is shown is a
\* project's, and what the communication thread swaps in is always a whole list.
THEOREM DesktopTypes == Spec => []TypeOK
<1>1. TypeInv => TypeOK
  BY DEF TypeInv
<1> QED BY InitType, StepType, <1>1, PTL DEF Spec

--------------------------------------------------------------------------------
\* The lists on their way from the server to the window.  What is at a later
\* stage is older: each list only ever moves on, or is dropped.

Statuses(l) == [p \in DOMAIN l |-> l[p].status]

Stages == <<lastStatus, Statuses(list), Statuses(acquired), Statuses(shown[User]),
            Statuses(slot[User]), Statuses(serverList)>>

Follows(f, g) == \A p \in DOMAIN f \cap DOMAIN g : <<p, f[p], g[p]>> \in turned

InOrder == \A i, j \in 1..6 : i <= j => Follows(Stages[i], Stages[j])

\* Nothing but the statuses of this instance is on its way.
Listed == \A i \in 1..6 : \A p \in DOMAIN Stages[i] : Stages[i][p] \in ListStatus

Pipeline == InOrder /\ Listed

\* A list that moves on stays in order with the others: k[i] is the stage whose
\* list is at stage i after the step, unless that is empty.
LEMMA MovingOn ==
  ASSUME Pipeline, NEW k \in [1..6 -> 1..6],
         \A i, j \in 1..6 : i <= j => k[i] <= k[j],
         \A i \in 1..6 : Stages'[i] = Stages[k[i]] \/ Stages'[i] = EmptyList,
         turned' = turned
  PROVE  Pipeline'
<1> HIDE DEF Stages
<1>1. DOMAIN EmptyList = {}
  BY DEF EmptyList
<1>2. ASSUME NEW i \in 1..6, NEW j \in 1..6, i <= j,
             NEW p \in DOMAIN (Stages'[i]) \cap DOMAIN (Stages'[j])
      PROVE  <<p, Stages'[i][p], Stages'[j][p]>> \in turned
  <2>1. Stages'[i] = Stages[k[i]] /\ Stages'[j] = Stages[k[j]]
    BY <1>1, <1>2
  <2>2. k[i] \in 1..6 /\ k[j] \in 1..6 /\ k[i] <= k[j]
    BY <1>2
  <2>3. Follows(Stages[k[i]], Stages[k[j]])
    BY <2>2 DEF Pipeline, InOrder
  <2> QED BY <1>2, <2>1, <2>3 DEF Follows
<1>3. InOrder'
  BY <1>2 DEF InOrder, Follows
<1>4. Listed'
  <2>1. SUFFICES ASSUME NEW i \in 1..6, NEW p \in DOMAIN (Stages'[i])
                 PROVE  Stages'[i][p] \in ListStatus
    BY DEF Listed
  <2>2. Stages'[i] = Stages[k[i]] /\ k[i] \in 1..6
    BY <1>1, <2>1
  <2> QED BY <2>1, <2>2 DEF Pipeline, Listed
<1> QED BY <1>3, <1>4 DEF Pipeline

\* The server's list changes: everything else has turned into what it says.
LEMMA TurningInto ==
  ASSUME Pipeline, serverList' \in ServerLists, turned' = Turned(serverList'),
         \A i \in 1..5 : Stages'[i] = Stages[i],
         Stages'[6] = Statuses(serverList')
  PROVE  Pipeline'
<1> DEFINE l == serverList'
<1> HIDE DEF Stages
<1>1. /\ DOMAIN (Stages'[6]) = DOMAIN l
      /\ \A p \in DOMAIN l : Stages'[6][p] = l[p].status
  BY DEF Statuses
<1>2. turned \subseteq turned'
  BY DEF Turned
<1>3. \A p \in DOMAIN l : <<p, l[p].status, l[p].status>> \in turned'
  BY DEF Turned
<1>4. ASSUME NEW p \in DOMAIN l, NEW s, <<p, s, s>> \in turned
      PROVE  <<p, s, l[p].status>> \in turned'
  <2> DEFINE t == <<p, s, s>>
  <2>1. t \in {u \in turned : u[1] \in DOMAIN l}
    BY <1>4
  <2>2. <<t[1], t[2], l[t[1]].status>> \in turned'
    BY <2>1 DEF Turned
  <2> QED BY <2>2
<1>5. ASSUME NEW i \in 1..6, NEW j \in 1..6, i <= j,
             NEW p \in DOMAIN (Stages'[i]) \cap DOMAIN (Stages'[j])
      PROVE  <<p, Stages'[i][p], Stages'[j][p]>> \in turned'
  <2>1. CASE j # 6
    <3>1. i \in 1..5 /\ j \in 1..5
      BY <1>5, <2>1
    <3>2. Stages'[i] = Stages[i] /\ Stages'[j] = Stages[j]
      BY <3>1
    <3>3. Follows(Stages[i], Stages[j])
      BY <1>5 DEF Pipeline, InOrder
    <3> QED BY <1>2, <1>5, <3>2, <3>3 DEF Follows
  <2>2. CASE i = 6 /\ j = 6
    BY <1>1, <1>3, <1>5, <2>2
  <2>3. CASE i # 6 /\ j = 6
    <3>1. i \in 1..5 /\ Stages'[i] = Stages[i]
      BY <2>3
    <3>2. Follows(Stages[i], Stages[i])
      BY DEF Pipeline, InOrder
    <3>3. <<p, Stages[i][p], Stages[i][p]>> \in turned
      BY <1>5, <3>1, <3>2 DEF Follows
    <3> QED BY <1>1, <1>4, <1>5, <2>3, <3>1, <3>3
  <2> QED BY <1>5, <2>1, <2>2, <2>3
<1>6. InOrder'
  BY <1>5 DEF InOrder, Follows
<1>7. Listed'
  <2>1. SUFFICES ASSUME NEW i \in 1..6, NEW p \in DOMAIN (Stages'[i])
                 PROVE  Stages'[i][p] \in ListStatus
    BY DEF Listed
  <2>2. CASE i = 6
    BY <1>1, <2>1, <2>2, ServerListType
  <2>3. CASE i # 6
    <3>1. Stages'[i] = Stages[i]
      BY <2>1, <2>3
    <3> QED BY <2>1, <3>1 DEF Pipeline, Listed
  <2> QED BY <2>2, <2>3
<1> QED BY <1>6, <1>7 DEF Pipeline

LEMMA NoStatuses == Statuses(EmptyList) = EmptyList
<1>1. DOMAIN EmptyList = {} /\ Statuses(EmptyList) \in [{} -> {}]
  BY DEF Statuses, EmptyList
<1>2. EmptyList \in [{} -> {}]
  BY DEF EmptyList
<1> QED BY <1>1, <1>2

\* A volunteer changes no status.
LEMMA VolunteeringKeepsStatuses ==
  ASSUME NEW l \in ProjectList, NEW p, NEW v
  PROVE  Statuses(SetVolunteer(l, p, v)) = Statuses(l)
<1>1. l \in [DOMAIN l -> Entry]
  BY ListElim
<1>2. DOMAIN SetVolunteer(l, p, v) = DOMAIN l
  BY DEF SetVolunteer
<1>3. \A q \in DOMAIN l : SetVolunteer(l, p, v)[q].status = l[q].status
  BY <1>1 DEF SetVolunteer, Entry
<1> QED BY <1>2, <1>3 DEF Statuses

\* A step that moves no list.
LEMMA StayingPut ==
  ASSUME Pipeline, UNCHANGED <<Stages, turned>>
  PROVE  Pipeline'
<1> DEFINE k == [i \in 1..6 |-> i]
<1>1. k \in [1..6 -> 1..6] /\ \A i \in 1..6 : k[i] = i
  OBVIOUS
<1>2. \A i, j \in 1..6 : i <= j => k[i] <= k[j]
  BY <1>1
<1>3. \A i \in 1..6 : Stages'[i] = Stages[k[i]]
  BY <1>1
<1> HIDE DEF k, Stages
<1> QED BY <1>1, <1>2, <1>3, MovingOn

\* A step in which the list of stage m + 1 moves to stage m, or is dropped there.
LEMMA MovingOneOn ==
  ASSUME Pipeline, NEW m \in 1..5,
         Stages'[m] \in {Stages[m], Stages[m + 1], EmptyList},
         Stages'[m + 1] = Stages[m + 1] \/ Stages'[m + 1] = EmptyList,
         \A i \in 1..6 \ {m, m + 1} : Stages'[i] = Stages[i],
         turned' = turned
  PROVE  Pipeline'
<1> DEFINE k == [i \in 1..6 |-> IF i = m /\ Stages'[m] = Stages[m + 1] THEN m + 1 ELSE i]
<1> HIDE DEF Stages
<1>1. /\ k \in [1..6 -> 1..6]
      /\ \A i \in 1..6 : i # m => k[i] = i
      /\ k[m] = IF Stages'[m] = Stages[m + 1] THEN m + 1 ELSE m
  OBVIOUS
<1>2. \A i, j \in 1..6 : i <= j => k[i] <= k[j]
  BY <1>1
<1>3. \A i \in 1..6 : Stages'[i] = Stages[k[i]] \/ Stages'[i] = EmptyList
  <2>1. Stages'[m] = Stages[k[m]] \/ Stages'[m] = EmptyList
    BY <1>1
  <2>2. \A i \in 1..6 \ {m} : Stages'[i] = Stages[i] \/ Stages'[i] = EmptyList
    OBVIOUS
  <2> QED BY <1>1, <2>1, <2>2
<1> HIDE DEF k
<1> QED BY <1>1, <1>2, <1>3, MovingOn

LEMMA InitPipeline == Init => Pipeline
<1> SUFFICES ASSUME Init PROVE Pipeline
  OBVIOUS
<1>1. User \in Client
  BY DesktopConstants
<1>2. Statuses(EmptyList) = EmptyList /\ DOMAIN EmptyList = {}
  BY NoStatuses DEF EmptyList
<1>3. \A i \in 1..5 : Stages[i] = EmptyList
  BY <1>1, <1>2 DEF Init, ClientInit, Stages
<1>4. /\ Stages[6] = Statuses(serverList) /\ serverList \in ServerLists
      /\ turned = {<<p, serverList[p].status, serverList[p].status>> :
                     p \in DOMAIN serverList}
  BY DEF Init, Stages
<1>5. /\ DOMAIN (Stages[6]) = DOMAIN serverList
      /\ \A p \in DOMAIN serverList : Stages[6][p] = serverList[p].status
  BY <1>4 DEF Statuses
<1> HIDE DEF Stages
<1>6. \A i \in 1..6 : DOMAIN (Stages[i]) # {} => i = 6
  BY <1>2, <1>3
<1>7. InOrder
  BY <1>4, <1>5, <1>6 DEF InOrder, Follows
<1>8. Listed
  BY <1>4, <1>5, <1>6, ServerListType DEF Listed
<1> QED BY <1>7, <1>8 DEF Pipeline

\* A list that arrives, is shown, fetched or swapped in moves on by one stage.
LEMMA ThreadPipeline ==
  ASSUME TypeInv, Pipeline, Arrive \/ CommunicationThread
  PROVE  Pipeline' /\ turned' = turned
<1> USE DEF Stages, windowVars, serverVars
<1>1. /\ User \in Client
      /\ slot \in [Client -> ProjectList] /\ shown \in [Client -> ProjectList]
  BY DesktopConstants DEF TypeInv, TypeOK, ClientTypeOK
<1>2. Statuses(EmptyList) = EmptyList
  BY NoStatuses
<1>3. turned' = turned
  BY DEF Arrive, CommunicationThread, StartClient, RefreshProjects, AcquireProjects,
         Swap, EmitUpdated, EndThread
<1>4. CASE Arrive
  <2>1. slot'[User] = serverList /\ shown' = shown
    BY <1>1, <1>4 DEF Arrive, FillSlot
  <2>2. /\ Stages'[5] = Stages[6] /\ Stages'[6] = Stages[6]
        /\ \A i \in 1..4 : Stages'[i] = Stages[i]
    BY <1>4, <2>1 DEF Arrive, commVars, Statuses
  <2> HIDE DEF Stages
  <2> QED BY <1>3, <2>2, MovingOneOn
<1>5. CASE RefreshProjects
  <2>1. shown'[User] \in {slot[User], shown[User]} /\ slot'[User] = EmptyList
    BY <1>1, <1>5 DEF RefreshProjects, RefreshClient, Taken
  <2>2. /\ Stages'[4] \in {Stages[4], Stages[5]} /\ Stages'[5] = EmptyList
        /\ Stages'[6] = Stages[6] /\ \A i \in 1..3 : Stages'[i] = Stages[i]
    BY <1>2, <1>5, <2>1 DEF RefreshProjects, Statuses
  <2> HIDE DEF Stages
  <2> QED BY <1>3, <2>2, MovingOneOn
<1>6. CASE EndThread
  <2>1. shown'[User] = EmptyList /\ slot'[User] = EmptyList
    BY <1>1, <1>6 DEF EndThread, RenewMonitor
  <2>2. /\ Stages'[4] = EmptyList /\ Stages'[5] = EmptyList
        /\ Stages'[6] = Stages[6] /\ \A i \in 1..3 : Stages'[i] = Stages[i]
    BY <1>2, <1>6, <2>1 DEF EndThread, Statuses
  <2> HIDE DEF Stages
  <2> QED BY <1>3, <2>2, MovingOneOn
<1>7. CASE AcquireProjects
  <2>1. /\ Stages'[3] = Stages[4] /\ Stages'[4] = Stages[4] /\ Stages'[5] = Stages[5]
        /\ Stages'[6] = Stages[6] /\ \A i \in 1..2 : Stages'[i] = Stages[i]
    BY <1>7 DEF AcquireProjects, clientVars, Statuses
  <2> HIDE DEF Stages
  <2> QED BY <1>3, <2>1, MovingOneOn
<1>8. CASE Swap
  <2>1. /\ Stages'[1] = Stages[1] /\ Stages'[2] = Stages[3] /\ Stages'[3] = EmptyList
        /\ \A i \in 4..6 : Stages'[i] = Stages[i]
    BY <1>2, <1>8 DEF Swap, clientVars, Statuses
  <2> HIDE DEF Stages
  <2> QED BY <1>3, <2>1, MovingOneOn
<1>9. CASE StartClient \/ EmitUpdated
  <2>1. UNCHANGED Stages
    BY <1>9 DEF StartClient, EmitUpdated, clientVars, Statuses
  <2> HIDE DEF Stages
  <2> QED BY <1>3, <2>1, StayingPut
<1> QED BY <1>3, <1>4, <1>5, <1>6, <1>7, <1>8, <1>9 DEF CommunicationThread

\* Notices are given when the list becomes the last one looked at.
LEMMA GuiPipeline ==
  ASSUME TypeInv, Pipeline, GuiThread \/ UserStep, ~ JoinAndRestart
  PROVE  Pipeline' /\ turned' = turned
<1> USE DEF Stages, serverVars
<1>1. turned' = turned
  BY DEF GuiThread, TakeEvent, GiveNotices, EndTable, ComputeIcon, UpdateRow, JoinAndExit,
         UserStep, ToggleNotify, OpenMenu, ChooseVolunteer, CloseMenu, SwitchServer, Exit
<1>2. CASE GiveNotices
  <2>1. lastStatus' = Statuses(list)
    BY <1>2 DEF GiveNotices, Statuses
  <2>2. Stages'[1] = Stages[2] /\ \A i \in 2..6 : Stages'[i] = Stages[i]
    BY <1>2, <2>1 DEF GiveNotices, clientVars, commVars, Statuses
  <2> HIDE DEF Stages
  <2> QED BY <1>1, <2>2, MovingOneOn
<1>3. CASE SwitchServer
  <2>1. Stages'[2] = EmptyList /\ \A i \in {1, 3, 4, 5, 6} : Stages'[i] = Stages[i]
    BY <1>3, NoStatuses DEF SwitchServer, clientVars, commVars, windowVars, Statuses
  <2> HIDE DEF Stages
  <2> QED BY <1>1, <2>1, MovingOneOn
<1>4. ASSUME NEW p \in Project, SetVolunteering(User, p),
             UNCHANGED <<list, commVars, windowVars, serverVars>>
      PROVE  UNCHANGED Stages
  <2>1. User \in Client /\ shown \in [Client -> ProjectList]
    BY DesktopConstants DEF TypeInv, TypeOK, ClientTypeOK
  <2>2. shown'[User] = SetVolunteer(shown[User], p, User) /\ slot' = slot
    BY <1>4, <2>1 DEF SetVolunteering
  <2>3. Statuses(shown'[User]) = Statuses(shown[User])
    BY <2>1, <2>2, VolunteeringKeepsStatuses
  <2>4. Statuses(shown[User])' = Statuses(shown'[User])
    BY DEF Statuses
  <2>5. UNCHANGED <<lastStatus, Statuses(list), Statuses(acquired),
                    Statuses(slot[User]), Statuses(serverList)>>
    BY <1>4, <2>2 DEF commVars, windowVars, Statuses
  <2> QED BY <2>3, <2>4, <2>5
<1>5. CASE ChooseVolunteer
  <2>1. PICK p \in Project : SetVolunteering(User, p)
    BY <1>5, MappedElim DEF ChooseVolunteer, TypeInv, TypeOK
  <2>2. UNCHANGED Stages
    BY <1>4, <1>5, <2>1 DEF ChooseVolunteer
  <2> HIDE DEF Stages
  <2> QED BY <1>1, <2>2, StayingPut
<1>6. CASE ~ (GiveNotices \/ SwitchServer \/ ChooseVolunteer)
  <2>1. UNCHANGED <<lastStatus, list, acquired, shown, slot, serverList>>
    BY <1>6 DEF GuiThread, TakeEvent, EndTable, ComputeIcon, UpdateRow, JoinAndExit,
       UserStep, ToggleNotify, OpenMenu, CloseMenu, Exit, clientVars, commVars, windowVars
  <2>2. UNCHANGED Stages
    BY <2>1 DEF Statuses
  <2> HIDE DEF Stages
  <2> QED BY <1>1, <2>2, StayingPut
<1> QED BY <1>1, <1>2, <1>3, <1>5, <1>6

LEMMA PipelineStep ==
  ASSUME TypeInv, Pipeline, [Next]_vars
  PROVE  Pipeline' /\ turned \subseteq turned'
<1>1. CASE ServerChanges \/ JoinAndRestart
  <2>1. serverList' \in ServerLists /\ turned' = Turned(serverList')
    BY <1>1 DEF ServerChanges, JoinAndRestart
  <2>2. UNCHANGED <<lastStatus, list, acquired, shown, slot>>
    BY <1>1 DEF ServerChanges, JoinAndRestart, clientVars, commVars, windowVars
  <2>3. /\ \A i \in 1..5 : Stages'[i] = Stages[i]
        /\ Stages'[6] = Statuses(serverList')
    BY <2>2 DEF Stages, Statuses
  <2> QED BY <2>1, <2>3, TurningInto DEF Turned
<1>2. CASE UNCHANGED vars
  <2>1. UNCHANGED <<Stages, turned>>
    BY <1>2 DEF vars, Stages, Statuses, clientVars, commVars, windowVars, serverVars
  <2> QED BY <2>1, StayingPut
<1> QED BY <1>1, <1>2, ThreadPipeline, GuiPipeline DEF Next

--------------------------------------------------------------------------------
\* Notices.

LEMMA NoticesStep ==
  ASSUME TypeInv, Pipeline, NoticesAreTrue, [Next]_vars
  PROVE  NoticesAreTrue'
<1>1. turned \subseteq turned'
  BY PipelineStep
<1>2. CASE notice' = notice
  BY <1>1, <1>2 DEF NoticesAreTrue
<1>3. CASE GiveNotices
  <2>1. Follows(lastStatus, Statuses(list))
    <3>1. Follows(Stages[1], Stages[2])
      BY DEF Pipeline, InOrder
    <3> QED BY <3>1 DEF Stages
  <2>2. ASSUME NEW p \in DOMAIN list, NEW last \in Last(p)
        PROVE  <<p, last, list[p].status>> \in turned
    BY <2>1, <2>2 DEF Follows, Statuses, Last
  <2>3. ASSUME NEW p \in Project
        PROVE  /\ notice'[p] = "broken" =>
                    \E s \in Failing : <<p, "Success", s>> \in turned
               /\ notice'[p] = "fixed" =>
                    \E s \in Failing : <<p, s, "Success">> \in turned
    <3>1. notice'[p] = NoticeOf(p)
      BY <1>3 DEF GiveNotices
    <3>2. CASE p \in notifyList \cap DOMAIN list
                 /\ \E last \in Last(p) : SwitchedToFailed(last, list[p].status)
      <4>1. notice'[p] = "broken"
        BY <3>1, <3>2 DEF NoticeOf, SwitchedToFailed, SwitchedToSuccess, Failing
      <4> QED BY <2>2, <3>2, <4>1 DEF SwitchedToFailed
    <3>3. CASE p \in notifyList \cap DOMAIN list
                 /\ \E last \in Last(p) : SwitchedToSuccess(last, list[p].status)
      <4>1. notice'[p] = "fixed"
        BY <3>1, <3>3 DEF NoticeOf, SwitchedToFailed, SwitchedToSuccess, Failing
      <4> QED BY <2>2, <3>3, <4>1 DEF SwitchedToSuccess
    <3>4. CASE notice'[p] = notice[p]
      BY <3>4 DEF NoticesAreTrue
    <3> QED BY <3>1, <3>2, <3>3, <3>4 DEF NoticeOf
  <2> QED BY <1>1, <2>3 DEF NoticesAreTrue
<1>4. CASE ServerChanges \/ Arrive \/ CommunicationThread \/ UNCHANGED vars
  <2>1. notice' = notice
    BY <1>4 DEF ServerChanges, Arrive, CommunicationThread, StartClient, RefreshProjects,
       AcquireProjects, Swap, EmitUpdated, EndThread, vars, windowVars
  <2> QED BY <1>2, <2>1
<1>5. CASE (GuiThread \/ UserStep) /\ ~ GiveNotices
  <2>1. notice' = notice
    BY <1>5 DEF GuiThread, TakeEvent, EndTable, ComputeIcon, UpdateRow, JoinAndExit,
       JoinAndRestart, UserStep, ToggleNotify, OpenMenu, ChooseVolunteer, CloseMenu,
       SwitchServer, Exit, windowVars
  <2> QED BY <1>2, <2>1
<1> QED BY <1>3, <1>4, <1>5 DEF Next

\* Notice is only given of what has happened: two lists the window compares come
\* from the server in the order in which it has had them, however many stages each
\* has passed and whichever were skipped, cleared or dropped on a restart.
THEOREM NoticesAreNoInventions == Spec => []NoticesAreTrue
<1>1. Init => NoticesAreTrue
  BY DEF Init, NoticesAreTrue
<1> QED BY <1>1, InitType, InitPipeline, StepType, PipelineStep, NoticesStep, PTL DEF Spec

\* What is well was listed when the window last looked, successful or failing.
WellIsListed ==
  \A p \in wasWell : p \in DOMAIN lastStatus /\ lastStatus[p] \in {"Success"} \cup Failing

BreakageInv == WellIsListed /\ BreakageIsNoticed

LEMMA BreakageStep ==
  ASSUME TypeInv, BreakageInv, [Next]_vars
  PROVE  BreakageInv'
<1>1. CASE GiveNotices
  <2>1. lastStatus' = [p \in DOMAIN list |-> list[p].status]
    BY <1>1 DEF GiveNotices
  <2>2. ASSUME NEW p \in wasWell', lastStatus'[p] \in Failing
        PROVE  notice'[p] = "broken"
    <3>1. /\ p \in notifyList \cap DOMAIN list /\ list[p].status \in Failing
          /\ p \in wasWell
      BY <1>1, <2>1, <2>2 DEF GiveNotices, Failing
    <3>2. p \in Project /\ notice'[p] = NoticeOf(p)
      BY <1>1, <2>2, <3>1 DEF GiveNotices, TypeInv, TypeOK
    <3>3. p \in DOMAIN lastStatus
      BY <3>1 DEF BreakageInv, WellIsListed
    <3>4. Last(p) = {lastStatus[p]}
      BY <3>3 DEF Last
    <3>5. CASE lastStatus[p] = "Success"
      BY <3>1, <3>2, <3>4, <3>5 DEF NoticeOf, SwitchedToFailed, SwitchedToSuccess, Failing
    <3>6. CASE lastStatus[p] \in Failing
      <4>1. notice[p] = "broken"
        BY <3>1, <3>6 DEF BreakageInv, BreakageIsNoticed
      <4> QED BY <3>1, <3>2, <3>4, <3>6, <4>1
              DEF NoticeOf, SwitchedToFailed, SwitchedToSuccess, Failing
    <3>7. lastStatus[p] \in {"Success"} \cup Failing
      BY <3>1 DEF BreakageInv, WellIsListed
    <3> QED BY <3>5, <3>6, <3>7
  <2>3. ASSUME NEW p \in wasWell'
        PROVE  p \in DOMAIN list /\ list[p].status \in {"Success"} \cup Failing
    BY <1>1, <2>3 DEF GiveNotices
  <2> QED BY <2>1, <2>2, <2>3 DEF BreakageInv, WellIsListed, BreakageIsNoticed
<1>2. CASE wasWell' \subseteq wasWell /\ UNCHANGED <<lastStatus, notice>>
  BY <1>2 DEF BreakageInv, WellIsListed, BreakageIsNoticed
<1>3. CASE ServerChanges \/ Arrive \/ CommunicationThread \/ UNCHANGED vars
  <2>1. UNCHANGED <<wasWell, lastStatus, notice>>
    BY <1>3 DEF ServerChanges, Arrive, CommunicationThread, StartClient, RefreshProjects,
       AcquireProjects, Swap, EmitUpdated, EndThread, vars, windowVars
  <2> QED BY <1>2, <2>1
<1>4. CASE (GuiThread \/ UserStep) /\ ~ GiveNotices
  <2>1. wasWell' \subseteq wasWell /\ UNCHANGED <<lastStatus, notice>>
    BY <1>4 DEF GuiThread, TakeEvent, EndTable, ComputeIcon, UpdateRow, JoinAndExit,
       JoinAndRestart, UserStep, ToggleNotify, OpenMenu, ChooseVolunteer, CloseMenu,
       SwitchServer, Exit, windowVars
  <2> QED BY <1>2, <2>1
<1> QED BY <1>1, <1>3, <1>4 DEF Next

\* Of a watched project that is shown as failing, and that every list since one in
\* which it was successful has had as successful or failing, the last notice says so,
\* whatever statuses the lists have.  What broke after a list that had it as disabled,
\* not built or unknown is left out: nobody is told of it (BuildMonitor.cpp:382-384).
THEOREM BreakagesAreNoticed == Spec => []BreakageIsNoticed
<1>1. Init => BreakageInv
  BY DEF Init, BreakageInv, WellIsListed, BreakageIsNoticed
<1>2. BreakageInv => BreakageIsNoticed
  BY DEF BreakageInv
<1> QED BY <1>1, <1>2, InitType, StepType, BreakageStep, PTL DEF Spec
================================================================================
