--------------------------- MODULE MulticastFeedProofs ---------------------------
(***************************************************************************)
(* Theorems about MulticastFeed and MulticastFeedBoard, for any projects,  *)
(* clients, hosts, buffer size and number of disruptions.                  *)
(***************************************************************************)
EXTENDS MulticastFeedBoard, MonitorProofs

--------------------------------------------------------------------------------
\* Type correctness, step by step.

CastWireTypeOK == /\ serverUp \in BOOLEAN
                  /\ serverInbox \in Seq(Request)
                  /\ Len(serverInbox) <= Buffer
                  /\ inbox \in [Client -> Seq(Cast)]
                  /\ \A c \in Client : Len(inbox[c]) <= Buffer
                  /\ disruptions \in 0..MaxDisruptions

CastClientTypeOK == /\ hasReceivedProjects \in [Client -> BOOLEAN]
                    /\ fromAddress \in [Client -> Host \cup {NoHost}]

Parts == /\ JenkinsTypeOK /\ CastWireTypeOK /\ MonitorTypeOK
         /\ MulticastServerTypeOK /\ ClientTypeOK /\ CastClientTypeOK

LEMMA TypeParts == (TypeOK <=> Parts) /\ (TypeOK' <=> Parts')
BY DEF TypeOK, Parts, CastWireTypeOK, CastClientTypeOK

LEMMA InitType == Init => TypeOK
<1> SUFFICES ASSUME Init PROVE TypeOK
  OBVIOUS
<1>1. CastWireTypeOK
  <2>1. <<>> \in Seq(Request) /\ <<>> \in Seq(Cast) /\ Len(<<>>) <= Buffer
    BY WireBounds, EmptySeq
  <2>2. 0 \in 0..MaxDisruptions
    BY WireBounds
  <2> QED
    BY <2>1, <2>2 DEF Init, WireInit, CastWireTypeOK
<1>2. MulticastServerTypeOK
  BY HomeIsHost DEF Init, MulticastServerInit, MulticastServerTypeOK
<1>3. CastClientTypeOK
  BY DEF Init, MulticastClientInit, CastClientTypeOK
<1> QED
  BY <1>1, <1>2, <1>3, TypeParts, JenkinsInitType, MonitorInitType, ClientInitType DEF Parts, Init

\* Parts of the state that a step leaves alone keep their types.
LEMMA JenkinsFrame == JenkinsTypeOK /\ UNCHANGED jenkinsVars => JenkinsTypeOK'
BY DEF JenkinsTypeOK, jenkinsVars

LEMMA WireFrame == CastWireTypeOK /\ UNCHANGED wireVars => CastWireTypeOK'
BY DEF CastWireTypeOK, wireVars

LEMMA MonitorFrame == MonitorTypeOK /\ UNCHANGED monitorVars => MonitorTypeOK'
BY DEF MonitorTypeOK, monitorVars

LEMMA ServerFrame ==
  MulticastServerTypeOK /\ UNCHANGED multicastServerVars => MulticastServerTypeOK'
BY DEF MulticastServerTypeOK, multicastServerVars

LEMMA ClientFrame == ClientTypeOK /\ UNCHANGED clientVars => ClientTypeOK'
BY DEF ClientTypeOK, clientVars

LEMMA ThreadFrame == CastClientTypeOK /\ UNCHANGED multicastClientVars => CastClientTypeOK'
BY DEF CastClientTypeOK, multicastClientVars

LEMMA JenkinsStepType == TypeOK /\ JenkinsStep => TypeOK'
BY JenkinsType, TypeParts, WireFrame, MonitorFrame, ServerFrame, ClientFrame, ThreadFrame
   DEF Parts, JenkinsStep, serverVars, allClientVars

LEMMA RefreshStepType == TypeOK /\ RefreshStep => TypeOK'
BY RefreshType, TypeParts, JenkinsFrame, WireFrame, ServerFrame, ClientFrame, ThreadFrame
   DEF Parts, RefreshStep, allClientVars

LEMMA FailStepType == TypeOK /\ FailStep => TypeOK'
<1> SUFFICES ASSUME TypeOK, FailStep PROVE TypeOK'
  OBVIOUS
<1>1. MonitorTypeOK'
  BY RefreshType, TypeParts DEF Parts, FailStep
<1>2. disruptions' \in 0..MaxDisruptions
  BY DisruptType, TypeParts DEF Parts, FailStep, RefreshFault, FailRefresh,
                                MisreadProject, CastWireTypeOK
<1>3. CastWireTypeOK'
  BY <1>2, TypeParts DEF Parts, FailStep, CastWireTypeOK
<1> QED
  BY <1>1, <1>3, TypeParts, JenkinsFrame, ServerFrame, ClientFrame, ThreadFrame
     DEF Parts, FailStep, allClientVars

--------------------------------------------------------------------------------
\* What is sent to some of the clients.

LEMMA SendToType ==
  ASSUME NEW S, NEW group, NEW ms \in Seq(S), SendTo(group, ms),
         inbox \in [Client -> Seq(S)]
  PROVE  inbox' \in [Client -> Seq(S)]
<1>1. \A c \in Client : Deliver(inbox[c], ms) \in Seq(S)
  BY DeliverType
<1> QED
  BY <1>1 DEF SendTo

LEMMA SendToBounds ==
  ASSUME CastWireTypeOK, NEW group, NEW ms \in Seq(Cast), SendTo(group, ms)
  PROVE  /\ inbox' \in [Client -> Seq(Cast)]
         /\ \A c \in Client : Len(inbox'[c]) <= Buffer
         /\ disruptions' \in 0..MaxDisruptions
<1>1. inbox' \in [Client -> Seq(Cast)]
  BY SendToType DEF CastWireTypeOK
<1>2. ASSUME NEW c \in Client PROVE Len(inbox'[c]) <= Buffer
  <2>1. inbox[c] \in Seq(Cast) /\ Len(inbox[c]) <= Buffer
    BY DEF CastWireTypeOK
  <2>2. Len(Deliver(inbox[c], ms)) <= Buffer
    BY <2>1, DeliverType
  <2>3. inbox'[c] = IF c \in group THEN Deliver(inbox[c], ms) ELSE inbox[c]
    BY DEF SendTo
  <2> QED
    BY <2>1, <2>2, <2>3
<1>3. disruptions' \in 0..MaxDisruptions
  <2>1. UNCHANGED disruptions \/ Disrupt
    BY DEF SendTo
  <2> QED
    BY <2>1, DisruptType DEF CastWireTypeOK
<1> QED
  BY <1>1, <1>2, <1>3

LEMMA ProjectUpdatesType ==
  ASSUME NEW l \in ProjectList
  PROVE  ProjectUpdates(l) \in Seq(Cast)
<1>1. ProjectUpdate(l) \in Cast
  BY DEF ProjectUpdate, Cast
<1> QED
  BY <1>1, EmptySeq DEF ProjectUpdates

LEMMA BeaconType ==
  ASSUME NEW h \in Host
  PROVE  <<Beacon(h)>> \in Seq(Cast)
<1>1. Beacon(h) \in Cast
  BY DEF Beacon, Cast
<1> QED
  BY <1>1

LEMMA ServerHeadType ==
  ASSUME CastWireTypeOK, serverInbox # <<>>
  PROVE  /\ Head(serverInbox) \in Request
         /\ Tail(serverInbox) \in Seq(Request)
         /\ Len(Tail(serverInbox)) <= Buffer
BY TailType DEF CastWireTypeOK

LEMMA ServerStepType == TypeOK /\ ServerStep => TypeOK'
<1> SUFFICES ASSUME TypeOK, ServerStep PROVE TypeOK'
  OBVIOUS
<1>0. /\ JenkinsTypeOK /\ CastWireTypeOK /\ MonitorTypeOK
      /\ MulticastServerTypeOK /\ ClientTypeOK /\ CastClientTypeOK
  BY TypeParts DEF Parts
<1>1. JenkinsTypeOK' /\ ClientTypeOK' /\ CastClientTypeOK'
  BY <1>0, JenkinsFrame, ClientFrame, ThreadFrame DEF ServerStep, allClientVars
<1> SUFFICES CastWireTypeOK' /\ MonitorTypeOK' /\ MulticastServerTypeOK'
  BY <1>1, TypeParts DEF Parts
<1>2. CASE StartCasting
  BY <1>0, <1>2 DEF StartCasting, CastWireTypeOK, MonitorTypeOK, MulticastServerTypeOK,
                    crawlVars, multicastServerVars
<1>3. CASE ReadFlag
  <2>1. CastWireTypeOK' /\ MonitorTypeOK'
    BY <1>0, <1>3, WireFrame, MonitorFrame DEF ReadFlag
  <2> QED
    BY <1>0, <1>3, <2>1 DEF ReadFlag, MonitorTypeOK, MulticastServerTypeOK
<1>4. CASE AnswerWithList
  <2>1. ProjectUpdates(projects) \in Seq(Cast)
    BY <1>0, ProjectUpdatesType DEF MonitorTypeOK
  <2>2. CastWireTypeOK'
    BY <1>0, <1>4, <2>1, SendToBounds, ServerHeadType DEF AnswerWithList, CastWireTypeOK
  <2> QED
    BY <1>0, <1>4, <2>2, MonitorFrame, ServerFrame DEF AnswerWithList
<1>5. CASE AcceptAndFlag
  <2> DEFINE m == Head(serverInbox)
  <2>1. /\ m \in Request /\ m.type = "VolunteerAdded"
        /\ serverInbox' = Tail(serverInbox)
        /\ serverInbox' \in Seq(Request) /\ Len(serverInbox') <= Buffer
    BY <1>0, <1>5, ServerHeadType DEF AcceptAndFlag
  <2>2. m.from \in Volunteers
    BY <2>1 DEF Request, Volunteers
  <2>3. projects' = SetVolunteer(projects, m.project, m.from)
    BY <1>5 DEF AcceptAndFlag, RecordVolunteer
  <2>4. projects' \in ProjectList
    BY <1>0, <2>2, <2>3, SetVolunteerType DEF MonitorTypeOK
  <2>5. localRefresh' = (m.project \in DOMAIN projects)
    BY <1>5 DEF AcceptAndFlag, VolunteerIsKnown
  <2>6. localRefresh' \in BOOLEAN
    BY <2>5
  <2>7. CastWireTypeOK'
    BY <1>0, <1>5, <2>1 DEF AcceptAndFlag, CastWireTypeOK
  <2>8. MonitorTypeOK'
    BY <1>0, <1>5, <2>4 DEF AcceptAndFlag, MonitorTypeOK, crawlVars
  <2>9. MulticastServerTypeOK'
    BY <1>0, <1>5, <2>6 DEF AcceptAndFlag, MulticastServerTypeOK
  <2> QED
    BY <2>7, <2>8, <2>9
<1>6. CASE EndDraining
  <2>1. CastWireTypeOK' /\ MonitorTypeOK'
    BY <1>0, <1>6, WireFrame, MonitorFrame DEF EndDraining
  <2> QED
    BY <1>0, <1>6, <2>1 DEF EndDraining, MulticastServerTypeOK
<1>7. CASE SendProjects
  <2>1. ProjectUpdates(projects) \in Seq(Cast)
    BY <1>0, ProjectUpdatesType DEF MonitorTypeOK
  <2>2. CastWireTypeOK'
    BY <1>0, <1>7, <2>1, SendToBounds DEF SendProjects, CastWireTypeOK
  <2> QED
    BY <1>0, <1>7, <2>2, MonitorFrame DEF SendProjects, MulticastServerTypeOK
<1>8. CASE ClearFlag
  <2>1. CastWireTypeOK'
    BY <1>0, <1>8, WireFrame DEF ClearFlag
  <2> QED
    BY <1>0, <1>8, <2>1 DEF ClearFlag, MonitorTypeOK, MulticastServerTypeOK, crawlVars
<1>9. CASE SendBeacon
  <2>1. <<Beacon(host)>> \in Seq(Cast)
    BY <1>0, BeaconType DEF MulticastServerTypeOK
  <2>2. CastWireTypeOK'
    BY <1>0, <1>9, <2>1, SendToBounds DEF SendBeacon, CastWireTypeOK
  <2> QED
    BY <1>0, <1>9, <2>2, MonitorFrame DEF SendBeacon, MulticastServerTypeOK
<1>10. CASE SkipBeacon
  <2>1. CastWireTypeOK' /\ MonitorTypeOK'
    BY <1>0, <1>10, WireFrame, MonitorFrame DEF SkipBeacon
  <2> QED
    BY <1>0, <1>10, <2>1 DEF SkipBeacon, MulticastServerTypeOK
<1> QED
  BY <1>2, <1>3, <1>4, <1>5, <1>6, <1>7, <1>8, <1>9, <1>10
     DEF ServerStep, MulticastServerThread

LEMMA RestartStepType == TypeOK /\ RestartStep => TypeOK'
<1> SUFFICES ASSUME TypeOK, RestartStep PROVE TypeOK'
  OBVIOUS
<1>1. disruptions' \in 0..MaxDisruptions
  BY DisruptType, TypeParts DEF Parts, RestartStep, RestartCasting, CastWireTypeOK
<1>2. <<>> \in Seq(Request) /\ Len(<<>>) <= Buffer
  BY EmptySeq, WireBounds
<1>3. CastWireTypeOK'
  BY <1>1, <1>2, TypeParts DEF Parts, RestartStep, RestartCasting, CastWireTypeOK
<1>4. MonitorTypeOK' /\ MulticastServerTypeOK'
  BY RestartType DEF RestartStep, RestartCasting, MulticastServerTypeOK
<1> QED
  BY <1>3, <1>4, TypeParts, JenkinsFrame, ClientFrame, ThreadFrame
     DEF Parts, RestartStep, allClientVars

LEMMA NetworkStepType == TypeOK /\ NetworkStep => TypeOK'
<1> SUFFICES ASSUME TypeOK, NetworkStep PROVE TypeOK'
  OBVIOUS
<1>0. CastWireTypeOK
  BY TypeParts DEF Parts
<1> SUFFICES CastWireTypeOK'
  BY TypeParts, JenkinsFrame, MonitorFrame, ServerFrame, ClientFrame, ThreadFrame
     DEF Parts, NetworkStep, serverVars, allClientVars
<1>1. CASE DisruptServerInbox
  <2>1. serverInbox' \in Seq(Request) /\ Len(serverInbox') <= Buffer
    BY <1>0, <1>1, DisruptedType DEF DisruptServerInbox, CastWireTypeOK
  <2>2. disruptions' \in 0..MaxDisruptions
    BY <1>0, <1>1, DisruptType DEF DisruptServerInbox, CastWireTypeOK
  <2> QED
    BY <1>0, <1>1, <2>1, <2>2 DEF DisruptServerInbox, CastWireTypeOK
<1>2. ASSUME NEW c \in Client, DisruptInbox(c) PROVE CastWireTypeOK'
  <2>1. PICK q \in Disrupted(inbox[c]) : Len(q) <= Buffer /\ inbox' = [inbox EXCEPT ![c] = q]
    BY <1>2 DEF DisruptInbox
  <2>2. inbox[c] \in Seq(Cast) /\ inbox[c] # <<>>
    BY <1>0, <1>2 DEF DisruptInbox, CastWireTypeOK
  <2>3. q \in Seq(Cast)
    BY <2>1, <2>2, DisruptedType
  <2>4. disruptions' \in 0..MaxDisruptions
    BY <1>0, <1>2, DisruptType DEF DisruptInbox, CastWireTypeOK
  <2>5. inbox' \in [Client -> Seq(Cast)] /\ \A d \in Client : Len(inbox'[d]) <= Buffer
    BY <1>0, <2>1, <2>3 DEF CastWireTypeOK
  <2> QED
    BY <1>0, <1>2, <2>4, <2>5 DEF DisruptInbox, CastWireTypeOK
<1> QED
  BY <1>1, <1>2 DEF NetworkStep

--------------------------------------------------------------------------------
\* What a client puts into the server's queue, if it knows where that is.
LEMMA ToAddressType ==
  ASSUME CastWireTypeOK, NEW a, NEW h, NEW ms \in Seq(Request), ToAddress(a, h, ms)
  PROVE  serverInbox' \in Seq(Request) /\ Len(serverInbox') <= Buffer
BY DeliverType DEF CastWireTypeOK, ToAddress, ToServer

\* Receiving takes the first datagram.
LEMMA ReceiveType ==
  ASSUME CastWireTypeOK, NEW c \in Client, inbox[c] # <<>>,
         inbox' = [inbox EXCEPT ![c] = Tail(@)]
  PROVE  /\ Head(inbox[c]) \in Cast
         /\ inbox' \in [Client -> Seq(Cast)]
         /\ \A d \in Client : Len(inbox'[d]) <= Buffer
<1>1. /\ Head(inbox[c]) \in Cast
      /\ Tail(inbox[c]) \in Seq(Cast)
      /\ Len(Tail(inbox[c])) <= Buffer
  BY TailType DEF CastWireTypeOK
<1> QED
  BY <1>1 DEF CastWireTypeOK

LEMMA ThreadStepType ==
  ASSUME NEW c \in Client
  PROVE  TypeOK /\ ThreadStep(c) => TypeOK'
<1> SUFFICES ASSUME TypeOK, ThreadStep(c) PROVE TypeOK'
  OBVIOUS
<1>0. CastWireTypeOK /\ ClientTypeOK /\ CastClientTypeOK
  BY TypeParts DEF Parts
<1> SUFFICES CastWireTypeOK' /\ ClientTypeOK' /\ CastClientTypeOK'
  BY TypeParts, JenkinsFrame, MonitorFrame, ServerFrame DEF Parts, ThreadStep, serverVars
<1>1. CASE ReceiveUpdate(c)
  <2> DEFINE m == Head(inbox[c])
  <2>1. /\ m \in Cast /\ m.type = "ProjectUpdate"
        /\ inbox' \in [Client -> Seq(Cast)]
        /\ \A d \in Client : Len(inbox'[d]) <= Buffer
    BY <1>0, <1>1, ReceiveType DEF ReceiveUpdate
  <2>2. m.projects \in ProjectList
    BY <2>1 DEF Cast
  <2>3. ClientTypeOK'
    BY <1>0, <1>1, <2>2, ClientType DEF ReceiveUpdate
  <2>4. CastWireTypeOK'
    BY <1>0, <1>1, <2>1 DEF ReceiveUpdate, CastWireTypeOK
  <2>5. CastClientTypeOK'
    BY <1>0, <1>1 DEF ReceiveUpdate, CastClientTypeOK
  <2> QED
    BY <2>3, <2>4, <2>5
<1>2. CASE ReceiveBeacon(c, host)
  <2> DEFINE m == Head(inbox[c])
  <2>1. /\ m \in Cast /\ m.type = "Beacon"
        /\ inbox' \in [Client -> Seq(Cast)]
        /\ \A d \in Client : Len(inbox'[d]) <= Buffer
    BY <1>0, <1>2, ReceiveType DEF ReceiveBeacon
  <2>2. m.host \in Host
    BY <2>1 DEF Cast
  <2>3. <<ProjectUpdateRequest(c, ZeroHash)>> \in Seq(Request)
    BY RequestType
  <2>4. serverInbox' \in Seq(Request) /\ Len(serverInbox') <= Buffer
    <3>1. CASE hasReceivedProjects[c]
      BY <1>0, <1>2, <3>1 DEF ReceiveBeacon, HeedBeacon, CastWireTypeOK
    <3>2. CASE ~hasReceivedProjects[c]
      <4>1. ToAddress(m.host, host, <<ProjectUpdateRequest(c, ZeroHash)>>)
        BY <1>2, <3>2 DEF ReceiveBeacon, HeedBeacon
      <4> QED
        BY <1>0, <2>3, <4>1, ToAddressType
    <3> QED
      BY <3>1, <3>2
  <2>5. CastClientTypeOK'
    BY <1>0, <1>2, <2>2 DEF ReceiveBeacon, HeedBeacon, CastClientTypeOK
  <2>6. CastWireTypeOK'
    BY <1>0, <1>2, <2>1, <2>4 DEF ReceiveBeacon, CastWireTypeOK
  <2> QED
    BY <1>0, <1>2, <2>5, <2>6, ClientFrame DEF ReceiveBeacon
<1>3. CASE FlushVolunteers(c, host)
  <2>1. [i \in DOMAIN outbox[c] |-> VolunteerAdded(c, outbox[c][i])] \in Seq(Request)
    BY <1>0, VolunteerMessages DEF ClientTypeOK
  <2>2. serverInbox' \in Seq(Request) /\ Len(serverInbox') <= Buffer
    BY <1>0, <1>3, <2>1, ToAddressType DEF FlushVolunteers
  <2>3. CastWireTypeOK'
    BY <1>0, <1>3, <2>2 DEF FlushVolunteers, CastWireTypeOK
  <2>4. ClientTypeOK'
    BY <1>0, <1>3, EmptySeq DEF FlushVolunteers, ClientTypeOK
  <2> QED
    BY <1>0, <1>3, <2>3, <2>4, ThreadFrame DEF FlushVolunteers
<1> QED
  BY <1>1, <1>2, <1>3 DEF ThreadStep, MulticastClientThread

LEMMA UserStepType ==
  ASSUME NEW c \in Client
  PROVE  TypeOK /\ (RefreshClientStep(c) \/ VolunteerStep(c)) => TypeOK'
<1> SUFFICES ASSUME TypeOK, RefreshClientStep(c) \/ VolunteerStep(c) PROVE TypeOK'
  OBVIOUS
<1>1. ClientTypeOK'
  BY ClientType, TypeParts DEF Parts, RefreshClientStep, VolunteerStep
<1> QED
  BY <1>1, TypeParts, JenkinsFrame, WireFrame, MonitorFrame, ServerFrame, ThreadFrame
     DEF Parts, RefreshClientStep, VolunteerStep, serverVars

LEMMA RejoinStepType ==
  ASSUME NEW c \in Client
  PROVE  TypeOK /\ RejoinStep(c) => TypeOK'
<1> SUFFICES ASSUME TypeOK, RejoinStep(c) PROVE TypeOK'
  OBVIOUS
<1>1. disruptions' \in 0..MaxDisruptions
  BY DisruptType, TypeParts DEF Parts, RejoinStep, Rejoin, CastWireTypeOK
<1>2. <<>> \in Seq(Cast) /\ Len(<<>>) <= Buffer
  BY EmptySeq, WireBounds
<1>3. CastWireTypeOK'
  BY <1>1, <1>2, TypeParts DEF Parts, RejoinStep, Rejoin, CastWireTypeOK
<1>4. CastClientTypeOK'
  BY TypeParts DEF Parts, RejoinStep, Rejoin, CastClientTypeOK
<1>5. ClientTypeOK'
  BY ClientType, TypeParts DEF Parts, RejoinStep, Rejoin
<1> QED
  BY <1>3, <1>4, <1>5, TypeParts, JenkinsFrame, MonitorFrame, ServerFrame
     DEF Parts, RejoinStep, serverVars

LEMMA StutterType == TypeOK /\ UNCHANGED vars => TypeOK'
BY TypeParts, JenkinsFrame, WireFrame, MonitorFrame, ServerFrame, ClientFrame, ThreadFrame
   DEF Parts, vars, serverVars, allClientVars

LEMMA StepType == TypeOK /\ [Next]_vars => TypeOK'
BY JenkinsStepType, RefreshStepType, FailStepType, ServerStepType, RestartStepType,
   NetworkStepType, ThreadStepType, UserStepType, RejoinStepType, StutterType DEF Next

\* Whatever the threads, the network and the people who start and end the
\* processes do, every variable keeps its type and no socket holds more than
\* its buffer.
THEOREM CastTypes == Spec => []TypeOK
BY InitType, StepType, PTL DEF Spec

--------------------------------------------------------------------------------
\* Volunteers.

LEMMA KeptStep ==
  ASSUME TypeOK, [Next]_vars
  PROVE  KeepsVolunteers
<1> SUFFICES KeepingStep
  BY KeptByMonitor, TypeParts DEF Parts
<1>1. CASE RefreshStep \/ FailStep \/ RestartStep
  BY <1>1 DEF RefreshStep, FailStep, RestartStep, RestartCasting, KeepingStep
<1>2. CASE ServerStep
  <2>1. CASE AcceptAndFlag
    <3> DEFINE m == Head(serverInbox)
    <3>1. m \in Request /\ m.type = "VolunteerAdded"
      BY <2>1, ServerHeadType, TypeParts DEF AcceptAndFlag, Parts
    <3>2. m.from \in Client /\ RecordVolunteer(m.project, m.from)
      BY <2>1, <3>1 DEF AcceptAndFlag, Request
    <3> QED
      BY <3>2 DEF KeepingStep
  <2>2. CASE StartCasting \/ ReadFlag \/ AnswerWithList \/ EndDraining
             \/ SendProjects \/ ClearFlag \/ SendBeacon \/ SkipBeacon
    BY <2>2 DEF StartCasting, ReadFlag, AnswerWithList, EndDraining, SendProjects,
                ClearFlag, SendBeacon, SkipBeacon, monitorVars, KeepingStep
  <2> QED
    BY <1>2, <2>1, <2>2 DEF ServerStep, MulticastServerThread
<1>3. CASE JenkinsStep \/ NetworkStep \/ UNCHANGED vars
  BY <1>3 DEF JenkinsStep, NetworkStep, vars, serverVars, monitorVars, KeepingStep
<1>4. ASSUME NEW c \in Client,
             ThreadStep(c) \/ RefreshClientStep(c) \/ VolunteerStep(c) \/ RejoinStep(c)
      PROVE  KeepingStep
  BY <1>4 DEF ThreadStep, RefreshClientStep, VolunteerStep, RejoinStep,
              serverVars, monitorVars, KeepingStep
<1> QED
  BY <1>1, <1>2, <1>3, <1>4 DEF Next

\* The multicast server loses a volunteer to nothing but a crawl either
\* (monitor.rs:101-147, monitor_server.rs:91-110).
THEOREM NoVolunteerIsDropped == Spec => VolunteersKept
<1>1. TypeOK /\ [Next]_vars => [KeepsVolunteers]_vars
  BY KeptStep
<1> QED
  BY <1>1, CastTypes, PTL DEF Spec, VolunteersKept

--------------------------------------------------------------------------------
\* The order of builds: as in query mode, only that the lists are sent unasked and
\* have beacons between them.

LEMMA OrderSource ==
  ASSUME TypeOK, SourceInOrder, [Next]_vars
  PROVE  /\ SourceInOrder'
         /\ \A l \in ProjectList : Behind(l) => Behind(l)'
<1> DEFINE Goal == SourceInOrder' /\ \A l \in ProjectList : Behind(l) => Behind(l)'
<1>0. JenkinsTypeOK /\ MonitorTypeOK
  BY TypeParts DEF Parts
<1>1. ASSUME UNCHANGED <<jenkinsVars, projects, crawled>> PROVE Goal
  BY <1>0, <1>1, OrderFrame
<1>2. CASE JenkinsStep
  BY <1>0, <1>2, OrderJenkins DEF JenkinsStep, serverVars, monitorVars
<1>3. CASE RefreshStep \/ FailStep \/ RestartStep
  BY <1>0, <1>3, OrderRefresh DEF RefreshStep, FailStep, RestartStep, RestartCasting
<1>4. CASE ServerStep
  <2>1. CASE AcceptAndFlag
    BY <1>0, <1>4, <2>1, OrderRecorded DEF ServerStep, AcceptAndFlag, crawlVars
  <2>2. CASE StartCasting \/ ReadFlag \/ AnswerWithList \/ EndDraining
             \/ SendProjects \/ ClearFlag \/ SendBeacon \/ SkipBeacon
    BY <1>1, <1>4, <2>2 DEF ServerStep, StartCasting, ReadFlag, AnswerWithList,
       EndDraining, SendProjects, ClearFlag, SendBeacon, SkipBeacon, monitorVars, crawlVars
  <2> QED
    BY <1>4, <2>1, <2>2 DEF ServerStep, MulticastServerThread
<1>5. CASE NetworkStep \/ UNCHANGED vars
  BY <1>1, <1>5 DEF NetworkStep, vars, serverVars, monitorVars
<1>6. ASSUME NEW d \in Client,
             ThreadStep(d) \/ RefreshClientStep(d) \/ VolunteerStep(d) \/ RejoinStep(d)
      PROVE  Goal
  BY <1>1, <1>6 DEF ThreadStep, RefreshClientStep, VolunteerStep, RejoinStep,
                    serverVars, monitorVars
<1> QED
  BY <1>2, <1>3, <1>4, <1>5, <1>6 DEF Next

LEMMA ListInType ==
  ASSUME NEW m \in Cast
  PROVE  ListIn(m) \in ProjectList
BY EmptyListType DEF Cast, ListIn

\* The row of c after a broadcast, an answer or a beacon.
LEMMA RowSent ==
  ASSUME TypeOK, OrderInv, NEW group, NEW ms \in Seq(Cast), SendTo(group, ms),
         Len(ms) <= 1, \A i \in DOMAIN ms : ListIn(ms[i]) \in {projects, EmptyList},
         NEW c \in Client
  PROVE  Row(shown[c], slot[c], inbox'[c])
<1>1. inbox \in [Client -> Seq(Cast)] /\ Row(shown[c], slot[c], inbox[c])
  BY TypeParts DEF Parts, CastWireTypeOK, OrderInv
<1>2. Behind(projects)
  BY ProjectsBehind, TypeParts DEF OrderInv, Parts
<1>3. inbox'[c] \in {inbox[c], Deliver(inbox[c], ms)}
  BY DEF SendTo
<1>4. Row(shown[c], slot[c], Deliver(inbox[c], ms))
  BY <1>1, <1>2, RowDelivered
<1> QED
  BY <1>1, <1>3, <1>4

LEMMA RowStep ==
  ASSUME TypeOK, OrderInv, ~Reordering, [Next]_vars, NEW c \in Client
  PROVE  Row(shown'[c], slot'[c], inbox'[c])
<1> DEFINE Goal == Row(shown'[c], slot'[c], inbox'[c])
<1>0. ClientTypeOK /\ MonitorTypeOK /\ host \in Host
  BY TypeParts DEF Parts, MulticastServerTypeOK
<1>1. /\ Row(shown[c], slot[c], inbox[c])
      /\ shown \in [Client -> ProjectList] /\ slot \in [Client -> ProjectList]
      /\ inbox \in [Client -> Seq(Cast)]
  BY TypeParts DEF OrderInv, Parts, CastWireTypeOK, ClientTypeOK
<1>2. ASSUME shown'[c] = shown[c], slot'[c] = slot[c], inbox'[c] = inbox[c] PROVE Goal
  BY <1>1, <1>2
<1>3. CASE JenkinsStep \/ RefreshStep \/ FailStep \/ RestartStep \/ UNCHANGED vars
  BY <1>2, <1>3 DEF JenkinsStep, RefreshStep, FailStep, RestartStep, RestartCasting,
     vars, wireVars, allClientVars, clientVars
<1>4. CASE ServerStep
  <2>0. UNCHANGED <<shown, slot>>
    BY <1>4 DEF ServerStep, allClientVars, clientVars
  <2>1. CASE AnswerWithList \/ SendProjects
    <3> DEFINE ms == ProjectUpdates(projects)
    <3>1. \E group : SendTo(group, ms)
      BY <2>1 DEF AnswerWithList, SendProjects
    <3>2. ms \in Seq(Cast)
      BY <1>0, ProjectUpdatesType DEF MonitorTypeOK
    <3>3. Len(ms) <= 1 /\ \A i \in DOMAIN ms : ListIn(ms[i]) \in {projects, EmptyList}
      BY DEF ProjectUpdates, ProjectUpdate, ListIn
    <3> HIDE DEF ms
    <3> QED
      BY <2>0, <3>1, <3>2, <3>3, RowSent
  <2>2. CASE SendBeacon
    <3> DEFINE ms == <<Beacon(host)>>
    <3>1. SendTo(Client, ms)
      BY <2>2 DEF SendBeacon
    <3>2. ms \in Seq(Cast)
      BY <1>0, BeaconType
    <3>3. Len(ms) <= 1 /\ \A i \in DOMAIN ms : ListIn(ms[i]) \in {projects, EmptyList}
      BY DEF Beacon, ListIn
    <3> HIDE DEF ms
    <3> QED
      BY <2>0, <3>1, <3>2, <3>3, RowSent
  <2>3. CASE StartCasting \/ ReadFlag \/ AcceptAndFlag \/ EndDraining
             \/ ClearFlag \/ SkipBeacon
    BY <1>2, <2>0, <2>3 DEF StartCasting, ReadFlag, AcceptAndFlag, EndDraining,
       ClearFlag, SkipBeacon, wireVars
  <2> QED
    BY <1>4, <2>1, <2>2, <2>3 DEF ServerStep, MulticastServerThread
<1>5. CASE NetworkStep
  <2>0. UNCHANGED <<shown, slot>>
    BY <1>5 DEF NetworkStep, allClientVars, clientVars
  <2>1. CASE DisruptServerInbox
    BY <1>2, <2>0, <2>1 DEF DisruptServerInbox
  <2>2. ASSUME NEW d \in Client, DisruptInbox(d) PROVE Goal
    <3>1. inbox[d] # <<>> /\ inbox' = [inbox EXCEPT ![d] = Tail(inbox[d])]
      BY <2>2 DEF DisruptInbox, Disrupted
    <3>2. CASE d # c
      BY <1>1, <1>2, <2>0, <3>1, <3>2
    <3>3. CASE d = c
      <4>1. inbox'[c] = Tail(inbox[c])
        BY <1>1, <3>1, <3>3
      <4>2. Row(shown[c], slot[c], Tail(inbox[c]))
        BY <1>1, <3>1, <3>3, RowReceived
      <4> QED
        BY <2>0, <4>1, <4>2
    <3> QED
      BY <3>2, <3>3
  <2> QED
    BY <1>5, <2>1, <2>2 DEF NetworkStep
<1>6. ASSUME NEW d \in Client, ThreadStep(d) PROVE Goal
  <2>1. CASE ReceiveUpdate(d) \/ ReceiveBeacon(d, host)
    <3>1. /\ inbox[d] # <<>> /\ UNCHANGED shown
          /\ inbox' = [inbox EXCEPT ![d] = Tail(inbox[d])]
          /\ \/ slot' = [slot EXCEPT ![d] = ListIn(Head(inbox[d]))]
             \/ slot' = slot
      BY <2>1 DEF ReceiveUpdate, ReceiveBeacon, FillSlot, ListIn, clientVars
    <3>2. CASE d # c
      BY <1>1, <1>2, <3>1, <3>2
    <3>3. CASE d = c
      <4>1. inbox'[c] = Tail(inbox[c]) /\ slot'[c] \in {slot[c], ListIn(Head(inbox[c]))}
        BY <1>1, <3>1, <3>3
      <4>2. /\ Row(shown[c], slot[c], Tail(inbox[c]))
            /\ Row(shown[c], ListIn(Head(inbox[c])), Tail(inbox[c]))
        BY <1>1, <3>1, <3>3, RowReceived
      <4> QED
        BY <3>1, <4>1, <4>2
    <3> QED
      BY <3>2, <3>3
  <2>2. CASE FlushVolunteers(d, host)
    BY <1>2, <2>2 DEF FlushVolunteers
  <2> QED
    BY <1>6, <2>1, <2>2 DEF ThreadStep, MulticastClientThread
<1>7. ASSUME NEW d \in Client, RefreshClientStep(d) \/ VolunteerStep(d) PROVE Goal
  <2>1. UserOf(d) /\ UNCHANGED inbox
    BY <1>7 DEF RefreshClientStep, VolunteerStep, UserOf, wireVars
  <2> QED
    BY <1>0, <1>1, <2>1, RowOfUser
<1>8. ASSUME NEW d \in Client, RejoinStep(d) PROVE Goal
  <2>1. /\ inbox' = [inbox EXCEPT ![d] = <<>>]
        /\ shown' = [shown EXCEPT ![d] = EmptyList]
        /\ slot' = [slot EXCEPT ![d] = EmptyList]
    BY <1>8 DEF RejoinStep, Rejoin, RenewMonitor
  <2>2. CASE d # c
    BY <1>1, <1>2, <2>1, <2>2
  <2>3. CASE d = c
    BY <1>1, <2>1, <2>3, RowEmpty
  <2> QED
    BY <2>2, <2>3
<1> QED
  BY <1>3, <1>4, <1>5, <1>6, <1>7, <1>8 DEF Next

LEMMA OrderStep ==
  ASSUME TypeOK, TypeOK', OrderInv, ~Reordering, [Next]_vars
  PROVE  OrderInv'
<1>1. SourceInOrder' /\ \A l \in ProjectList : Behind(l) => Behind(l)'
  BY OrderSource DEF OrderInv
<1>2. ASSUME NEW c \in Client PROVE Row(shown[c], slot[c], inbox[c])'
  <2>1. Row(shown'[c], slot'[c], inbox'[c])
    BY RowStep
  <2>2. /\ shown'[c] \in ProjectList /\ slot'[c] \in ProjectList
        /\ \A i \in DOMAIN inbox'[c] : ListIn(inbox'[c][i]) \in ProjectList
    <3>1. inbox'[c] \in Seq(Cast) /\ shown'[c] \in ProjectList /\ slot'[c] \in ProjectList
      BY TypeParts DEF Parts, CastWireTypeOK, ClientTypeOK
    <3>2. \A i \in DOMAIN inbox'[c] : inbox'[c][i] \in Cast
      BY <3>1, ElementOfSeq, LenProperties
    <3> QED
      BY <3>1, <3>2, ListInType
  <2>3. /\ Behind(shown[c])' /\ Behind(slot[c])'
        /\ \A i \in DOMAIN inbox'[c] : Behind(ListIn(inbox[c][i]))'
    BY <1>1, <2>1, <2>2 DEF Row, Behind, Older, Passed, ListIn
  <2> QED
    BY <2>1, <2>3 DEF Row, Older, ListIn
<1> QED
  BY <1>1, <1>2 DEF OrderInv

LEMMA ShownStep ==
  ASSUME TypeOK, OrderInv, [Next]_vars
  PROVE  ShowsNothingOlder
<1>0. ClientTypeOK
  BY TypeParts DEF Parts
<1> SUFFICES ASSUME NEW c \in Client
             PROVE  SameTimes(shown'[c], shown[c]) \/ shown'[c] \in {slot[c], EmptyList}
  BY <1>0, ShownIsNoOlder DEF ShowsNothingOlder, OrderInv, Row
<1>1. ASSUME shown' = shown PROVE SameTimes(shown'[c], shown[c])
  BY <1>1 DEF SameTimes
<1>2. CASE JenkinsStep \/ RefreshStep \/ FailStep \/ ServerStep \/ RestartStep
           \/ NetworkStep \/ UNCHANGED vars
  BY <1>1, <1>2 DEF JenkinsStep, RefreshStep, FailStep, ServerStep, RestartStep,
     NetworkStep, vars, allClientVars, clientVars
<1>3. ASSUME NEW d \in Client, ThreadStep(d) PROVE shown' = shown
  BY <1>3 DEF ThreadStep, MulticastClientThread, ReceiveUpdate, ReceiveBeacon,
     FlushVolunteers, clientVars
<1>4. ASSUME NEW d \in Client, RefreshClientStep(d) \/ VolunteerStep(d) \/ RejoinStep(d)
      PROVE  SameTimes(shown'[c], shown[c]) \/ shown'[c] \in {slot[c], EmptyList}
  <2>1. UserOf(d)
    BY <1>4 DEF RefreshClientStep, VolunteerStep, RejoinStep, Rejoin, UserOf
  <2> QED
    BY <1>0, <2>1, ShownByUser
<1> QED
  BY <1>1, <1>2, <1>3, <1>4 DEF Next

\* In multicast mode too what a client shows of a project is never replaced by an
\* earlier build, if the network keeps the order of datagrams: a list sent on
\* request, one sent to all and one that a restarted server sends do not overtake
\* one another (monitor_server.rs:112-233; monitor_client.rs:95-199).
THEOREM ShownGoesForward ==
  ASSUME Reordering = FALSE
  PROVE  Spec => [][ShowsNothingOlder]_vars
<1>1. TypeOK /\ TypeOK' /\ OrderInv /\ [Next]_vars => OrderInv'
  BY OrderStep
<1>2. TypeOK /\ OrderInv /\ [Next]_vars => [ShowsNothingOlder]_vars
  BY ShownStep
<1>3. Init => OrderInv
  BY OrderInit DEF Init
<1> QED
  BY <1>1, <1>2, <1>3, CastTypes, PTL DEF Spec

--------------------------------------------------------------------------------
\* MulticastFeed implements ProjectBoard.  The invariant the proof needs is that a
\* list on its way to a client, in a datagram or in the slot, is one the server
\* has had.

\* The datagrams to a client that are a beacon or carry a list in S.
CastFrom(S) == [type : {"ProjectUpdate"}, projects : S]
               \cup [type : {"Beacon"}, host : Host]

BoardInv == /\ TypeOK
            /\ projects \in past /\ EmptyList \in past
            /\ slot \in [Client -> past]
            /\ inbox \in [Client -> Seq(CastFrom(past))]

LEMMA BoardInvInit == BoardFeedInit => BoardInv
<1> SUFFICES ASSUME BoardFeedInit PROVE BoardInv
  OBVIOUS
<1>1. TypeOK
  BY InitType DEF BoardFeedInit
<1> QED
  BY <1>1, EmptySeq DEF BoardFeedInit, Init, MonitorInit, ClientInit, WireInit, BoardInv

LEMMA MoreCasts ==
  ASSUME NEW S, NEW T, S \subseteq T
  PROVE  Seq(CastFrom(S)) \subseteq Seq(CastFrom(T))
<1>1. CastFrom(S) \subseteq CastFrom(T)
  BY DEF CastFrom
<1> QED
  BY <1>1, SeqMonotonic

\* The server sends the list it has, and its beacon.
LEMMA CastsFromPast ==
  ASSUME TypeOK, projects \in past
  PROVE  /\ ProjectUpdates(projects) \in Seq(CastFrom(past))
         /\ <<Beacon(host)>> \in Seq(CastFrom(past))
<1>1. host \in Host
  BY TypeParts DEF Parts, MulticastServerTypeOK
<1>2. ProjectUpdate(projects) \in CastFrom(past) /\ Beacon(host) \in CastFrom(past)
  BY <1>1 DEF CastFrom, ProjectUpdate, Beacon
<1> QED
  BY <1>2, EmptySeq DEF ProjectUpdates

\* Whatever the step, no list comes from elsewhere than from the server.
OnTheirWay(P) == slot' \in [Client -> P] /\ inbox' \in [Client -> Seq(CastFrom(P))]

LEMMA ServerStepOnBoard == BoardInv /\ ServerStep => OnTheirWay(past)
<1> SUFFICES ASSUME BoardInv, ServerStep PROVE OnTheirWay(past)
  OBVIOUS
<1>1. slot' \in [Client -> past]
  BY DEF BoardInv, ServerStep, allClientVars, clientVars
<1>2. inbox \in [Client -> Seq(CastFrom(past))] /\ TypeOK /\ projects \in past
  BY DEF BoardInv
<1>3. CASE AnswerWithList \/ SendProjects
  <2>1. PICK group : SendTo(group, ProjectUpdates(projects))
    BY <1>3 DEF AnswerWithList, SendProjects
  <2>2. inbox' \in [Client -> Seq(CastFrom(past))]
    BY <1>2, <2>1, CastsFromPast, SendToType
  <2> QED
    BY <1>1, <2>2 DEF OnTheirWay
<1>4. CASE SendBeacon
  <2>1. SendTo(Client, <<Beacon(host)>>)
    BY <1>4 DEF SendBeacon
  <2>2. inbox' \in [Client -> Seq(CastFrom(past))]
    BY <1>2, <2>1, CastsFromPast, SendToType
  <2> QED
    BY <1>1, <2>2 DEF OnTheirWay
<1>5. CASE ~(AnswerWithList \/ SendProjects \/ SendBeacon)
  <2>1. UNCHANGED inbox
    BY <1>5 DEF ServerStep, StartCasting, MulticastServerThread, ReadFlag, AcceptAndFlag,
                EndDraining, ClearFlag, SkipBeacon, wireVars
  <2> QED
    BY <1>1, <1>2, <2>1 DEF OnTheirWay
<1> QED
  BY <1>3, <1>4, <1>5

LEMMA NetworkStepOnBoard == BoardInv /\ NetworkStep => OnTheirWay(past)
<1> SUFFICES ASSUME BoardInv, NetworkStep PROVE OnTheirWay(past)
  OBVIOUS
<1> USE DEF BoardInv, OnTheirWay
<1>1. slot' \in [Client -> past]
  BY DEF NetworkStep, allClientVars, clientVars
<1>2. CASE DisruptServerInbox
  BY <1>1, <1>2 DEF DisruptServerInbox
<1>3. ASSUME NEW c \in Client, DisruptInbox(c) PROVE OnTheirWay(past)
  <2>1. PICK q \in Disrupted(inbox[c]) : inbox' = [inbox EXCEPT ![c] = q]
    BY <1>3 DEF DisruptInbox
  <2>2. inbox[c] \in Seq(CastFrom(past)) /\ inbox[c] # <<>>
    BY <1>3 DEF DisruptInbox
  <2>3. q \in Seq(CastFrom(past))
    BY <2>1, <2>2, DisruptedType
  <2> QED
    BY <1>1, <2>1, <2>3
<1> QED
  BY <1>2, <1>3 DEF NetworkStep

LEMMA ThreadStepOnBoard ==
  ASSUME NEW c \in Client
  PROVE  BoardInv /\ ThreadStep(c) => OnTheirWay(past)
<1> SUFFICES ASSUME BoardInv, ThreadStep(c) PROVE OnTheirWay(past)
  OBVIOUS
<1> USE DEF BoardInv, OnTheirWay
<1>1. ASSUME inbox[c] # <<>>, inbox' = [inbox EXCEPT ![c] = Tail(@)]
      PROVE  /\ Head(inbox[c]) \in CastFrom(past)
             /\ inbox' \in [Client -> Seq(CastFrom(past))]
  <2>1. inbox[c] \in Seq(CastFrom(past)) /\ Len(inbox[c]) <= Buffer
    BY TypeParts DEF Parts, CastWireTypeOK
  <2>2. Head(inbox[c]) \in CastFrom(past) /\ Tail(inbox[c]) \in Seq(CastFrom(past))
    BY <1>1, <2>1, TailType
  <2> QED
    BY <1>1, <2>2
<1>2. CASE ReceiveUpdate(c)
  <2>1. /\ Head(inbox[c]) \in CastFrom(past) /\ Head(inbox[c]).type = "ProjectUpdate"
        /\ inbox' \in [Client -> Seq(CastFrom(past))]
    BY <1>1, <1>2 DEF ReceiveUpdate
  <2>2. Head(inbox[c]).projects \in past
    BY <2>1 DEF CastFrom
  <2>3. slot' \in [Client -> past]
    BY <1>2, <2>2 DEF ReceiveUpdate, FillSlot
  <2> QED
    BY <2>1, <2>3
<1>3. CASE ReceiveBeacon(c, host)
  BY <1>1, <1>3 DEF ReceiveBeacon, clientVars
<1>4. CASE FlushVolunteers(c, host)
  BY <1>4 DEF FlushVolunteers
<1> QED
  BY <1>2, <1>3, <1>4 DEF ThreadStep, MulticastClientThread

LEMMA StepOnBoard == BoardInv /\ [Next]_vars => OnTheirWay(past)
<1> SUFFICES ASSUME BoardInv, [Next]_vars PROVE OnTheirWay(past)
  OBVIOUS
<1> USE DEF BoardInv, OnTheirWay
<1>1. ASSUME UNCHANGED <<slot, inbox>> PROVE OnTheirWay(past)
  BY <1>1
<1>2. CASE JenkinsStep \/ RefreshStep \/ FailStep \/ RestartStep \/ UNCHANGED vars
  BY <1>1, <1>2 DEF JenkinsStep, RefreshStep, FailStep, RestartStep, RestartCasting,
     vars, wireVars, allClientVars, clientVars
<1>3. CASE ServerStep
  BY <1>3, ServerStepOnBoard
<1>4. CASE NetworkStep
  BY <1>4, NetworkStepOnBoard
<1>5. ASSUME NEW c \in Client, ThreadStep(c) PROVE OnTheirWay(past)
  BY <1>5, ThreadStepOnBoard
<1>6. ASSUME NEW c \in Client, RefreshClientStep(c) PROVE OnTheirWay(past)
  BY <1>6 DEF RefreshClientStep, RefreshClient, wireVars
<1>7. ASSUME NEW c \in Client, VolunteerStep(c) PROVE OnTheirWay(past)
  BY <1>1, <1>7 DEF VolunteerStep, SetVolunteering, wireVars
<1>8. ASSUME NEW c \in Client, RejoinStep(c) PROVE OnTheirWay(past)
  BY <1>8, EmptySeq DEF RejoinStep, Rejoin, RenewMonitor
<1> QED
  BY <1>2, <1>3, <1>4, <1>5, <1>6, <1>7, <1>8 DEF Next

LEMMA BoardInvStep == BoardInv /\ [BoardFeedNext]_boardFeedVars => BoardInv'
<1> SUFFICES ASSUME BoardInv, [BoardFeedNext]_boardFeedVars PROVE BoardInv'
  OBVIOUS
<1>1. [Next]_vars /\ past \subseteq past' /\ projects' \in past'
  BY DEF BoardFeedNext, boardFeedVars, BoardInv, vars, serverVars, monitorVars
<1>2. TypeOK'
  BY <1>1, StepType DEF BoardInv
<1>3. OnTheirWay(past)
  BY <1>1, StepOnBoard
<1>4. Seq(CastFrom(past)) \subseteq Seq(CastFrom(past'))
  BY <1>1, MoreCasts
<1>5. slot' \in [Client -> past'] /\ inbox' \in [Client -> Seq(CastFrom(past'))]
  BY <1>1, <1>3, <1>4 DEF OnTheirWay
<1> QED
  BY <1>1, <1>2, <1>5 DEF BoardInv

--------------------------------------------------------------------------------
\* A step that shows nobody anything is a change of the board, or nothing.
LEMMA ChangeStep ==
  ASSUME BoardInv', past' = past \cup {projects'}, UNCHANGED shown
  PROVE  Board!Change
BY DEF BoardInv, TypeOK, MonitorTypeOK, Board!Change

LEMMA BoardStep ==
  BoardInv /\ BoardInv' /\ [BoardFeedNext]_boardFeedVars
    => [Board!BoardNext]_<<projects, past, shown>>
<1> SUFFICES ASSUME BoardInv, BoardInv', [BoardFeedNext]_boardFeedVars
             PROVE  [Board!BoardNext]_<<projects, past, shown>>
  OBVIOUS
<1>1. CASE UNCHANGED boardFeedVars
  BY <1>1 DEF boardFeedVars, vars, serverVars, monitorVars, allClientVars, clientVars
<1> SUFFICES ASSUME BoardFeedNext PROVE [Board!BoardNext]_<<projects, past, shown>>
  BY <1>1
<1>2. Next /\ past' = past \cup {projects'}
  BY DEF BoardFeedNext
<1>3. CASE UNCHANGED shown
  BY <1>2, <1>3, ChangeStep DEF Board!BoardNext
<1>4. UNCHANGED projects => past' = past
  BY <1>2 DEF BoardInv
<1>5. shown \in [Client -> ProjectList] /\ slot \in [Client -> past]
  BY DEF BoardInv, TypeOK, ClientTypeOK
<1>6. ASSUME NEW c \in Client, RefreshClientStep(c)
      PROVE  [Board!BoardNext]_<<projects, past, shown>>
  <2>1. UNCHANGED projects /\ shown' = [shown EXCEPT ![c] = Taken(c)]
    BY <1>6 DEF RefreshClientStep, RefreshClient, serverVars, monitorVars
  <2>2. CASE slot[c] # EmptyList
    <3>1. Board!Look(c)
      BY <1>4, <1>5, <2>1, <2>2 DEF Taken, Board!Look
    <3> QED
      BY <3>1 DEF Board!BoardNext
  <2>3. CASE slot[c] = EmptyList
    BY <1>3, <1>5, <2>1, <2>3 DEF Taken
  <2> QED
    BY <2>2, <2>3
<1>7. ASSUME NEW c \in Client, VolunteerStep(c)
      PROVE  [Board!BoardNext]_<<projects, past, shown>>
  <2>1. PICK p \in Project : SetVolunteering(c, p)
    BY <1>7 DEF VolunteerStep
  <2>2. UNCHANGED projects /\ shown' = [shown EXCEPT ![c] = SetVolunteer(shown[c], p, c)]
    BY <1>7, <2>1 DEF VolunteerStep, SetVolunteering, serverVars, monitorVars
  <2>3. Board!Sign(c)
    BY <1>4, <2>2 DEF Board!Sign
  <2> QED
    BY <2>3 DEF Board!BoardNext
<1>8. ASSUME NEW c \in Client, RejoinStep(c)
      PROVE  [Board!BoardNext]_<<projects, past, shown>>
  <2>1. UNCHANGED projects /\ shown' = [shown EXCEPT ![c] = EmptyList]
    BY <1>8 DEF RejoinStep, Rejoin, RenewMonitor, serverVars, monitorVars
  <2>2. Board!Forget(c)
    BY <1>4, <2>1 DEF Board!Forget
  <2> QED
    BY <2>2 DEF Board!BoardNext
<1>9. ASSUME NEW c \in Client, ThreadStep(c) PROVE UNCHANGED shown
  BY <1>9 DEF ThreadStep, MulticastClientThread, ReceiveUpdate, ReceiveBeacon,
              FlushVolunteers, clientVars
<1>10. ASSUME JenkinsStep \/ RefreshStep \/ FailStep \/ ServerStep \/ RestartStep
              \/ NetworkStep
       PROVE  UNCHANGED shown
  BY <1>10 DEF JenkinsStep, RefreshStep, FailStep, ServerStep, RestartStep,
               NetworkStep, allClientVars, clientVars
<1> QED
  BY <1>2, <1>3, <1>6, <1>7, <1>8, <1>9, <1>10 DEF Next

LEMMA BoardInit == BoardFeedInit => Board!BoardInit
BY DEF BoardFeedInit, Init, MonitorInit, ClientInit, Board!BoardInit

\* What every client shows is a whole list the server once had, with nothing
\* added but the client's own name, whichever of the broadcasts and answers
\* reach it, in whatever order: MulticastFeed implements ProjectBoard
\* (monitor_server.rs:112-233, monitor_client.rs:152-199).
THEOREM MulticastFeedIsABoard == BoardFeedSpec => BoardSpec
<1>1. BoardFeedInit => Board!BoardInit
  BY BoardInit
<1>2. BoardInv /\ BoardInv' /\ [BoardFeedNext]_boardFeedVars
        => [Board!BoardNext]_<<projects, past, shown>>
  BY BoardStep
<1> QED
  BY BoardInvInit, BoardInvStep, <1>1, <1>2, PTL
     DEF BoardFeedSpec, BoardSpec, Board!BoardSpec, Board!boardVars
================================================================================
