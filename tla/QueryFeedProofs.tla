----------------------------- MODULE QueryFeedProofs -----------------------------
(***************************************************************************)
(* Theorems about QueryFeed and QueryFeedBoard, for any projects, clients, *)
(* buffer size and number of disruptions.                                  *)
(***************************************************************************)
EXTENDS QueryFeedBoard, MonitorProofs, FiniteSetTheorems

--------------------------------------------------------------------------------
\* Type correctness, step by step.

LEMMA InitType == Init => TypeOK
<1> SUFFICES ASSUME Init PROVE TypeOK
  OBVIOUS
<1>1. JenkinsTypeOK
  BY JenkinsInitType DEF Init
<1>2. QueryWireTypeOK
  <2>1. <<>> \in Seq(Request) /\ <<>> \in Seq(Reply) /\ Len(<<>>) <= Buffer
    BY WireBounds, EmptySeq
  <2>2. 0 \in 0..MaxDisruptions
    BY WireBounds
  <2> QED BY <2>1, <2>2 DEF Init, WireInit, QueryWireTypeOK
<1>3. MonitorTypeOK
  BY MonitorInitType DEF Init
<1>4. QueryServerTypeOK
  BY DEF Init, QueryServerInit, QueryServerTypeOK
<1>5. ClientTypeOK
  BY ClientInitType DEF Init
<1>6. QueryClientTypeOK
  BY DEF Init, QueryClientInit, QueryClientTypeOK
<1> QED BY <1>1, <1>2, <1>3, <1>4, <1>5, <1>6 DEF TypeOK

\* What happens in Jenkins.
LEMMA JenkinsStepType == TypeOK /\ JenkinsStep => TypeOK'
<1> SUFFICES ASSUME TypeOK, JenkinsStep PROVE TypeOK'
  OBVIOUS
<1>1. JenkinsTypeOK'
  BY JenkinsType DEF TypeOK, JenkinsStep
<1>2. UNCHANGED <<wireVars, serverVars, allClientVars>>
  BY DEF JenkinsStep
<1> QED BY <1>1, <1>2 DEF TypeOK, QueryWireTypeOK, MonitorTypeOK,
          QueryServerTypeOK, ClientTypeOK, QueryClientTypeOK, wireVars,
          serverVars, monitorVars, queryServerVars, allClientVars, clientVars,
          queryClientVars

LEMMA RefreshStepType == TypeOK /\ RefreshStep => TypeOK'
<1> SUFFICES ASSUME TypeOK, RefreshStep PROVE TypeOK'
  OBVIOUS
<1>1. MonitorTypeOK'
  BY RefreshType DEF TypeOK, RefreshStep
<1> QED BY <1>1 DEF RefreshStep, TypeOK, JenkinsTypeOK, QueryWireTypeOK,
          QueryServerTypeOK, ClientTypeOK, QueryClientTypeOK, jenkinsVars,
          wireVars, queryServerVars, allClientVars, clientVars, queryClientVars

LEMMA FailStepType == TypeOK /\ FailStep => TypeOK'
<1> SUFFICES ASSUME TypeOK, FailStep PROVE TypeOK'
  OBVIOUS
<1>1. MonitorTypeOK'
  BY RefreshType DEF TypeOK, FailStep
<1>2. disruptions' \in 0..MaxDisruptions
  BY DisruptType DEF FailStep, RefreshFault, FailRefresh, MisreadProject, TypeOK,
                     QueryWireTypeOK
<1> QED BY <1>1, <1>2 DEF FailStep, TypeOK, JenkinsTypeOK, QueryWireTypeOK,
          QueryServerTypeOK, ClientTypeOK, QueryClientTypeOK, jenkinsVars,
          queryServerVars, allClientVars, clientVars, queryClientVars

\* A list that is sent is a message of its type, or none if it is too large.
LEMMA ProjectUpdatesType ==
  ASSUME NEW l \in ProjectList
  PROVE  ProjectUpdates(l) \in Seq(Reply)
<1>1. ProjectUpdate(l) \in Reply
  BY DEF ProjectUpdate, Reply
<1> QED BY <1>1, EmptySeq DEF ProjectUpdates

LEMMA AnswerType ==
  ASSUME NEW h, projects \in ProjectList
  PROVE  Answer(h) \in Seq(Reply)
<1>1. <<NoProjectUpdate>> \in Seq(Reply)
  BY DEF Reply
<1> QED BY <1>1, ProjectUpdatesType DEF Answer

\* The oldest message the server has, when there is one.
LEMMA ServerHeadType ==
  ASSUME QueryWireTypeOK, serverInbox # <<>>
  PROVE  /\ Head(serverInbox) \in Request
         /\ Tail(serverInbox) \in Seq(Request)
         /\ Len(Tail(serverInbox)) <= Buffer
BY TailType DEF QueryWireTypeOK

LEMMA ServerStepType == TypeOK /\ ServerStep => TypeOK'
<1> SUFFICES ASSUME TypeOK, ServerStep PROVE TypeOK'
  OBVIOUS
<1>1. JenkinsTypeOK' /\ ClientTypeOK' /\ QueryClientTypeOK'
  BY DEF TypeOK, ServerStep, JenkinsTypeOK, ClientTypeOK, QueryClientTypeOK,
         jenkinsVars, allClientVars, clientVars, queryClientVars
<1>2. CASE StartServer
  BY <1>1, <1>2 DEF StartServer, TypeOK, QueryWireTypeOK, MonitorTypeOK,
         QueryServerTypeOK, crawlVars
<1>3. CASE TakeSnapshot
  <2>1. answerHash' \in ProjectHash
    BY <1>3, HashType DEF TakeSnapshot, TypeOK, MonitorTypeOK
  <2> QED BY <1>1, <1>3, <2>1 DEF TakeSnapshot, TypeOK, QueryWireTypeOK,
         MonitorTypeOK, QueryServerTypeOK, monitorVars, wireVars
<1>4. CASE AnswerRequest
  <2> DEFINE m == Head(serverInbox)
  <2>1. /\ m \in Request /\ m.type = "ProjectUpdateRequest"
        /\ serverInbox' = Tail(serverInbox)
        /\ serverInbox' \in Seq(Request) /\ Len(serverInbox') <= Buffer
    BY <1>4, ServerHeadType DEF AnswerRequest, TypeOK
  <2>2. m.from \in Client
    BY <2>1 DEF Request
  <2>3. Answer(m.hash) \in Seq(Reply)
    BY AnswerType DEF TypeOK, MonitorTypeOK
  <2>4. inbox' = [inbox EXCEPT ![m.from] = Deliver(inbox[m.from], Answer(m.hash))]
    BY <1>4 DEF AnswerRequest
  <2>5. inbox \in [Client -> Seq(Reply)] /\ \A c \in Client : Len(inbox[c]) <= Buffer
    BY DEF TypeOK, QueryWireTypeOK
  <2>6. /\ Deliver(inbox[m.from], Answer(m.hash)) \in Seq(Reply)
        /\ Len(Deliver(inbox[m.from], Answer(m.hash))) <= Buffer
    BY <2>2, <2>3, <2>5, DeliverType
  <2>7. inbox' \in [Client -> Seq(Reply)] /\ \A c \in Client : Len(inbox'[c]) <= Buffer
    BY <2>2, <2>4, <2>5, <2>6
  <2> QED BY <1>1, <1>4, <2>1, <2>7 DEF AnswerRequest, TypeOK, QueryWireTypeOK,
         MonitorTypeOK, QueryServerTypeOK, monitorVars, queryServerVars
<1>5. CASE AcceptVolunteer
  <2> DEFINE m == Head(serverInbox)
  <2>1. /\ m \in Request /\ m.type = "VolunteerAdded"
        /\ serverInbox' = Tail(serverInbox)
        /\ serverInbox' \in Seq(Request) /\ Len(serverInbox') <= Buffer
    BY <1>5, ServerHeadType DEF AcceptVolunteer, TypeOK
  <2>2. m.from \in Volunteers
    BY <2>1 DEF Request, Volunteers
  <2>3. projects' = SetVolunteer(projects, m.project, m.from)
    BY <1>5 DEF AcceptVolunteer, RecordVolunteer
  <2>4. projects' \in ProjectList
    BY <2>2, <2>3, SetVolunteerType DEF TypeOK, MonitorTypeOK
  <2> QED BY <1>1, <1>5, <2>1, <2>4 DEF AcceptVolunteer, TypeOK, QueryWireTypeOK,
         MonitorTypeOK, QueryServerTypeOK, queryServerVars, crawlVars
<1>6. CASE Sleep
  BY <1>1, <1>6 DEF Sleep, TypeOK, QueryWireTypeOK, MonitorTypeOK,
         QueryServerTypeOK, monitorVars, wireVars
<1> QED BY <1>2, <1>3, <1>4, <1>5, <1>6 DEF ServerStep, QueryServerThread

LEMMA RestartStepType == TypeOK /\ RestartStep => TypeOK'
<1> SUFFICES ASSUME TypeOK, RestartStep PROVE TypeOK'
  OBVIOUS
<1>1. disruptions' \in 0..MaxDisruptions
  BY DisruptType DEF RestartStep, RestartServer, TypeOK, QueryWireTypeOK
<1>2. <<>> \in Seq(Request) /\ Len(<<>>) <= Buffer
  BY EmptySeq, WireBounds
<1>3. MonitorTypeOK'
  BY RestartType DEF RestartStep, RestartServer
<1> QED BY <1>1, <1>2, <1>3 DEF RestartStep, RestartServer, TypeOK, JenkinsTypeOK,
         QueryWireTypeOK, QueryServerTypeOK, ClientTypeOK, QueryClientTypeOK,
         jenkinsVars, allClientVars, clientVars, queryClientVars

LEMMA NetworkStepType == TypeOK /\ NetworkStep => TypeOK'
<1> SUFFICES ASSUME TypeOK, NetworkStep PROVE TypeOK'
  OBVIOUS
<1>1. /\ JenkinsTypeOK' /\ MonitorTypeOK' /\ QueryServerTypeOK'
      /\ ClientTypeOK' /\ QueryClientTypeOK'
  BY DEF NetworkStep, TypeOK, JenkinsTypeOK, MonitorTypeOK, QueryServerTypeOK,
         ClientTypeOK, QueryClientTypeOK, jenkinsVars, serverVars, monitorVars,
         queryServerVars, allClientVars, clientVars, queryClientVars
<1>2. CASE DisruptServerInbox
  <2>1. serverInbox' \in Seq(Request) /\ Len(serverInbox') <= Buffer
    BY <1>2, DisruptedType DEF DisruptServerInbox, TypeOK, QueryWireTypeOK
  <2>2. disruptions' \in 0..MaxDisruptions
    BY <1>2, DisruptType DEF DisruptServerInbox, TypeOK, QueryWireTypeOK
  <2> QED BY <1>1, <1>2, <2>1, <2>2 DEF DisruptServerInbox, TypeOK, QueryWireTypeOK
<1>3. ASSUME NEW c \in Client, DisruptInbox(c) PROVE TypeOK'
  <2>1. PICK q \in Disrupted(inbox[c]) : Len(q) <= Buffer /\ inbox' = [inbox EXCEPT ![c] = q]
    BY <1>3 DEF DisruptInbox
  <2>2. inbox[c] \in Seq(Reply) /\ inbox[c] # <<>>
    BY <1>3 DEF DisruptInbox, TypeOK, QueryWireTypeOK
  <2>3. q \in Seq(Reply)
    BY <2>1, <2>2, DisruptedType
  <2>4. disruptions' \in 0..MaxDisruptions
    BY <1>3, DisruptType DEF DisruptInbox, TypeOK, QueryWireTypeOK
  <2>5. inbox' \in [Client -> Seq(Reply)] /\ \A d \in Client : Len(inbox'[d]) <= Buffer
    BY <2>1, <2>3 DEF TypeOK, QueryWireTypeOK
  <2> QED BY <1>1, <1>3, <2>4, <2>5 DEF DisruptInbox, TypeOK, QueryWireTypeOK
<1> QED BY <1>2, <1>3 DEF NetworkStep

\* What a client puts into the server's queue keeps its type.
LEMMA ToServerType ==
  ASSUME QueryWireTypeOK, NEW ms \in Seq(Request), ToServer(ms)
  PROVE  serverInbox' \in Seq(Request) /\ Len(serverInbox') <= Buffer
BY DeliverType DEF QueryWireTypeOK, ToServer

LEMMA ThreadStepType ==
  ASSUME NEW c \in Client
  PROVE  TypeOK /\ ThreadStep(c) => TypeOK'
<1> SUFFICES ASSUME TypeOK, ThreadStep(c) PROVE TypeOK'
  OBVIOUS
<1>1. JenkinsTypeOK' /\ MonitorTypeOK' /\ QueryServerTypeOK'
  BY DEF ThreadStep, TypeOK, JenkinsTypeOK, MonitorTypeOK, QueryServerTypeOK,
         jenkinsVars, serverVars, monitorVars, queryServerVars
<1>2. CASE SendRequest(c)
  <2>1. <<ProjectUpdateRequest(c, threadHash[c])>> \in Seq(Request)
    BY RequestType DEF TypeOK, QueryClientTypeOK
  <2>2. serverInbox' \in Seq(Request) /\ Len(serverInbox') <= Buffer
    BY <1>2, <2>1, ToServerType DEF SendRequest, TypeOK
  <2> QED BY <1>1, <1>2, <2>2 DEF SendRequest, GoTo, TypeOK, QueryWireTypeOK,
         ClientTypeOK, QueryClientTypeOK, clientVars
<1>3. CASE ReceiveReply(c)
  <2> DEFINE m == Head(inbox[c])
  <2>1. inbox[c] \in Seq(Reply) /\ inbox[c] # <<>> /\ Len(inbox[c]) <= Buffer
    BY <1>3 DEF ReceiveReply, TypeOK, QueryWireTypeOK
  <2>2. m \in Reply /\ Tail(inbox[c]) \in Seq(Reply) /\ Len(Tail(inbox[c])) <= Buffer
    BY <2>1, TailType
  <2>3. inbox' = [inbox EXCEPT ![c] = Tail(inbox[c])]
    BY <1>3 DEF ReceiveReply, Receive
  <2>4. inbox' \in [Client -> Seq(Reply)] /\ \A d \in Client : Len(inbox'[d]) <= Buffer
    BY <2>2, <2>3 DEF TypeOK, QueryWireTypeOK
  <2>5. QueryWireTypeOK'
    BY <1>3, <2>4 DEF ReceiveReply, TypeOK, QueryWireTypeOK
  <2>6. /\ slot' \in [Client -> ProjectList]
        /\ threadHash' \in [Client -> ProjectHash \cup {ZeroHash}]
    <3>1. CASE m.type = "ProjectUpdate"
      <4>1. m.projects \in ProjectList /\ Hash(m.projects) \in ProjectHash
        BY <2>2, <3>1, HashType DEF Reply, NoProjectUpdate
      <4>2. TakeUpdate(c, m.projects)
        BY <1>3, <3>1 DEF ReceiveReply, Receive
      <4> QED BY <4>1, <4>2 DEF TakeUpdate, FillSlot, TypeOK, ClientTypeOK,
                 QueryClientTypeOK
    <3>2. CASE m.type # "ProjectUpdate"
      BY <1>3, <3>2 DEF ReceiveReply, Receive, TypeOK, ClientTypeOK, QueryClientTypeOK
    <3> QED BY <3>1, <3>2
  <2> QED BY <1>1, <1>3, <2>5, <2>6 DEF ReceiveReply, GoTo, TypeOK, ClientTypeOK,
         QueryClientTypeOK
<1>4. CASE NoReply(c)
  <2>1. disruptions' \in 0..MaxDisruptions
    BY <1>4, DisruptType DEF NoReply, TypeOK, QueryWireTypeOK
  <2> QED BY <1>1, <1>4, <2>1 DEF NoReply, GoTo, TypeOK, QueryWireTypeOK,
         ClientTypeOK, QueryClientTypeOK, clientVars
<1>5. CASE SendVolunteers(c)
  <2>1. [i \in DOMAIN outbox[c] |-> VolunteerAdded(c, outbox[c][i])] \in Seq(Request)
    BY VolunteerMessages DEF TypeOK, ClientTypeOK
  <2>2. serverInbox' \in Seq(Request) /\ Len(serverInbox') <= Buffer
    BY <1>5, <2>1, ToServerType DEF SendVolunteers, TypeOK
  <2>3. <<>> \in Seq(Project)
    BY EmptySeq
  <2> QED BY <1>1, <1>5, <2>2, <2>3 DEF SendVolunteers, GoTo, TypeOK,
         QueryWireTypeOK, ClientTypeOK, QueryClientTypeOK
<1> QED BY <1>2, <1>3, <1>4, <1>5 DEF ThreadStep, QueryClientThread

LEMMA RefreshClientStepType ==
  ASSUME NEW c \in Client
  PROVE  TypeOK /\ RefreshClientStep(c) => TypeOK'
<1> SUFFICES ASSUME TypeOK, RefreshClientStep(c) PROVE TypeOK'
  OBVIOUS
<1>1. ClientTypeOK'
  BY ClientType DEF RefreshClientStep, TypeOK
<1> QED BY <1>1 DEF RefreshClientStep, TypeOK, JenkinsTypeOK, QueryWireTypeOK,
         MonitorTypeOK, QueryServerTypeOK, QueryClientTypeOK, jenkinsVars, wireVars,
         serverVars, monitorVars, queryServerVars, queryClientVars

LEMMA VolunteerStepType ==
  ASSUME NEW c \in Client
  PROVE  TypeOK /\ VolunteerStep(c) => TypeOK'
<1> SUFFICES ASSUME TypeOK, VolunteerStep(c) PROVE TypeOK'
  OBVIOUS
<1>1. ClientTypeOK'
  BY ClientType DEF VolunteerStep, TypeOK
<1> QED BY <1>1 DEF VolunteerStep, TypeOK, JenkinsTypeOK, QueryWireTypeOK,
         MonitorTypeOK, QueryServerTypeOK, QueryClientTypeOK, jenkinsVars, wireVars,
         serverVars, monitorVars, queryServerVars, queryClientVars

LEMMA ReconnectStepType ==
  ASSUME NEW c \in Client
  PROVE  TypeOK /\ ReconnectStep(c) => TypeOK'
<1> SUFFICES ASSUME TypeOK, ReconnectStep(c) PROVE TypeOK'
  OBVIOUS
<1>1. disruptions' \in 0..MaxDisruptions
  BY DisruptType DEF ReconnectStep, Reconnect, TypeOK, QueryWireTypeOK
<1>2. <<>> \in Seq(Reply) /\ <<>> \in Seq(Project) /\ Len(<<>>) <= Buffer
  BY EmptySeq, WireBounds
<1>3. ClientTypeOK'
  BY ClientType DEF ReconnectStep, Reconnect, TypeOK
<1>4. QueryWireTypeOK' /\ QueryClientTypeOK'
  BY <1>1, <1>2 DEF ReconnectStep, Reconnect, GoTo, TypeOK, QueryWireTypeOK,
     QueryClientTypeOK
<1> QED BY <1>3, <1>4 DEF ReconnectStep, TypeOK, JenkinsTypeOK, MonitorTypeOK,
         QueryServerTypeOK, jenkinsVars, serverVars, monitorVars, queryServerVars

LEMMA StutterType == TypeOK /\ UNCHANGED vars => TypeOK'
BY DEF vars, TypeOK, JenkinsTypeOK, QueryWireTypeOK, MonitorTypeOK,
       QueryServerTypeOK, ClientTypeOK, QueryClientTypeOK, jenkinsVars, wireVars,
       serverVars, monitorVars, queryServerVars, allClientVars, clientVars,
       queryClientVars

LEMMA StepType == TypeOK /\ [Next]_vars => TypeOK'
BY JenkinsStepType, RefreshStepType, FailStepType, ServerStepType,
   RestartStepType, NetworkStepType, ThreadStepType, RefreshClientStepType,
   VolunteerStepType, ReconnectStepType, StutterType DEF Next

\* Whatever the threads, the network and the operators of the processes do,
\* every variable keeps its type and no socket holds more than its buffer.
THEOREM TypeCorrect == Spec => []TypeOK
BY InitType, StepType, PTL DEF Spec

--------------------------------------------------------------------------------
\* The thread's hash and the list shown.  HashMatchesShown is inductive as it
\* stands, given the types.

\* HashMatchesShown of one client.
HashMatches(c) ==
  threadHash[c] \notin {ZeroHash, Hash(EmptyList)} =>
    IF slot[c] # EmptyList
    THEN Hash(slot[c]) = threadHash[c]
    ELSE SameButSigned(shown[c], threadHash[c], c)

\* A list that has the hash h is the list with the hash h.
LEMMA HashImpliesSame ==
  ASSUME NEW l \in ProjectList, NEW c
  PROVE  SameButSigned(l, Hash(l), c)
BY ListElim DEF SameButSigned, Hash

\* Signing it once more does not change that (set_volunteering).
LEMMA SigningKeepsSame ==
  ASSUME NEW l \in ProjectList, NEW h, NEW c \in Client, NEW p,
         SameButSigned(l, h, c)
  PROVE  SameButSigned(SetVolunteer(l, p, c), h, c)
<1>1. l \in [DOMAIN l -> Entry]
  BY ListElim
<1> QED BY <1>1 DEF SameButSigned, SetVolunteer, Entry

\* A step that leaves a client's thread, slot and list alone leaves its
\* invariant alone.
LEMMA HashMatchesFrame ==
  ASSUME NEW c \in Client, HashMatches(c),
         threadHash'[c] = threadHash[c], slot'[c] = slot[c], shown'[c] = shown[c]
  PROVE  HashMatches(c)'
BY DEF HashMatches, SameButSigned, Hash, EmptyList

LEMMA HashMatchesStep ==
  ASSUME TypeOK, HashMatchesShown, [Next]_vars
  PROVE  HashMatchesShown'
<1> SUFFICES ASSUME NEW c \in Client PROVE HashMatches(c)'
  BY DEF HashMatchesShown, HashMatches
<1>1. HashMatches(c)
  BY DEF HashMatchesShown, HashMatches
<1>2. /\ slot \in [Client -> ProjectList] /\ shown \in [Client -> ProjectList]
      /\ threadHash \in [Client -> ProjectHash \cup {ZeroHash}]
  BY DEF TypeOK, ClientTypeOK, QueryClientTypeOK
<1>3. CASE UNCHANGED <<threadHash, slot, shown>>
  BY <1>1, <1>3, HashMatchesFrame
<1>4. ASSUME NEW d \in Client, ReceiveReply(d) PROVE HashMatches(c)'
  <2> DEFINE m == Head(inbox[d])
  <2>1. shown' = shown
    BY <1>4 DEF ReceiveReply
  <2>2. CASE m.type = "ProjectUpdate" /\ d = c
    <3>1. /\ slot' = [slot EXCEPT ![c] = m.projects]
          /\ threadHash' = [threadHash EXCEPT ![c] = Hash(m.projects)]
      BY <1>4, <2>2 DEF ReceiveReply, Receive, TakeUpdate, FillSlot
    <3>2. slot'[c] = m.projects /\ threadHash'[c] = Hash(m.projects)
      BY <1>2, <3>1
    <3>3. (slot'[c] # EmptyList) => HashMatches(c)'
      BY <3>2 DEF HashMatches, Hash, EmptyList
    <3>4. (slot'[c] = EmptyList) => HashMatches(c)'
      BY <3>2 DEF HashMatches, Hash, EmptyList
    <3> QED BY <3>3, <3>4
  <2>3. CASE ~(m.type = "ProjectUpdate" /\ d = c)
    <3>1. threadHash'[c] = threadHash[c] /\ slot'[c] = slot[c]
      BY <1>2, <1>4, <2>3 DEF ReceiveReply, Receive, TakeUpdate, FillSlot
    <3> QED BY <1>1, <2>1, <3>1, HashMatchesFrame
  <2> QED BY <2>2, <2>3
<1>5. ASSUME NEW d \in Client, RefreshClient(d), UNCHANGED threadHash
      PROVE  HashMatches(c)'
  <2>1. CASE d = c
    <3>1. slot'[c] = EmptyList /\ shown'[c] = Taken(c) /\ threadHash'[c] = threadHash[c]
      BY <1>2, <1>5, <2>1 DEF RefreshClient
    <3>2. CASE slot[c] = EmptyList
      BY <1>1, <3>1, <3>2, HashMatchesFrame DEF Taken
    <3>3. CASE slot[c] # EmptyList
      <4>1. shown'[c] = slot[c] /\ SameButSigned(slot[c], Hash(slot[c]), c)
        BY <1>2, <3>1, <3>3, HashImpliesSame DEF Taken
      <4> QED BY <1>1, <3>1, <3>3, <4>1 DEF HashMatches, SameButSigned, Hash, EmptyList
    <3> QED BY <3>2, <3>3
  <2>2. CASE d # c
    BY <1>1, <1>2, <1>5, <2>2, HashMatchesFrame DEF RefreshClient
  <2> QED BY <2>1, <2>2
<1>6. ASSUME NEW d \in Client, NEW p \in Project, SetVolunteering(d, p),
             UNCHANGED threadHash
      PROVE  HashMatches(c)'
  <2>1. CASE d = c
    <3>1. shown'[c] = SetVolunteer(shown[c], p, c) /\ slot' = slot
      BY <1>2, <1>6, <2>1 DEF SetVolunteering
    <3>2. SameButSigned(shown[c], threadHash[c], c) =>
            SameButSigned(shown'[c], threadHash'[c], c)
      BY <1>2, <1>6, <3>1, SigningKeepsSame
    <3> QED BY <1>1, <1>6, <3>1, <3>2 DEF HashMatches, Hash, EmptyList
  <2>2. CASE d # c
    BY <1>1, <1>2, <1>6, <2>2, HashMatchesFrame DEF SetVolunteering
  <2> QED BY <2>1, <2>2
<1>7. ASSUME NEW d \in Client, Reconnect(d) PROVE HashMatches(c)'
  <2>1. CASE d = c
    <3>1. threadHash'[c] = ZeroHash
      BY <1>2, <1>7, <2>1 DEF Reconnect
    <3> QED BY <3>1 DEF HashMatches
  <2>2. CASE d # c
    BY <1>1, <1>2, <1>7, <2>2, HashMatchesFrame DEF Reconnect, RenewMonitor
  <2> QED BY <2>1, <2>2
<1>8. CASE JenkinsStep \/ RefreshStep \/ FailStep \/ ServerStep \/ RestartStep
           \/ NetworkStep \/ UNCHANGED vars
  BY <1>3, <1>8 DEF JenkinsStep, RefreshStep, FailStep, ServerStep, RestartStep,
     NetworkStep, vars, allClientVars, clientVars, queryClientVars
<1>9. ASSUME NEW d \in Client, ThreadStep(d) PROVE HashMatches(c)'
  <2>1. CASE SendRequest(d) \/ NoReply(d) \/ SendVolunteers(d)
    BY <1>3, <2>1 DEF SendRequest, NoReply, SendVolunteers, clientVars
  <2> QED BY <1>4, <1>9, <2>1 DEF ThreadStep, QueryClientThread
<1>10. ASSUME NEW d \in Client, RefreshClientStep(d) PROVE HashMatches(c)'
  BY <1>5, <1>10 DEF RefreshClientStep, queryClientVars
<1>11. ASSUME NEW d \in Client, VolunteerStep(d) PROVE HashMatches(c)'
  BY <1>6, <1>11 DEF VolunteerStep, queryClientVars
<1>12. ASSUME NEW d \in Client, ReconnectStep(d) PROVE HashMatches(c)'
  BY <1>7, <1>12 DEF ReconnectStep
<1> QED BY <1>8, <1>9, <1>10, <1>11, <1>12 DEF Next

\* The hash a client sends with its requests always describes the list its user
\* sees or is about to see, so that "no update" never leaves a client with
\* something else (monitor_client.rs:241-265 against monitor.rs:85-92).
THEOREM HashDescribesShown == Spec => []HashMatchesShown
<1>1. Init => HashMatchesShown
  BY DEF Init, QueryClientInit, HashMatchesShown
<1>2. TypeOK /\ HashMatchesShown /\ [Next]_vars => HashMatchesShown'
  BY HashMatchesStep
<1> QED BY <1>1, <1>2, TypeCorrect, PTL DEF Spec

--------------------------------------------------------------------------------
\* Volunteers.

LEMMA KeptStep ==
  ASSUME TypeOK, [Next]_vars
  PROVE  KeepsVolunteers
<1> SUFFICES KeepingStep
  BY KeptByMonitor DEF TypeOK
<1>1. CASE RefreshStep \/ FailStep \/ RestartStep
  BY <1>1 DEF RefreshStep, FailStep, RestartStep, RestartServer, KeepingStep
<1>2. CASE ServerStep
  <2>1. CASE AcceptVolunteer
    <3> DEFINE m == Head(serverInbox)
    <3>1. m \in Request /\ m.type = "VolunteerAdded"
      BY <2>1, ServerHeadType DEF AcceptVolunteer, TypeOK
    <3>2. m.from \in Client /\ RecordVolunteer(m.project, m.from)
      BY <2>1, <3>1 DEF AcceptVolunteer, Request
    <3> QED
      BY <3>2 DEF KeepingStep
  <2>2. CASE StartServer \/ TakeSnapshot \/ AnswerRequest \/ Sleep
    BY <2>2 DEF StartServer, TakeSnapshot, AnswerRequest, Sleep, monitorVars, KeepingStep
  <2> QED
    BY <1>2, <2>1, <2>2 DEF ServerStep, QueryServerThread
<1>3. CASE JenkinsStep \/ NetworkStep \/ UNCHANGED vars
  BY <1>3 DEF JenkinsStep, NetworkStep, vars, serverVars, monitorVars, KeepingStep
<1>4. ASSUME NEW c \in Client,
             \/ ThreadStep(c) \/ RefreshClientStep(c) \/ VolunteerStep(c)
             \/ ReconnectStep(c)
      PROVE  KeepingStep
  BY <1>4 DEF ThreadStep, RefreshClientStep, VolunteerStep, ReconnectStep,
              serverVars, monitorVars, KeepingStep
<1> QED
  BY <1>1, <1>2, <1>3, <1>4 DEF Next

\* A volunteer is lost to nothing but a crawl that finds the project fixed, or
\* that began before the volunteering arrived (monitor.rs:101-147,
\* monitor_server.rs:91-110).
THEOREM NoVolunteerIsDropped == Spec => VolunteersKept
<1>1. TypeOK /\ [Next]_vars => [KeepsVolunteers]_vars
  BY KeptStep
<1> QED
  BY <1>1, TypeCorrect, PTL DEF Spec, VolunteersKept

--------------------------------------------------------------------------------
\* How far behind a client is.  BacklogIsCaused is inductive as it stands, given
\* the types; what it takes is counting in the server's queue.

\* Where in the queue q the requests of c are.
AskedIn(q, c) == {i \in DOMAIN q : Asks(q[i], c)}
Asked(q, c) == Cardinality(AskedIn(q, c))

LEMMA AskedIsFinite ==
  ASSUME NEW S, NEW q \in Seq(S), NEW c
  PROVE  IsFiniteSet(AskedIn(q, c)) /\ Asked(q, c) \in Nat
<1>1. Len(q) \in Nat /\ DOMAIN q = 1..Len(q)
  BY LenProperties
<1>2. IsFiniteSet(1..Len(q))
  BY <1>1, FS_Interval
<1>3. AskedIn(q, c) \in SUBSET (1..Len(q))
  BY <1>1 DEF AskedIn
<1> QED
  BY <1>2, <1>3, FS_Subset, FS_CardinalityType DEF Asked

\* How long a queue may be after a delivery, and after a fault.
LEMMA DeliverLength ==
  ASSUME NEW S, NEW q \in Seq(S), NEW ms \in Seq(S)
  PROVE  Len(Deliver(q, ms)) \in Nat /\ Len(Deliver(q, ms)) <= Len(q) + Len(ms)
<1>1. Deliver(q, ms) \in Seq(S) /\ DOMAIN Deliver(q, ms) \subseteq 1..(Len(q) + Len(ms))
  BY DeliverType, DeliverElements
<1>2. Len(Deliver(q, ms)) \in Nat /\ DOMAIN Deliver(q, ms) = 1..Len(Deliver(q, ms))
  BY <1>1, LenProperties
<1>3. Len(q) \in Nat /\ Len(ms) \in Nat
  BY LenProperties
<1> QED
  BY <1>1, <1>2, <1>3

LEMMA DisruptedLength ==
  ASSUME NEW S, NEW q \in Seq(S), q # <<>>, NEW r \in Disrupted(q)
  PROVE  Len(r) \in Nat /\ Len(r) <= Len(q) + 1
<1>1. /\ Head(q) \in S /\ Tail(q) \in Seq(S) /\ Len(Tail(q)) = Len(q) - 1
      /\ Len(q) \in Nat /\ Len(Tail(q)) \in Nat
  BY HeadTailProperties, LenProperties
<1>2. Len(Append(Tail(q), Head(q))) = Len(q) /\ Len(Append(q, Head(q))) = Len(q) + 1
  BY <1>1, AppendProperties
<1> QED
  BY <1>1, <1>2 DEF Disrupted

\* Messages of which none is a request of c do not add one.
LEMMA AskedNoMore ==
  ASSUME NEW S, NEW q \in Seq(S), NEW ms \in Seq(S), NEW c,
         \A i \in DOMAIN ms : ~Asks(ms[i], c)
  PROVE  Asked(Deliver(q, ms), c) <= Asked(q, c)
<1>1. Len(q) \in Nat /\ DOMAIN q = 1..Len(q) /\ Len(ms) \in Nat /\ DOMAIN ms = 1..Len(ms)
  BY LenProperties
<1>2. ASSUME NEW i \in AskedIn(Deliver(q, ms), c) PROVE i \in AskedIn(q, c)
  <2>1. i \in DOMAIN Deliver(q, ms) /\ Asks(Deliver(q, ms)[i], c)
    BY DEF AskedIn
  <2>2. /\ i \in 1..(Len(q) + Len(ms))
        /\ Deliver(q, ms)[i] = IF i <= Len(q) THEN q[i] ELSE ms[i - Len(q)]
    BY <2>1, DeliverElements
  <2>3. CASE i <= Len(q)
    BY <1>1, <2>1, <2>2, <2>3 DEF AskedIn
  <2>4. CASE ~(i <= Len(q))
    <3>1. i - Len(q) \in DOMAIN ms
      BY <1>1, <2>2, <2>4
    <3> QED
      BY <2>1, <2>2, <2>4, <3>1
  <2> QED
    BY <2>3, <2>4
<1> QED
  BY <1>2, AskedIsFinite, FS_Subset DEF Asked

\* A set with at most one more element than another has one more at most.
LEMMA CountOneMore ==
  ASSUME NEW S, IsFiniteSet(S), NEW x, NEW T \in SUBSET (S \cup {x})
  PROVE  Cardinality(T) <= Cardinality(S) + 1
<1>1. Cardinality(S) \in Nat
  BY FS_CardinalityType
<1>2. /\ IsFiniteSet(S \cup {x})
      /\ Cardinality(S \cup {x}) = IF x \in S THEN Cardinality(S) ELSE Cardinality(S) + 1
  BY FS_AddElement
<1>3. IsFiniteSet(T) /\ Cardinality(T) <= Cardinality(S \cup {x})
  BY <1>2, FS_Subset
<1>4. Cardinality(T) \in Nat
  BY <1>3, FS_CardinalityType
<1> QED
  BY <1>1, <1>2, <1>3, <1>4

\* One message adds one at most.
LEMMA AskedOneMore ==
  ASSUME NEW S, NEW q \in Seq(S), NEW m \in S, NEW c
  PROVE  Asked(Deliver(q, <<m>>), c) <= Asked(q, c) + 1
<1>1. Len(q) \in Nat /\ DOMAIN q = 1..Len(q)
  BY LenProperties
<1>2. <<m>> \in Seq(S) /\ Len(<<m>>) = 1
  OBVIOUS
<1>3. AskedIn(Deliver(q, <<m>>), c) \in SUBSET (AskedIn(q, c) \cup {Len(q) + 1})
  <2> SUFFICES ASSUME NEW i \in AskedIn(Deliver(q, <<m>>), c), i # Len(q) + 1
               PROVE  i \in AskedIn(q, c)
    OBVIOUS
  <2>1. i \in DOMAIN Deliver(q, <<m>>) /\ Asks(Deliver(q, <<m>>)[i], c)
    BY DEF AskedIn
  <2>2. /\ i \in 1..(Len(q) + 1)
        /\ Deliver(q, <<m>>)[i] = IF i <= Len(q) THEN q[i] ELSE <<m>>[i - Len(q)]
    BY <1>2, <2>1, DeliverElements
  <2>3. i \in 1..Len(q)
    BY <1>1, <2>2
  <2> QED
    BY <1>1, <2>1, <2>2, <2>3 DEF AskedIn
<1>4. IsFiniteSet(AskedIn(q, c))
  BY AskedIsFinite
<1> QED
  BY <1>3, <1>4, CountOneMore DEF Asked

\* The first one gone, there is no more than without it.
LEMMA AskedInTail ==
  ASSUME NEW S, NEW q \in Seq(S), q # <<>>, NEW c
  PROVE  /\ Asked(Tail(q), c) <= Asked(q, c)
         /\ Asks(Head(q), c) => Asked(Tail(q), c) + 1 <= Asked(q, c)
<1>1. /\ Len(q) \in Nat /\ Len(q) >= 1 /\ DOMAIN q = 1..Len(q)
      /\ Tail(q) \in Seq(S) /\ Len(Tail(q)) = Len(q) - 1
      /\ DOMAIN Tail(q) = 1..(Len(q) - 1) /\ Head(q) = q[1]
      /\ \A i \in 1..(Len(q) - 1) : Tail(q)[i] = q[i + 1]
  BY LenProperties, HeadTailProperties, EmptySeq
<1> DEFINE T == AskedIn(Tail(q), c)
           R == AskedIn(q, c) \ {1}
           f == [i \in T |-> i + 1]
<1>2. IsFiniteSet(AskedIn(q, c)) /\ Asked(q, c) \in Nat /\ IsFiniteSet(T) /\ Asked(Tail(q), c) \in Nat
  BY <1>1, AskedIsFinite
<1>3. \A i \in T : i \in 1..(Len(q) - 1) /\ i + 1 \in R
  BY <1>1 DEF AskedIn
<1>4. f \in Injection(T, R)
  BY <1>3 DEF Injection, IsInjective
<1>5. IsFiniteSet(R) /\ Cardinality(R) = IF 1 \in AskedIn(q, c) THEN Asked(q, c) - 1 ELSE Asked(q, c)
  BY <1>2, FS_RemoveElement DEF Asked
<1> HIDE DEF T, R, f
<1>6. Cardinality(T) <= Cardinality(R)
  BY <1>4, <1>5, FS_Injection
<1>7. Asks(Head(q), c) => 1 \in AskedIn(q, c)
  BY <1>1 DEF AskedIn
<1> QED
  BY <1>2, <1>5, <1>6, <1>7 DEF Asked, T

\* Once more for a queue the network has played with.
LEMMA AskedInDisrupted ==
  ASSUME NEW S, NEW q \in Seq(S), q # <<>>, NEW c, NEW r \in Disrupted(q)
  PROVE  Asked(r, c) <= Asked(q, c) + 1
<1>1. Head(q) \in S /\ Tail(q) \in Seq(S)
  BY HeadTailProperties
<1>2. ASSUME NEW s \in Seq(S), NEW m \in S
      PROVE  Asked(Append(s, m), c) <= Asked(s, c) + 1
  <2>1. /\ Len(s) \in Nat /\ DOMAIN s = 1..Len(s)
        /\ Append(s, m) \in Seq(S) /\ Len(Append(s, m)) = Len(s) + 1
        /\ \A i \in 1..Len(s) : Append(s, m)[i] = s[i]
    BY LenProperties, AppendProperties
  <2>2. DOMAIN Append(s, m) = 1..(Len(s) + 1)
    BY <2>1, LenProperties
  <2>3. AskedIn(Append(s, m), c) \in SUBSET (AskedIn(s, c) \cup {Len(s) + 1})
    BY <2>1, <2>2 DEF AskedIn
  <2>4. IsFiniteSet(AskedIn(s, c)) /\ Asked(s, c) \in Nat
    BY AskedIsFinite
  <2> QED
    BY <2>1, <2>3, <2>4, CountOneMore, AskedIsFinite DEF Asked
<1>3. /\ Asked(q, c) \in Nat /\ Asked(Tail(q), c) \in Nat
      /\ Asked(Tail(q), c) <= Asked(q, c)
  BY <1>1, AskedIsFinite, AskedInTail
<1>4. Asked(Append(Tail(q), Head(q)), c) <= Asked(Tail(q), c) + 1
  BY <1>1, <1>2
<1>5. Asked(Append(q, Head(q)), c) <= Asked(q, c) + 1
  BY <1>1, <1>2
<1>6. Asked(Append(Tail(q), Head(q)), c) \in Nat
  BY <1>1, AppendProperties, AskedIsFinite
<1>7. r = Tail(q) \/ r = Append(Tail(q), Head(q)) \/ r = Append(q, Head(q))
  BY DEF Disrupted
<1>8. Asked(Append(Tail(q), Head(q)), c) <= Asked(q, c) + 1
  BY <1>3, <1>4, <1>6
<1>9. Asked(Tail(q), c) <= Asked(q, c) + 1
  BY <1>3
<1> QED
  BY <1>5, <1>7, <1>8, <1>9

--------------------------------------------------------------------------------
\* The invariant of one client.
Debt(c) == disruptions + (IF clientPC[c] = "reply" THEN 1 ELSE 0)

LEMMA BacklogIsAsked == \A c : Backlog(c) = Asked(serverInbox, c) + Len(inbox[c])
BY DEF Backlog, Unanswered, Asked, AskedIn

LEMMA BacklogNext ==
  \A c : Backlog(c)' = Asked(serverInbox', c) + Len(inbox'[c])
BY DEF Backlog, Unanswered, Asked, AskedIn, Asks

\* The numbers are numbers.
LEMMA Countable ==
  ASSUME TypeOK, NEW c \in Client
  PROVE  /\ Asked(serverInbox, c) \in Nat
         /\ Len(inbox[c]) \in Nat
         /\ disruptions \in Nat
         /\ inbox[c] \in Seq(Reply)
<1>1. serverInbox \in Seq(Request) /\ inbox[c] \in Seq(Reply) /\ disruptions \in Nat
  BY WireBounds DEF TypeOK, QueryWireTypeOK
<1> QED
  BY <1>1, AskedIsFinite, LenProperties

\* A step that touches neither the server's queue nor the datagrams and thread of c.
LEMMA BacklogFrame ==
  ASSUME TypeOK, NEW c \in Client, Backlog(c) <= Debt(c),
         serverInbox' = serverInbox, inbox'[c] = inbox[c], clientPC'[c] = clientPC[c],
         disruptions' = disruptions \/ disruptions' = disruptions + 1
  PROVE  Backlog(c)' <= Debt(c)'
BY Countable, BacklogIsAsked, BacklogNext DEF Debt

LEMMA BacklogServer ==
  ASSUME TypeOK, NEW c \in Client, Backlog(c) <= Debt(c), ServerStep \/ RestartStep
  PROVE  Backlog(c)' <= Debt(c)'
<1>0. /\ UNCHANGED clientPC /\ Asked(serverInbox, c) \in Nat /\ Len(inbox[c]) \in Nat
      /\ disruptions \in Nat /\ Backlog(c) = Asked(serverInbox, c) + Len(inbox[c])
      /\ Backlog(c)' = Asked(serverInbox', c) + Len(inbox'[c])
  BY Countable, BacklogIsAsked, BacklogNext
     DEF ServerStep, RestartStep, allClientVars, queryClientVars
<1>1. CASE AnswerRequest
  <2> DEFINE m == Head(serverInbox)
  <2>1. /\ m \in Request /\ m.type = "ProjectUpdateRequest" /\ serverInbox # <<>>
        /\ serverInbox' = Tail(serverInbox) /\ serverInbox \in Seq(Request)
        /\ UNCHANGED disruptions
        /\ inbox' = [inbox EXCEPT ![m.from] = Deliver(inbox[m.from], Answer(m.hash))]
    BY <1>1, ServerHeadType DEF AnswerRequest, TypeOK, QueryWireTypeOK
  <2>2. /\ Asked(serverInbox', c) <= Asked(serverInbox, c)
        /\ Asks(m, c) => Asked(serverInbox', c) + 1 <= Asked(serverInbox, c)
        /\ Asked(serverInbox', c) \in Nat
    <3>1. Tail(serverInbox) \in Seq(Request)
      BY <2>1, HeadTailProperties
    <3> QED
      BY <2>1, <3>1, AskedInTail, AskedIsFinite
  <2>3. inbox \in [Client -> Seq(Reply)] /\ m.from \in Client
    BY <2>1 DEF Request, TypeOK, QueryWireTypeOK
  <2>4. CASE m.from # c
    <3>1. inbox'[c] = inbox[c]
      BY <2>1, <2>3, <2>4
    <3> QED
      BY <1>0, <2>1, <2>2, <3>1 DEF Debt
  <2>5. CASE m.from = c
    <3>1. Asks(m, c)
      BY <2>1, <2>5 DEF Asks
    <3>2. inbox'[c] = Deliver(inbox[c], Answer(m.hash))
      BY <2>1, <2>3, <2>5
    <3>3. Answer(m.hash) \in Seq(Reply) /\ Len(Answer(m.hash)) <= 1 /\ Len(Answer(m.hash)) \in Nat
      <4>1. Answer(m.hash) \in Seq(Reply)
        BY AnswerType DEF TypeOK, MonitorTypeOK
      <4> QED
        BY <4>1, LenProperties DEF Answer, ProjectUpdates
    <3>4. Len(inbox'[c]) \in Nat /\ Len(inbox'[c]) <= Len(inbox[c]) + 1
      BY <2>3, <3>2, <3>3, DeliverLength, <1>0
    <3> QED
      BY <1>0, <2>1, <2>2, <3>1, <3>4 DEF Debt
  <2> QED
    BY <2>4, <2>5
<1>2. CASE AcceptVolunteer
  <2>1. /\ serverInbox # <<>> /\ serverInbox \in Seq(Request)
        /\ serverInbox' = Tail(serverInbox) /\ UNCHANGED <<inbox, disruptions>>
    BY <1>2 DEF AcceptVolunteer, TypeOK, QueryWireTypeOK
  <2>2. Asked(serverInbox', c) <= Asked(serverInbox, c) /\ Asked(serverInbox', c) \in Nat
    <3>1. Tail(serverInbox) \in Seq(Request)
      BY <2>1, HeadTailProperties
    <3> QED
      BY <2>1, <3>1, AskedInTail, AskedIsFinite
  <2> QED
    BY <1>0, <2>1, <2>2 DEF Debt
<1>3. CASE RestartStep
  <2>1. serverInbox' = <<>> /\ inbox' = inbox /\ disruptions' = disruptions + 1
    BY <1>3 DEF RestartStep, RestartServer, Disrupt
  <2>2. Asked(serverInbox', c) = 0
    BY <2>1, FS_EmptySet DEF Asked, AskedIn
  <2> QED
    BY <1>0, <2>1, <2>2 DEF Debt
<1>4. CASE StartServer \/ TakeSnapshot \/ Sleep
  BY <1>0, <1>4, BacklogFrame DEF StartServer, TakeSnapshot, Sleep, wireVars
<1> QED
  BY <1>1, <1>2, <1>3, <1>4 DEF ServerStep, QueryServerThread

LEMMA BacklogNetwork ==
  ASSUME TypeOK, NEW c \in Client, Backlog(c) <= Debt(c), NetworkStep
  PROVE  Backlog(c)' <= Debt(c)'
<1>0. /\ UNCHANGED clientPC /\ Asked(serverInbox, c) \in Nat /\ Len(inbox[c]) \in Nat
      /\ disruptions \in Nat /\ Backlog(c) = Asked(serverInbox, c) + Len(inbox[c])
      /\ Backlog(c)' = Asked(serverInbox', c) + Len(inbox'[c])
  BY Countable, BacklogIsAsked, BacklogNext DEF NetworkStep, allClientVars, queryClientVars
<1>1. CASE DisruptServerInbox
  <2>1. /\ serverInbox # <<>> /\ serverInbox \in Seq(Request)
        /\ serverInbox' \in Disrupted(serverInbox)
        /\ inbox' = inbox /\ disruptions' = disruptions + 1
    BY <1>1 DEF DisruptServerInbox, Disrupt, TypeOK, QueryWireTypeOK
  <2>2. serverInbox' \in Seq(Request)
    BY <2>1, DisruptedType
  <2>3. Asked(serverInbox', c) <= Asked(serverInbox, c) + 1 /\ Asked(serverInbox', c) \in Nat
    BY <2>1, <2>2, AskedInDisrupted, AskedIsFinite
  <2> QED
    BY <1>0, <2>1, <2>3 DEF Debt
<1>2. ASSUME NEW d \in Client, DisruptInbox(d) PROVE Backlog(c)' <= Debt(c)'
  <2>1. /\ serverInbox' = serverInbox /\ disruptions' = disruptions + 1
        /\ inbox[d] # <<>> /\ inbox \in [Client -> Seq(Reply)]
    BY <1>2 DEF DisruptInbox, Disrupt, TypeOK, QueryWireTypeOK
  <2>2. PICK r \in Disrupted(inbox[d]) : inbox' = [inbox EXCEPT ![d] = r]
    BY <1>2 DEF DisruptInbox
  <2>3. r \in Seq(Reply) /\ Len(r) \in Nat /\ Len(r) <= Len(inbox[d]) + 1
    BY <2>1, <2>2, DisruptedType, DisruptedLength
  <2>4. Len(inbox'[c]) \in Nat /\ Len(inbox'[c]) <= Len(inbox[c]) + 1
    BY <1>0, <2>1, <2>2, <2>3
  <2> QED
    BY <1>0, <2>1, <2>4 DEF Debt
<1> QED
  BY <1>1, <1>2 DEF NetworkStep

LEMMA BacklogThread ==
  ASSUME TypeOK, NEW c \in Client, Backlog(c) <= Debt(c), NEW d \in Client, ThreadStep(d)
  PROVE  Backlog(c)' <= Debt(c)'
<1>0. /\ Asked(serverInbox, c) \in Nat /\ Len(inbox[c]) \in Nat
      /\ disruptions \in Nat /\ Backlog(c) = Asked(serverInbox, c) + Len(inbox[c])
      /\ Backlog(c)' = Asked(serverInbox', c) + Len(inbox'[c])
  BY Countable, BacklogIsAsked, BacklogNext
<1>t. /\ serverInbox \in Seq(Request) /\ inbox \in [Client -> Seq(Reply)]
      /\ clientPC \in [Client -> {"request", "reply", "flush"}]
  BY DEF TypeOK, QueryWireTypeOK, QueryClientTypeOK
<1>1. CASE SendRequest(d)
  <2> DEFINE m == ProjectUpdateRequest(d, threadHash[d])
  <2>1. /\ ToServer(<<m>>) /\ UNCHANGED <<inbox, disruptions>>
        /\ clientPC[d] = "request" /\ clientPC' = [clientPC EXCEPT ![d] = "reply"]
    BY <1>1 DEF SendRequest, GoTo
  <2>2. m \in Request
    BY DEF ProjectUpdateRequest, Request, TypeOK, QueryClientTypeOK
  <2>3. serverInbox' = serverInbox \/ serverInbox' = Deliver(serverInbox, <<m>>)
    BY <2>1 DEF ToServer
  <2>4. Asked(serverInbox', c) \in Nat
    <3> HIDE DEF m
    <3>1. <<m>> \in Seq(Request)
      BY <2>2
    <3>2. Deliver(serverInbox, <<m>>) \in Seq(Request)
      BY <1>t, <3>1, DeliverType
    <3>3. Asked(Deliver(serverInbox, <<m>>), c) \in Nat
      BY <3>2, AskedIsFinite
    <3> QED
      BY <1>0, <2>3, <3>3
  <2>5. CASE d = c
    <3>1. Asked(serverInbox', c) <= Asked(serverInbox, c) + 1
      BY <1>0, <1>t, <2>2, <2>3, AskedOneMore
    <3>2. clientPC[c] = "request" /\ clientPC'[c] = "reply"
      BY <1>t, <2>1, <2>5
    <3> QED
      BY <1>0, <2>1, <2>4, <3>1, <3>2 DEF Debt
  <2>6. CASE d # c
    <3>1. ~Asks(m, c)
      BY <2>6 DEF Asks, ProjectUpdateRequest
    <3>2. Asked(Deliver(serverInbox, <<m>>), c) <= Asked(serverInbox, c)
      <4> HIDE DEF m
      <4>1. <<m>> \in Seq(Request)
        BY <2>2
      <4>2. \A i \in DOMAIN <<m>> : ~Asks(<<m>>[i], c)
        BY <3>1
      <4> QED
        BY <1>t, <4>1, <4>2, AskedNoMore
    <3>3. clientPC'[c] = clientPC[c]
      BY <1>t, <2>1, <2>6
    <3> QED
      BY <1>0, <2>1, <2>3, <2>4, <3>2, <3>3 DEF Debt
  <2> QED
    BY <2>5, <2>6
<1>2. CASE ReceiveReply(d)
  <2>1. /\ UNCHANGED <<serverInbox, disruptions>> /\ inbox[d] # <<>>
        /\ clientPC[d] = "reply" /\ clientPC' = [clientPC EXCEPT ![d] = "flush"]
        /\ inbox' = [inbox EXCEPT ![d] = Tail(inbox[d])]
    BY <1>2 DEF ReceiveReply, Receive, GoTo
  <2>2. CASE d = c
    <3>0. inbox[c] \in Seq(Reply) /\ inbox[c] # <<>>
      BY <1>t, <2>1, <2>2
    <3>1. Len(Tail(inbox[c])) = Len(inbox[c]) - 1
      BY <3>0, HeadTailProperties
    <3>2. clientPC[c] = "reply" /\ clientPC'[c] = "flush" /\ inbox'[c] = Tail(inbox[c])
      BY <1>t, <2>1, <2>2
    <3>3. Len(inbox'[c]) = Len(inbox[c]) - 1
      BY <3>1, <3>2
    <3>4. serverInbox' = serverInbox /\ disruptions' = disruptions
      BY <2>1
    <3>5. Debt(c) = disruptions + 1 /\ Debt(c)' = disruptions
      BY <1>0, <3>2, <3>4 DEF Debt
    <3>6. Backlog(c)' = Backlog(c) - 1
      BY <1>0, <3>3, <3>4
    <3> QED
      BY <1>0, <3>5, <3>6
  <2>3. CASE d # c
    BY <1>t, <2>1, <2>3, BacklogFrame
  <2> QED
    BY <2>2, <2>3
<1>3. CASE NoReply(d)
  <2>1. /\ UNCHANGED <<serverInbox, inbox>> /\ inbox[d] = <<>>
        /\ clientPC[d] = "reply" /\ clientPC' = [clientPC EXCEPT ![d] = "flush"]
        /\ IF AwaitsAnswer(d) THEN disruptions' = disruptions + 1
                              ELSE disruptions' = disruptions
    BY <1>3 DEF NoReply, GoTo, Disrupt
  <2>2. CASE d = c
    <3>0. inbox[c] = <<>>
      BY <2>1, <2>2
    <3>1. clientPC[c] = "reply" /\ clientPC'[c] = "flush" /\ Len(inbox[c]) = 0
      BY <1>t, <2>1, <2>2, EmptySeq
    <3>2. ~AwaitsAnswer(c) => Asked(serverInbox, c) = 0
      <4>1. ~AwaitsAnswer(c) => AskedIn(serverInbox, c) = {}
        BY DEF AwaitsAnswer, AskedIn, Asks
      <4> QED
        BY <4>1, FS_EmptySet DEF Asked
    <3> QED
      BY <1>0, <2>1, <2>2, <3>1, <3>2 DEF Debt
  <2>3. CASE d # c
    <3>1. disruptions' = disruptions \/ disruptions' = disruptions + 1
      BY <2>1
    <3> QED
      BY <1>t, <2>1, <2>3, <3>1, BacklogFrame
  <2> QED
    BY <2>2, <2>3
<1>4. CASE SendVolunteers(d)
  <2> DEFINE ms == [i \in DOMAIN outbox[d] |-> VolunteerAdded(d, outbox[d][i])]
  <2>1. /\ ToServer(ms) /\ UNCHANGED <<inbox, disruptions>>
        /\ clientPC[d] = "flush" /\ clientPC' = [clientPC EXCEPT ![d] = "request"]
    BY <1>4 DEF SendVolunteers, GoTo
  <2>2. ms \in Seq(Request)
    BY VolunteerMessages DEF TypeOK, ClientTypeOK
  <2>3. \A i \in DOMAIN ms : ~Asks(ms[i], c)
    BY DEF Asks, VolunteerAdded
  <2> HIDE DEF ms
  <2>4. /\ Deliver(serverInbox, ms) \in Seq(Request)
        /\ Asked(Deliver(serverInbox, ms), c) <= Asked(serverInbox, c)
    BY <1>t, <2>2, <2>3, DeliverType, AskedNoMore
  <2>5. Asked(serverInbox', c) \in Nat /\ Asked(serverInbox', c) <= Asked(serverInbox, c)
    BY <1>0, <2>1, <2>4, AskedIsFinite DEF ToServer
  <2>6. clientPC'[c] = "reply" <=> clientPC[c] = "reply"
    BY <1>t, <2>1
  <2> QED
    BY <1>0, <2>1, <2>5, <2>6 DEF Debt
<1> QED
  BY <1>1, <1>2, <1>3, <1>4 DEF ThreadStep, QueryClientThread

LEMMA BacklogStep ==
  TypeOK /\ BacklogIsCaused /\ [Next]_vars => BacklogIsCaused'
<1> SUFFICES ASSUME TypeOK, BacklogIsCaused, [Next]_vars, NEW c \in Client
             PROVE  Backlog(c)' <= Debt(c)'
  BY DEF BacklogIsCaused, Debt
<1>0. Backlog(c) <= Debt(c)
  BY DEF BacklogIsCaused, Debt
<1>1. CASE JenkinsStep \/ RefreshStep \/ UNCHANGED vars
  BY <1>0, <1>1, BacklogFrame DEF JenkinsStep, RefreshStep, vars, wireVars,
     allClientVars, queryClientVars
<1>2. CASE FailStep
  <2>1. Disrupt
    BY <1>2 DEF FailStep, RefreshFault, FailRefresh, MisreadProject
  <2> QED
    BY <1>0, <1>2, <2>1, BacklogFrame DEF FailStep, Disrupt, allClientVars,
       queryClientVars
<1>3. CASE ServerStep \/ RestartStep
  BY <1>0, <1>3, BacklogServer
<1>4. CASE NetworkStep
  BY <1>0, <1>4, BacklogNetwork
<1>5. ASSUME NEW d \in Client, ThreadStep(d) PROVE Backlog(c)' <= Debt(c)'
  BY <1>0, <1>5, BacklogThread
<1>6. ASSUME NEW d \in Client, RefreshClientStep(d) \/ VolunteerStep(d)
      PROVE  Backlog(c)' <= Debt(c)'
  BY <1>0, <1>6, BacklogFrame DEF RefreshClientStep, VolunteerStep, wireVars,
     queryClientVars
<1>7. ASSUME NEW d \in Client, ReconnectStep(d) PROVE Backlog(c)' <= Debt(c)'
  <2>1. /\ disruptions' = disruptions + 1 /\ serverInbox' = serverInbox
        /\ clientPC' = [clientPC EXCEPT ![d] = "request"]
        /\ inbox' = [inbox EXCEPT ![d] = <<>>]
    BY <1>7 DEF ReconnectStep, Reconnect, GoTo, Disrupt
  <2>2. /\ inbox \in [Client -> Seq(Reply)]
        /\ clientPC \in [Client -> {"request", "reply", "flush"}]
    BY DEF TypeOK, QueryWireTypeOK, QueryClientTypeOK
  <2>3. CASE d = c
    <3>1. Len(inbox'[c]) = 0 /\ clientPC'[c] = "request"
      BY <2>1, <2>2, <2>3, EmptySeq
    <3> QED
      BY <1>0, <2>1, <3>1, Countable, BacklogIsAsked, BacklogNext DEF Debt
  <2>4. CASE d # c
    BY <1>0, <2>1, <2>2, <2>4, BacklogFrame
  <2> QED
    BY <2>3, <2>4
<1> QED
  BY <1>1, <1>2, <1>3, <1>4, <1>5, <1>6, <1>7 DEF Next

\* A client is never further behind than something went wrong: each answer is
\* received in its own poll unless it is late, doubled or left over from before
\* a reconnect (monitor_client.rs:241-265).
THEOREM PollsKeepUp == Spec => []BacklogIsCaused
<1>1. Init => BacklogIsCaused
  <2> SUFFICES ASSUME Init, NEW c \in Client PROVE Backlog(c) <= Debt(c)
    BY DEF BacklogIsCaused, Debt
  <2>1. /\ Asked(serverInbox, c) = 0 /\ Len(inbox[c]) = 0
        /\ disruptions = 0 /\ clientPC[c] = "request"
    BY EmptySeq, FS_EmptySet
       DEF Init, WireInit, QueryClientInit, Asked, AskedIn
  <2> QED
    BY <2>1, BacklogIsAsked DEF Debt
<1> QED
  BY <1>1, BacklogStep, TypeCorrect, PTL DEF Spec

--------------------------------------------------------------------------------
\* The order of builds: the row of each client is kept by every step, whatever
\* the server and the client's thread do.

LEMMA OrderSource ==
  ASSUME TypeOK, SourceInOrder, [Next]_vars
  PROVE  /\ SourceInOrder'
         /\ \A l \in ProjectList : Behind(l) => Behind(l)'
<1> DEFINE Goal == SourceInOrder' /\ \A l \in ProjectList : Behind(l) => Behind(l)'
<1>0. JenkinsTypeOK /\ MonitorTypeOK
  BY DEF TypeOK
<1>1. ASSUME UNCHANGED <<jenkinsVars, projects, crawled>> PROVE Goal
  BY <1>0, <1>1, OrderFrame
<1>2. CASE JenkinsStep
  BY <1>0, <1>2, OrderJenkins DEF JenkinsStep, serverVars, monitorVars
<1>3. CASE RefreshStep \/ FailStep \/ RestartStep
  BY <1>0, <1>3, OrderRefresh DEF RefreshStep, FailStep, RestartStep, RestartServer
<1>4. CASE ServerStep
  <2>1. CASE AcceptVolunteer
    BY <1>0, <1>4, <2>1, OrderRecorded DEF ServerStep, AcceptVolunteer, crawlVars
  <2>2. CASE StartServer \/ TakeSnapshot \/ AnswerRequest \/ Sleep
    BY <1>1, <1>4, <2>2 DEF ServerStep, StartServer, TakeSnapshot, AnswerRequest, Sleep,
                            monitorVars, crawlVars
  <2> QED
    BY <1>4, <2>1, <2>2 DEF ServerStep, QueryServerThread
<1>5. CASE NetworkStep \/ UNCHANGED vars
  BY <1>1, <1>5 DEF NetworkStep, vars, serverVars, monitorVars
<1>6. ASSUME NEW d \in Client,
             \/ ThreadStep(d) \/ RefreshClientStep(d) \/ VolunteerStep(d) \/ ReconnectStep(d)
      PROVE  Goal
  BY <1>1, <1>6 DEF ThreadStep, RefreshClientStep, VolunteerStep, ReconnectStep,
                    serverVars, monitorVars
<1> QED
  BY <1>2, <1>3, <1>4, <1>5, <1>6 DEF Next

LEMMA ListInType ==
  ASSUME NEW m \in Reply
  PROVE  ListIn(m) \in ProjectList
BY EmptyListType DEF Reply, NoProjectUpdate, ListIn

\* The row of c after a step, against what the server had before it.
LEMMA RowStep ==
  ASSUME TypeOK, OrderInv, ~Reordering, [Next]_vars, NEW c \in Client
  PROVE  Row(shown'[c], slot'[c], inbox'[c])
<1> DEFINE Goal == Row(shown'[c], slot'[c], inbox'[c])
<1>1. /\ Row(shown[c], slot[c], inbox[c])
      /\ shown \in [Client -> ProjectList] /\ slot \in [Client -> ProjectList]
      /\ inbox \in [Client -> Seq(Reply)]
  BY DEF OrderInv, TypeOK, QueryWireTypeOK, ClientTypeOK
<1>2. ASSUME shown'[c] = shown[c], slot'[c] = slot[c], inbox'[c] = inbox[c] PROVE Goal
  BY <1>1, <1>2
<1>3. CASE JenkinsStep \/ RefreshStep \/ FailStep \/ RestartStep \/ UNCHANGED vars
  BY <1>2, <1>3 DEF JenkinsStep, RefreshStep, FailStep, RestartStep, RestartServer,
     vars, wireVars, allClientVars, clientVars
<1>4. CASE ServerStep
  <2>0. UNCHANGED <<shown, slot>>
    BY <1>4 DEF ServerStep, allClientVars, clientVars
  <2>1. CASE AnswerRequest
    <3> DEFINE m == Head(serverInbox)
               ms == Answer(m.hash)
    <3>1. m.from \in Client /\ inbox' = [inbox EXCEPT ![m.from] = Deliver(inbox[m.from], ms)]
      <4>1. m \in Request /\ m.type = "ProjectUpdateRequest"
        BY <2>1, ServerHeadType DEF AnswerRequest, TypeOK
      <4> QED
        BY <2>1, <4>1 DEF AnswerRequest, Request
    <3>2. CASE m.from # c
      BY <1>1, <1>2, <2>0, <3>1, <3>2
    <3>3. CASE m.from = c
      <4>1. ms \in Seq(Reply)
        BY AnswerType DEF TypeOK, MonitorTypeOK
      <4>2. Len(ms) <= 1 /\ \A i \in DOMAIN ms : ListIn(ms[i]) \in {projects, EmptyList}
        BY DEF Answer, ProjectUpdates, ProjectUpdate, NoProjectUpdate, ListIn
      <4> HIDE DEF ms
      <4>3. Behind(projects)
        BY ProjectsBehind DEF OrderInv, TypeOK
      <4>4. inbox'[c] = Deliver(inbox[c], ms)
        BY <1>1, <3>1, <3>3
      <4>5. Row(shown[c], slot[c], Deliver(inbox[c], ms))
        BY <1>1, <4>1, <4>2, <4>3, RowDelivered
      <4> QED
        BY <2>0, <4>4, <4>5
    <3> QED
      BY <3>2, <3>3
  <2>2. CASE StartServer \/ TakeSnapshot \/ AcceptVolunteer \/ Sleep
    BY <1>2, <2>0, <2>2 DEF StartServer, TakeSnapshot, AcceptVolunteer, Sleep, wireVars
  <2> QED
    BY <1>4, <2>1, <2>2 DEF ServerStep, QueryServerThread
<1>5. CASE NetworkStep
  <2>0. UNCHANGED <<shown, slot>>
    BY <1>5 DEF NetworkStep, allClientVars, clientVars
  <2>1. CASE DisruptServerInbox
    BY <1>2, <2>0, <2>1 DEF DisruptServerInbox
  <2>2. ASSUME NEW d \in Client, DisruptInbox(d) PROVE Goal
    <3>1. inbox[d] # <<>> /\ inbox' = [inbox EXCEPT ![d] = Tail(inbox[d])]
      BY <2>2 DEF DisruptInbox, Disrupted
    <3>2. CASE d # c
      BY <1>1, <1>2, <2>0, <3>1, <3>2
    <3>3. CASE d = c
      <4>1. inbox'[c] = Tail(inbox[c])
        BY <1>1, <3>1, <3>3
      <4>2. Row(shown[c], slot[c], Tail(inbox[c]))
        BY <1>1, <3>1, <3>3, RowReceived
      <4> QED
        BY <2>0, <4>1, <4>2
    <3> QED
      BY <3>2, <3>3
  <2> QED
    BY <1>5, <2>1, <2>2 DEF NetworkStep
<1>6. ASSUME NEW d \in Client, ThreadStep(d) PROVE Goal
  <2>1. CASE ReceiveReply(d)
    <3>1. /\ inbox[d] # <<>> /\ UNCHANGED shown
          /\ inbox' = [inbox EXCEPT ![d] = Tail(inbox[d])]
          /\ \/ slot' = [slot EXCEPT ![d] = ListIn(Head(inbox[d]))]
             \/ slot' = slot
      BY <2>1 DEF ReceiveReply, Receive, TakeUpdate, FillSlot, ListIn
    <3>2. CASE d # c
      BY <1>1, <1>2, <3>1, <3>2
    <3>3. CASE d = c
      <4>1. inbox'[c] = Tail(inbox[c]) /\ slot'[c] \in {slot[c], ListIn(Head(inbox[c]))}
        BY <1>1, <3>1, <3>3
      <4>2. /\ Row(shown[c], slot[c], Tail(inbox[c]))
            /\ Row(shown[c], ListIn(Head(inbox[c])), Tail(inbox[c]))
        BY <1>1, <3>1, <3>3, RowReceived
      <4> QED
        BY <3>1, <4>1, <4>2
    <3> QED
      BY <3>2, <3>3
  <2>2. CASE SendRequest(d) \/ NoReply(d) \/ SendVolunteers(d)
    BY <1>2, <2>2 DEF SendRequest, NoReply, SendVolunteers, clientVars
  <2> QED
    BY <1>6, <2>1, <2>2 DEF ThreadStep, QueryClientThread
<1>7. ASSUME NEW d \in Client, RefreshClientStep(d) \/ VolunteerStep(d) PROVE Goal
  <2>1. UserOf(d) /\ UNCHANGED inbox
    BY <1>7 DEF RefreshClientStep, VolunteerStep, UserOf, wireVars
  <2> QED
    BY <1>1, <2>1, RowOfUser DEF TypeOK
<1>8. ASSUME NEW d \in Client, ReconnectStep(d) PROVE Goal
  <2>1. /\ inbox' = [inbox EXCEPT ![d] = <<>>]
        /\ shown' = [shown EXCEPT ![d] = EmptyList]
        /\ slot' = [slot EXCEPT ![d] = EmptyList]
    BY <1>8 DEF ReconnectStep, Reconnect, RenewMonitor
  <2>2. CASE d # c
    BY <1>1, <1>2, <2>1, <2>2
  <2>3. CASE d = c
    BY <1>1, <2>1, <2>3, RowEmpty
  <2> QED
    BY <2>2, <2>3
<1> QED
  BY <1>3, <1>4, <1>5, <1>6, <1>7, <1>8 DEF Next

LEMMA OrderStep ==
  ASSUME TypeOK, TypeOK', OrderInv, ~Reordering, [Next]_vars
  PROVE  OrderInv'
<1>1. SourceInOrder' /\ \A l \in ProjectList : Behind(l) => Behind(l)'
  BY OrderSource DEF OrderInv
<1>2. ASSUME NEW c \in Client PROVE Row(shown[c], slot[c], inbox[c])'
  <2>1. Row(shown'[c], slot'[c], inbox'[c])
    BY RowStep
  <2>2. /\ shown'[c] \in ProjectList /\ slot'[c] \in ProjectList
        /\ \A i \in DOMAIN inbox'[c] : ListIn(inbox'[c][i]) \in ProjectList
    <3>1. inbox'[c] \in Seq(Reply) /\ shown'[c] \in ProjectList /\ slot'[c] \in ProjectList
      BY DEF TypeOK, QueryWireTypeOK, ClientTypeOK
    <3>2. \A i \in DOMAIN inbox'[c] : inbox'[c][i] \in Reply
      BY <3>1, ElementOfSeq, LenProperties
    <3> QED
      BY <3>1, <3>2, ListInType
  <2>3. /\ Behind(shown[c])' /\ Behind(slot[c])'
        /\ \A i \in DOMAIN inbox'[c] : Behind(ListIn(inbox[c][i]))'
    BY <1>1, <2>1, <2>2 DEF Row, Behind, Older, Passed, ListIn
  <2> QED
    BY <2>1, <2>3 DEF Row, Older, ListIn
<1> QED
  BY <1>1, <1>2 DEF OrderInv

LEMMA ShownStep ==
  ASSUME TypeOK, OrderInv, [Next]_vars
  PROVE  ShowsNothingOlder
<1> SUFFICES ASSUME NEW c \in Client
             PROVE  SameTimes(shown'[c], shown[c]) \/ shown'[c] \in {slot[c], EmptyList}
  BY ShownIsNoOlder DEF ShowsNothingOlder, OrderInv, Row, TypeOK
<1>1. ASSUME shown' = shown PROVE SameTimes(shown'[c], shown[c])
  BY <1>1 DEF SameTimes
<1>2. CASE JenkinsStep \/ RefreshStep \/ FailStep \/ ServerStep \/ RestartStep
           \/ NetworkStep \/ UNCHANGED vars
  BY <1>1, <1>2 DEF JenkinsStep, RefreshStep, FailStep, ServerStep, RestartStep,
     NetworkStep, vars, allClientVars, clientVars
<1>3. ASSUME NEW d \in Client, ThreadStep(d) PROVE shown' = shown
  BY <1>3 DEF ThreadStep, QueryClientThread, SendRequest, ReceiveReply, NoReply,
     SendVolunteers, clientVars
<1>4. ASSUME NEW d \in Client,
             RefreshClientStep(d) \/ VolunteerStep(d) \/ ReconnectStep(d)
      PROVE  SameTimes(shown'[c], shown[c]) \/ shown'[c] \in {slot[c], EmptyList}
  <2>1. UserOf(d)
    BY <1>4 DEF RefreshClientStep, VolunteerStep, ReconnectStep, Reconnect, UserOf
  <2> QED
    BY <2>1, ShownByUser DEF TypeOK
<1> QED
  BY <1>1, <1>2, <1>3, <1>4 DEF Next

\* What a client shows of a project is never replaced by an earlier build: polls,
\* late answers, failed refreshes and restarts do not mix old lists in, if the
\* network keeps the order of datagrams (monitor.rs:85-92, 101-147;
\* monitor_client.rs:241-265).
THEOREM ShownGoesForward ==
  ASSUME Reordering = FALSE
  PROVE  Spec => NeverGoesBack
<1>1. TypeOK /\ TypeOK' /\ OrderInv /\ [Next]_vars => OrderInv'
  BY OrderStep
<1>2. TypeOK /\ OrderInv /\ [Next]_vars => [ShowsNothingOlder]_vars
  BY ShownStep
<1>3. Init => OrderInv
  BY OrderInit DEF Init
<1> QED
  BY <1>1, <1>2, <1>3, TypeCorrect, PTL DEF Spec, NeverGoesBack

--------------------------------------------------------------------------------
\* QueryFeed implements ProjectBoard: every step of it is a step of the board or
\* leaves it alone.  Of the invariant OnTheBoard the proof needs that a list on its
\* way to a client, in a datagram or in the slot, is one the server has had.

\* The replies that carry a list in S.
ReplyFrom(S) == {NoProjectUpdate} \cup [type : {"ProjectUpdate"}, projects : S]

BoardInv == /\ TypeOK
            /\ projects \in past /\ EmptyList \in past
            /\ slot \in [Client -> past]
            /\ inbox \in [Client -> Seq(ReplyFrom(past))]

LEMMA BoardInvInit == BoardFeedInit => BoardInv
<1> SUFFICES ASSUME BoardFeedInit PROVE BoardInv
  OBVIOUS
<1>1. TypeOK
  BY InitType DEF BoardFeedInit
<1> QED
  BY <1>1, EmptySeq DEF BoardFeedInit, Init, MonitorInit, ClientInit, WireInit, BoardInv

LEMMA MoreReplies ==
  ASSUME NEW S, NEW T, S \subseteq T
  PROVE  Seq(ReplyFrom(S)) \subseteq Seq(ReplyFrom(T))
<1>1. ReplyFrom(S) \subseteq ReplyFrom(T)
  BY DEF ReplyFrom
<1> QED
  BY <1>1, SeqMonotonic

\* The server answers with the list it has.
LEMMA AnswerFromPast ==
  ASSUME projects \in past, NEW h
  PROVE  Answer(h) \in Seq(ReplyFrom(past))
<1>1. NoProjectUpdate \in ReplyFrom(past) /\ ProjectUpdate(projects) \in ReplyFrom(past)
  BY DEF ReplyFrom, ProjectUpdate
<1> QED
  BY <1>1, EmptySeq DEF Answer, ProjectUpdates

--------------------------------------------------------------------------------
\* Whatever the step, no list comes from elsewhere than from the server.
OnTheirWay(P) == slot' \in [Client -> P] /\ inbox' \in [Client -> Seq(ReplyFrom(P))]

LEMMA ServerStepOnBoard == BoardInv /\ ServerStep => OnTheirWay(past)
<1> SUFFICES ASSUME BoardInv, ServerStep PROVE OnTheirWay(past)
  OBVIOUS
<1> USE DEF BoardInv, OnTheirWay
<1>1. slot' \in [Client -> past]
  BY DEF ServerStep, allClientVars, clientVars
<1>2. CASE AnswerRequest
  <2> DEFINE m == Head(serverInbox)
  <2>1. m \in Request
    BY <1>2, ServerHeadType DEF AnswerRequest, TypeOK
  <2>2. m.from \in Client
    BY <2>1 DEF Request
  <2>3. inbox' = [inbox EXCEPT ![m.from] = Deliver(inbox[m.from], Answer(m.hash))]
    BY <1>2 DEF AnswerRequest
  <2>4. Deliver(inbox[m.from], Answer(m.hash)) \in Seq(ReplyFrom(past))
    BY <2>2, AnswerFromPast, DeliverType
  <2> QED
    BY <1>1, <2>2, <2>3, <2>4
<1>3. CASE ~AnswerRequest
  <2>1. UNCHANGED inbox
    BY <1>3 DEF ServerStep, StartServer, QueryServerThread, TakeSnapshot,
                AcceptVolunteer, Sleep, wireVars
  <2> QED
    BY <1>1, <2>1
<1> QED
  BY <1>2, <1>3

LEMMA NetworkStepOnBoard == BoardInv /\ NetworkStep => OnTheirWay(past)
<1> SUFFICES ASSUME BoardInv, NetworkStep PROVE OnTheirWay(past)
  OBVIOUS
<1> USE DEF BoardInv, OnTheirWay
<1>1. slot' \in [Client -> past]
  BY DEF NetworkStep, allClientVars, clientVars
<1>2. CASE DisruptServerInbox
  BY <1>1, <1>2 DEF DisruptServerInbox
<1>3. ASSUME NEW c \in Client, DisruptInbox(c) PROVE OnTheirWay(past)
  <2>1. PICK q \in Disrupted(inbox[c]) : inbox' = [inbox EXCEPT ![c] = q]
    BY <1>3 DEF DisruptInbox
  <2>2. inbox[c] \in Seq(ReplyFrom(past)) /\ inbox[c] # <<>>
    BY <1>3 DEF DisruptInbox
  <2>3. q \in Seq(ReplyFrom(past))
    BY <2>1, <2>2, DisruptedType
  <2> QED
    BY <1>1, <2>1, <2>3
<1> QED
  BY <1>2, <1>3 DEF NetworkStep

LEMMA ThreadStepOnBoard ==
  ASSUME NEW c \in Client
  PROVE  BoardInv /\ ThreadStep(c) => OnTheirWay(past)
<1> SUFFICES ASSUME BoardInv, ThreadStep(c) PROVE OnTheirWay(past)
  OBVIOUS
<1> USE DEF BoardInv, OnTheirWay
<1>1. CASE ReceiveReply(c)
  <2> DEFINE m == Head(inbox[c])
  <2>1. inbox[c] \in Seq(ReplyFrom(past)) /\ inbox[c] # <<>> /\ Len(inbox[c]) <= Buffer
    BY <1>1 DEF ReceiveReply, TypeOK, QueryWireTypeOK
  <2>2. m \in ReplyFrom(past) /\ Tail(inbox[c]) \in Seq(ReplyFrom(past))
    BY <2>1, TailType
  <2>3. inbox' = [inbox EXCEPT ![c] = Tail(inbox[c])]
    BY <1>1 DEF ReceiveReply, Receive
  <2>4. slot' \in [Client -> past]
    <3>1. CASE m.type = "ProjectUpdate"
      <4>1. m.projects \in past
        BY <2>2, <3>1 DEF ReplyFrom, NoProjectUpdate
      <4> QED
        BY <1>1, <3>1, <4>1 DEF ReceiveReply, Receive, TakeUpdate, FillSlot
    <3>2. CASE m.type # "ProjectUpdate"
      BY <1>1, <3>2 DEF ReceiveReply, Receive
    <3> QED
      BY <3>1, <3>2
  <2> QED
    BY <2>2, <2>3, <2>4
<1>2. CASE ~ReceiveReply(c)
  BY <1>2 DEF ThreadStep, QueryClientThread, SendRequest, NoReply, SendVolunteers,
              clientVars
<1> QED
  BY <1>1, <1>2

LEMMA StepOnBoard == BoardInv /\ [Next]_vars => OnTheirWay(past)
<1> SUFFICES ASSUME BoardInv, [Next]_vars PROVE OnTheirWay(past)
  OBVIOUS
<1> USE DEF BoardInv, OnTheirWay
<1>1. ASSUME UNCHANGED <<slot, inbox>> PROVE OnTheirWay(past)
  BY <1>1
<1>2. CASE JenkinsStep \/ RefreshStep \/ FailStep \/ RestartStep \/ UNCHANGED vars
  BY <1>1, <1>2 DEF JenkinsStep, RefreshStep, FailStep, RestartStep, RestartServer,
     vars, wireVars, allClientVars, clientVars
<1>3. CASE ServerStep
  BY <1>3, ServerStepOnBoard
<1>4. CASE NetworkStep
  BY <1>4, NetworkStepOnBoard
<1>5. ASSUME NEW c \in Client, ThreadStep(c) PROVE OnTheirWay(past)
  BY <1>5, ThreadStepOnBoard
<1>6. ASSUME NEW c \in Client, RefreshClientStep(c) PROVE OnTheirWay(past)
  BY <1>6 DEF RefreshClientStep, RefreshClient, wireVars
<1>7. ASSUME NEW c \in Client, VolunteerStep(c) PROVE OnTheirWay(past)
  BY <1>1, <1>7 DEF VolunteerStep, SetVolunteering, wireVars
<1>8. ASSUME NEW c \in Client, ReconnectStep(c) PROVE OnTheirWay(past)
  BY <1>8, EmptySeq DEF ReconnectStep, Reconnect, RenewMonitor
<1> QED
  BY <1>2, <1>3, <1>4, <1>5, <1>6, <1>7, <1>8 DEF Next

LEMMA BoardInvStep == BoardInv /\ [BoardFeedNext]_boardFeedVars => BoardInv'
<1> SUFFICES ASSUME BoardInv, [BoardFeedNext]_boardFeedVars PROVE BoardInv'
  OBVIOUS
<1>1. [Next]_vars /\ past \subseteq past' /\ projects' \in past'
  BY DEF BoardFeedNext, boardFeedVars, BoardInv, vars, serverVars, monitorVars
<1>2. TypeOK'
  BY <1>1, StepType DEF BoardInv
<1>3. OnTheirWay(past)
  BY <1>1, StepOnBoard
<1>4. Seq(ReplyFrom(past)) \subseteq Seq(ReplyFrom(past'))
  BY <1>1, MoreReplies
<1>5. slot' \in [Client -> past'] /\ inbox' \in [Client -> Seq(ReplyFrom(past'))]
  BY <1>1, <1>3, <1>4 DEF OnTheirWay
<1> QED
  BY <1>1, <1>2, <1>5 DEF BoardInv
--------------------------------------------------------------------------------
\* A step that shows nobody anything is a change of the board, or nothing.
LEMMA ChangeStep ==
  ASSUME BoardInv', past' = past \cup {projects'}, UNCHANGED shown
  PROVE  Board!Change
BY DEF BoardInv, TypeOK, MonitorTypeOK, Board!Change

LEMMA BoardStep ==
  BoardInv /\ BoardInv' /\ [BoardFeedNext]_boardFeedVars
    => [Board!BoardNext]_<<projects, past, shown>>
<1> SUFFICES ASSUME BoardInv, BoardInv', [BoardFeedNext]_boardFeedVars
             PROVE  [Board!BoardNext]_<<projects, past, shown>>
  OBVIOUS
<1>1. CASE UNCHANGED boardFeedVars
  BY <1>1 DEF boardFeedVars, vars, serverVars, monitorVars, allClientVars, clientVars
<1> SUFFICES ASSUME BoardFeedNext PROVE [Board!BoardNext]_<<projects, past, shown>>
  BY <1>1
<1>2. Next /\ past' = past \cup {projects'}
  BY DEF BoardFeedNext
<1>3. CASE UNCHANGED shown
  BY <1>2, <1>3, ChangeStep DEF Board!BoardNext
<1>4. UNCHANGED projects => past' = past
  BY <1>2 DEF BoardInv
<1>5. shown \in [Client -> ProjectList] /\ slot \in [Client -> past]
  BY DEF BoardInv, TypeOK, ClientTypeOK
<1>6. ASSUME NEW c \in Client, RefreshClientStep(c)
      PROVE  [Board!BoardNext]_<<projects, past, shown>>
  <2>1. UNCHANGED projects /\ shown' = [shown EXCEPT ![c] = Taken(c)]
    BY <1>6 DEF RefreshClientStep, RefreshClient, serverVars, monitorVars
  <2>2. CASE slot[c] # EmptyList
    <3>1. Board!Look(c)
      BY <1>4, <1>5, <2>1, <2>2 DEF Taken, Board!Look
    <3> QED
      BY <3>1 DEF Board!BoardNext
  <2>3. CASE slot[c] = EmptyList
    BY <1>3, <1>5, <2>1, <2>3 DEF Taken
  <2> QED
    BY <2>2, <2>3
<1>7. ASSUME NEW c \in Client, VolunteerStep(c)
      PROVE  [Board!BoardNext]_<<projects, past, shown>>
  <2>1. PICK p \in Project : SetVolunteering(c, p)
    BY <1>7 DEF VolunteerStep
  <2>2. UNCHANGED projects /\ shown' = [shown EXCEPT ![c] = SetVolunteer(shown[c], p, c)]
    BY <1>7, <2>1 DEF VolunteerStep, SetVolunteering, serverVars, monitorVars
  <2>3. Board!Sign(c)
    BY <1>4, <2>2 DEF Board!Sign
  <2> QED
    BY <2>3 DEF Board!BoardNext
<1>8. ASSUME NEW c \in Client, ReconnectStep(c)
      PROVE  [Board!BoardNext]_<<projects, past, shown>>
  <2>1. UNCHANGED projects /\ shown' = [shown EXCEPT ![c] = EmptyList]
    BY <1>8 DEF ReconnectStep, Reconnect, RenewMonitor, serverVars, monitorVars
  <2>2. Board!Forget(c)
    BY <1>4, <2>1 DEF Board!Forget
  <2> QED
    BY <2>2 DEF Board!BoardNext
<1>9. ASSUME NEW c \in Client, ThreadStep(c) PROVE UNCHANGED shown
  BY <1>9 DEF ThreadStep, QueryClientThread, SendRequest, ReceiveReply, NoReply,
              SendVolunteers, clientVars
<1>10. ASSUME JenkinsStep \/ RefreshStep \/ FailStep \/ ServerStep \/ RestartStep
              \/ NetworkStep
       PROVE  UNCHANGED shown
  BY <1>10 DEF JenkinsStep, RefreshStep, FailStep, ServerStep, RestartStep,
               NetworkStep, allClientVars, clientVars
<1> QED
  BY <1>2, <1>3, <1>6, <1>7, <1>8, <1>9, <1>10 DEF Next

LEMMA BoardInit == BoardFeedInit => Board!BoardInit
BY DEF BoardFeedInit, Init, MonitorInit, ClientInit, Board!BoardInit

\* The lists on their way to a client, in a datagram or in the slot its thread
\* leaves them in, are lists the server has had (monitor_server.rs:48-69,
\* monitor_client.rs:245-260).
THEOREM ListsComeFromTheBoard == BoardFeedSpec => []OnTheBoard
<1>1. BoardInv => OnTheBoard
  <2> SUFFICES ASSUME BoardInv, NEW c \in Client
               PROVE  /\ slot[c] \in past
                      /\ \A i \in DOMAIN inbox[c] :
                           inbox[c][i].type = "ProjectUpdate" =>
                             inbox[c][i].projects \in past
    BY DEF BoardInv, OnTheBoard
  <2>1. inbox[c] \in Seq(ReplyFrom(past)) /\ slot[c] \in past
    BY DEF BoardInv
  <2>2. \A i \in DOMAIN inbox[c] : inbox[c][i] \in ReplyFrom(past)
    BY <2>1, ElementOfSeq, LenProperties
  <2> QED
    BY <2>1, <2>2 DEF ReplyFrom, NoProjectUpdate
<1> QED
  BY BoardInvInit, BoardInvStep, <1>1, PTL DEF BoardFeedSpec

\* What every client shows is a whole list the server once had, with nothing
\* added but the client's own name: QueryFeed implements ProjectBoard.
THEOREM QueryFeedIsABoard == BoardFeedSpec => BoardSpec
<1>1. BoardFeedInit => Board!BoardInit
  BY BoardInit
<1>2. BoardInv /\ BoardInv' /\ [BoardFeedNext]_boardFeedVars
        => [Board!BoardNext]_<<projects, past, shown>>
  BY BoardStep
<1> QED
  BY BoardInvInit, BoardInvStep, <1>1, <1>2, PTL
     DEF BoardFeedSpec, BoardSpec, Board!BoardSpec, Board!boardVars
================================================================================
