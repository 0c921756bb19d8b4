----------------------------- MODULE MonitorProofs -----------------------------
(***************************************************************************)
(* What is kept in both modes: the types of the sockets' queues, of        *)
(* Jenkins, and of the server's Monitor; the volunteers; the order of the  *)
(* lists on their way from Jenkins to what is shown.                       *)
(***************************************************************************)
EXTENDS ServerMonitor, ClientMonitorProofs

--------------------------------------------------------------------------------
\* A queue of datagrams of some kind is still one after more of them arrive,
\* and never longer than the buffer.
LEMMA DeliverType ==
  ASSUME NEW S, NEW q \in Seq(S), NEW ms \in Seq(S)
  PROVE  Deliver(q, ms) \in Seq(S) /\ Len(Deliver(q, ms)) <= Buffer
<1> DEFINE all == q \o ms
           n == IF Len(all) <= Buffer THEN Len(all) ELSE Buffer
<1>1. all \in Seq(S)
  BY ConcatProperties
<1>2. Len(all) \in Nat /\ Buffer \in Nat
  BY <1>1, LenProperties, WireBounds
<1>3. n \in Nat /\ n <= Len(all) /\ n <= Buffer
  BY <1>2
<1>4. \A i \in 1..n : all[i] \in S
  BY <1>1, <1>2, <1>3, ElementOfSeq
<1> HIDE DEF all, n
<1>5. SubSeq(all, 1, n) \in Seq(S) /\ Len(SubSeq(all, 1, n)) = (IF 1 <= n THEN n - 1 + 1 ELSE 0)
  BY <1>3, <1>4, SubSeqProperties
<1>6. Len(SubSeq(all, 1, n)) <= Buffer
  BY <1>2, <1>3, <1>5
<1> QED BY <1>5, <1>6 DEF Deliver, all, n

\* The elements of a queue after more arrive: at most those of both.
LEMMA DeliverElements ==
  ASSUME NEW S, NEW q \in Seq(S), NEW ms \in Seq(S)
  PROVE  /\ DOMAIN Deliver(q, ms) \subseteq 1..(Len(q) + Len(ms))
         /\ \A i \in DOMAIN Deliver(q, ms) :
              Deliver(q, ms)[i] = IF i <= Len(q) THEN q[i] ELSE ms[i - Len(q)]
<1> DEFINE all == q \o ms
           n == IF Len(all) <= Buffer THEN Len(all) ELSE Buffer
<1>1. /\ all \in Seq(S) /\ Len(all) = Len(q) + Len(ms)
      /\ \A i \in 1..(Len(q) + Len(ms)) :
           all[i] = IF i <= Len(q) THEN q[i] ELSE ms[i - Len(q)]
  BY ConcatProperties
<1>2. Len(all) \in Nat /\ Buffer \in Nat
  BY <1>1, LenProperties, WireBounds
<1>3. n \in Nat /\ n <= Len(all)
  BY <1>2
<1>4. \A i \in 1..n : all[i] \in S
  BY <1>1, <1>2, <1>3, ElementOfSeq
<1>5. Deliver(q, ms) = SubSeq(all, 1, n)
  BY DEF Deliver
<1> HIDE DEF all, n
<1>6. /\ SubSeq(all, 1, n) \in Seq(S)
      /\ Len(SubSeq(all, 1, n)) = (IF 1 <= n THEN n - 1 + 1 ELSE 0)
      /\ \A i \in 1..(n - 1 + 1) : SubSeq(all, 1, n)[i] = all[1 + i - 1]
  BY <1>3, <1>4, SubSeqProperties
<1>7. Len(SubSeq(all, 1, n)) = n
  BY <1>3, <1>6
<1>8. DOMAIN SubSeq(all, 1, n) = 1..n
  BY <1>6, <1>7, LenProperties
<1>9. \A i \in 1..n : SubSeq(all, 1, n)[i] = all[i]
  BY <1>3, <1>6
<1>10. 1..n \subseteq 1..(Len(q) + Len(ms))
  BY <1>1, <1>3, <1>2
<1> QED
  BY <1>1, <1>5, <1>8, <1>9, <1>10

\* ... and after the first one is taken, or the network has played with it.
LEMMA TailType ==
  ASSUME NEW S, NEW q \in Seq(S), q # <<>>, Len(q) <= Buffer
  PROVE  /\ Head(q) \in S
         /\ Tail(q) \in Seq(S)
         /\ Len(Tail(q)) <= Buffer
<1>1. Len(q) \in Nat /\ Buffer \in Nat
  BY LenProperties, WireBounds
<1> QED BY <1>1, HeadTailProperties

LEMMA DisruptedType ==
  ASSUME NEW S, NEW q \in Seq(S), q # <<>>, NEW r \in Disrupted(q)
  PROVE  r \in Seq(S)
<1>1. Head(q) \in S /\ Tail(q) \in Seq(S)
  BY HeadTailProperties
<1>2. Append(Tail(q), Head(q)) \in Seq(S) /\ Append(q, Head(q)) \in Seq(S)
  BY <1>1, AppendProperties
<1> QED BY <1>1, <1>2 DEF Disrupted

\* The messages queued for each volunteering are a sequence of messages.
LEMMA VolunteerMessages ==
  ASSUME NEW c \in Client, NEW ps \in Seq(Project)
  PROVE  [i \in DOMAIN ps |-> VolunteerAdded(c, ps[i])] \in Seq(Request)
<1>1. Len(ps) \in Nat /\ DOMAIN ps = 1..Len(ps) /\ ps \in [1..Len(ps) -> Project]
  BY LenProperties
<1>2. [i \in DOMAIN ps |-> VolunteerAdded(c, ps[i])] \in [1..Len(ps) -> Request]
  BY <1>1 DEF VolunteerAdded, Request
<1> QED BY <1>1, <1>2

LEMMA RequestType ==
  ASSUME NEW c \in Client, NEW h \in ProjectHash \cup {ZeroHash}
  PROVE  <<ProjectUpdateRequest(c, h)>> \in Seq(Request)
BY DEF ProjectUpdateRequest, Request

LEMMA DisruptType ==
  ASSUME disruptions \in 0..MaxDisruptions, Disrupt
  PROVE  disruptions' \in 0..MaxDisruptions
BY WireBounds DEF Disrupt

LEMMA JenkinsInitType == JenkinsInit => JenkinsTypeOK
BY DataBounds DEF JenkinsInit, JenkinsTypeOK, NotBuilt, Build, Status, Time

\* What happens in Jenkins.
LEMMA JenkinsType ==
  ASSUME JenkinsTypeOK, JenkinsNext
  PROVE  JenkinsTypeOK'
<1> USE DataBounds DEF JenkinsTypeOK, Tick, Time, Build
<1>1. PICK p \in Project : FinishBuild(p) \/ AddJob(p) \/ DeleteJob(p)
  BY DEF JenkinsNext
<1>2. CASE FinishBuild(p)
  BY <1>2, JenkinsStatusIsStatus DEF FinishBuild
<1>3. CASE AddJob(p)
  BY <1>3 DEF AddJob
<1>4. CASE DeleteJob(p)
  BY <1>4 DEF DeleteJob, NotBuilt, Status
<1> QED BY <1>1, <1>2, <1>3, <1>4

LEMMA MonitorInitType == MonitorInit => MonitorTypeOK
BY EmptyListType DEF MonitorInit, MonitorTypeOK, RefreshPC

LEMMA RestartType == RestartMonitor => MonitorTypeOK'
BY EmptyListType DEF RestartMonitor, MonitorTypeOK, RefreshPC

\* What a job is read as: its last build, or no build, or one without a status.
LEMMA TakenBuild ==
  ASSUME JenkinsTypeOK, NEW p \in Project, ReadProject(p) \/ MisreadProject(p)
  PROVE  \E b \in Build : Take(p, b) /\ b.timestamp \in {0, build[p].timestamp}
<1>1. build[p] \in Build
  BY DEF JenkinsTypeOK
<1>2. CASE Take(p, build[p])
  BY <1>1, <1>2
<1>3. CASE Take(p, NotBuilt)
  <2>1. NotBuilt \in Build /\ NotBuilt.timestamp = 0
    BY DataBounds DEF NotBuilt, Build, Status, Time
  <2> QED
    BY <1>3, <2>1
<1>4. CASE Take(p, [build[p] EXCEPT !.status = "Unknown"])
  <2> DEFINE b == [build[p] EXCEPT !.status = "Unknown"]
  <2>1. b \in Build /\ b.timestamp = build[p].timestamp
    BY <1>1 DEF Build, Status
  <2> QED
    BY <1>4, <2>1
<1> QED
  BY <1>2, <1>3, <1>4 DEF ReadProject, MisreadProject

LEMMA TakeType ==
  ASSUME MonitorTypeOK, NEW p \in Project, NEW b \in Build, Take(p, b)
  PROVE  MonitorTypeOK'
<1> USE DEF MonitorTypeOK, RefreshPC
<1>1. DOMAIN crawled \in SUBSET Project /\ crawled \in [DOMAIN crawled -> Entry]
  BY ListElim
<1>2. crawled' \in [DOMAIN crawled \cup {p} -> Entry]
  BY <1>1 DEF Take, Build, Entry, Volunteers
<1>3. crawled' \in ProjectList
  BY <1>1, <1>2, ListIntro
<1> QED
  BY <1>3 DEF Take

\* A step of a refresh keeps the types of the Monitor's variables.
LEMMA RefreshType ==
  ASSUME MonitorTypeOK, JenkinsTypeOK, Refresh \/ RefreshFault
  PROVE  MonitorTypeOK'
<1> USE DEF MonitorTypeOK, RefreshPC, crawlVars
<1>1. CASE BeginRefresh
  BY <1>1, VolunteersOfType, EmptyListType DEF BeginRefresh, JenkinsTypeOK
<1>2. ASSUME NEW p \in Project, ReadProject(p) \/ MisreadProject(p) PROVE MonitorTypeOK'
  BY <1>2, TakenBuild, TakeType
<1>3. CASE FailRefresh
  BY <1>3, EmptyListType DEF FailRefresh
<1>4. CASE ReplaceProjects
  BY <1>4, CarryVolunteersType, EmptyListType DEF ReplaceProjects
<1>5. CASE CompareHash
  BY <1>5, HashType DEF CompareHash
<1>6. CASE UpdateClients
  BY <1>6 DEF UpdateClients
<1> QED BY <1>1, <1>2, <1>3, <1>4, <1>5, <1>6 DEF Refresh, RefreshFault

--------------------------------------------------------------------------------
\* Volunteers.  The property of one project, as the list goes from l to m.
Kept(l, m, p) ==
  l[p].volunteer # NoOne =>
    \/ m[p].volunteer # NoOne
    \/ m[p].status = "Success"
    \/ refreshPC = "crawling" /\ refreshPC' = "replaced" /\ p \notin DOMAIN saved

LEMMA KeptByCrawl ==
  ASSUME MonitorTypeOK, ReplaceProjects, NEW p \in DOMAIN projects'
  PROVE  Kept(projects, projects', p)
<1>1. projects' = CarryVolunteers(crawled, saved) /\ p \in DOMAIN crawled
  BY DEF ReplaceProjects, CarryVolunteers
<1>2. crawled \in [DOMAIN crawled -> Entry]
  BY ListElim DEF MonitorTypeOK
<1>3. CASE p \in DOMAIN saved /\ crawled[p].status # "Success"
  <2>1. projects'[p] = [crawled[p] EXCEPT !.volunteer = saved[p]]
    BY <1>1, <1>3 DEF CarryVolunteers
  <2>2. saved[p] # NoOne
    BY <1>3, VolunteerMapElim, NoOneIsNoClient DEF MonitorTypeOK
  <2> QED
    BY <1>1, <1>2, <2>1, <2>2 DEF Kept, Entry
<1>4. CASE crawled[p].status = "Success"
  BY <1>1, <1>4 DEF Kept, CarryVolunteers
<1>5. CASE p \notin DOMAIN saved
  BY <1>5 DEF ReplaceProjects, Kept
<1> QED
  BY <1>3, <1>4, <1>5

LEMMA KeptByRecording ==
  ASSUME MonitorTypeOK, NEW q, NEW v \in Client, RecordVolunteer(q, v),
         NEW p \in DOMAIN projects
  PROVE  Kept(projects, projects', p)
<1>1. v # NoOne
  BY NoOneIsNoClient
<1>2. projects' = SetVolunteer(projects, q, v)
  BY DEF RecordVolunteer
<1>3. projects \in [DOMAIN projects -> Entry]
  BY ListElim DEF MonitorTypeOK
<1> QED
  BY <1>1, <1>2, <1>3 DEF SetVolunteer, Kept, Entry

\* What the Monitor of a server does to its list, or has done to it.
KeepingStep == \/ Refresh \/ RefreshFault \/ RestartMonitor
               \/ \E q : \E v \in Client : RecordVolunteer(q, v)
               \/ UNCHANGED projects

LEMMA KeptByMonitor ==
  ASSUME MonitorTypeOK, KeepingStep
  PROVE  KeepsVolunteers
<1> SUFFICES ASSUME NEW p \in DOMAIN projects \cap DOMAIN projects'
             PROVE  Kept(projects, projects', p)
  BY DEF KeepsVolunteers, Kept
<1>1. CASE UNCHANGED projects
  BY <1>1 DEF Kept
<1>2. CASE ReplaceProjects
  BY <1>2, KeptByCrawl
<1>3. CASE \E q : \E v \in Client : RecordVolunteer(q, v)
  BY <1>3, KeptByRecording
<1>4. CASE RestartMonitor
  BY <1>4 DEF RestartMonitor, EmptyList
<1>5. CASE (Refresh /\ ~ReplaceProjects) \/ RefreshFault
  BY <1>1, <1>5 DEF Refresh, BeginRefresh, ReadProject, CompareHash, UpdateClients,
                    RefreshFault, FailRefresh, MisreadProject, Take
<1> QED
  BY <1>1, <1>2, <1>3, <1>4, <1>5 DEF KeepingStep

--------------------------------------------------------------------------------
\* The order of builds.  On their way from Jenkins to what a client shows, lists
\* stand in a row: build, crawled, projects, the datagrams from the last to the
\* first, slot, shown.  Each is no newer than any before it, and none is from the
\* future; the latter is what makes the next build newer than all of them.

Older(l, m) == \A p \in DOMAIN l \cap DOMAIN m :
                 m[p].timestamp = 0 \/ l[p].timestamp <= m[p].timestamp

Passed(l) == \A p \in DOMAIN l : l[p].timestamp <= clock

\* A list that has left the server, against those that may still do.
Behind(l) == Older(l, projects) /\ Older(l, crawled) /\ Older(l, build) /\ Passed(l)

SourceInOrder == /\ Older(projects, crawled) /\ Older(projects, build)
                 /\ Older(crawled, build)
                 /\ Passed(projects) /\ Passed(crawled) /\ Passed(build)

ListIn(m) == IF m.type = "ProjectUpdate" THEN m.projects ELSE EmptyList

\* The row of a client that shows s, has t in its slot and the datagrams q to
\* receive.
Row(s, t, q) ==
  /\ Older(s, t)
  /\ \A i \in DOMAIN q : Older(s, ListIn(q[i])) /\ Older(t, ListIn(q[i]))
  /\ \A i \in DOMAIN q : \A j \in DOMAIN q : i < j => Older(ListIn(q[i]), ListIn(q[j]))
  /\ Behind(s) /\ Behind(t) /\ \A i \in DOMAIN q : Behind(ListIn(q[i]))

OrderInv == /\ SourceInOrder
            /\ \A c \in Client : Row(shown[c], slot[c], inbox[c])

LEMMA OrderInit ==
  ASSUME JenkinsInit, MonitorInit, ClientInit, WireInit
  PROVE  OrderInv
<1>1. /\ projects = EmptyList /\ crawled = EmptyList /\ clock = 0
      /\ build = [p \in Project |-> NotBuilt]
  BY DEF JenkinsInit, MonitorInit
<1>2. SourceInOrder
  BY <1>1 DEF SourceInOrder, Older, Passed, NotBuilt, EmptyList
<1>3. ASSUME NEW c \in Client PROVE Row(shown[c], slot[c], inbox[c])
  <2>1. shown[c] = EmptyList /\ slot[c] = EmptyList /\ inbox[c] = <<>>
    BY DEF ClientInit, WireInit
  <2>2. DOMAIN inbox[c] = {} /\ DOMAIN EmptyList = {}
    BY <2>1 DEF EmptyList
  <2> QED
    BY <2>1, <2>2 DEF Row, Behind, Older, Passed
<1> QED
  BY <1>2, <1>3 DEF OrderInv

\* The time of each entry is a number.
LEMMA Times ==
  ASSUME NEW l \in ProjectList
  PROVE  \A p \in DOMAIN l : p \in Project /\ l[p].timestamp \in Nat
<1>1. DOMAIN l \in SUBSET Project /\ l \in [DOMAIN l -> Entry]
  BY ListElim
<1>2. \A p \in DOMAIN l : l[p] \in Entry
  BY <1>1
<1> QED
  BY <1>1, <1>2, DataBounds DEF Entry, Time

LEMMA BuildTimes ==
  ASSUME JenkinsTypeOK
  PROVE  /\ DOMAIN build = Project /\ clock \in Nat
         /\ \A p \in Project : build[p].timestamp \in Nat
<1>1. \A p \in Project : build[p] \in Build
  BY DEF JenkinsTypeOK
<1> QED
  BY <1>1, DataBounds DEF JenkinsTypeOK, Build, Time

\* Names make no difference to the order.
SameTimes(l, m) == /\ DOMAIN l = DOMAIN m
                   /\ \A p \in DOMAIN l : l[p].timestamp = m[p].timestamp

LEMMA SigningKeepsTimes ==
  ASSUME NEW l \in ProjectList, NEW p, NEW v
  PROVE  SameTimes(SetVolunteer(l, p, v), l)
<1>1. l \in [DOMAIN l -> Entry]
  BY ListElim
<1> QED
  BY <1>1 DEF SameTimes, SetVolunteer, Entry

LEMMA CarryingKeepsTimes ==
  ASSUME NEW l \in ProjectList, NEW s
  PROVE  SameTimes(CarryVolunteers(l, s), l)
<1>1. l \in [DOMAIN l -> Entry]
  BY ListElim
<1> QED
  BY <1>1 DEF SameTimes, CarryVolunteers, Entry

LEMMA SameOrder ==
  ASSUME NEW l, NEW m, SameTimes(l, m), NEW k
  PROVE  /\ Older(m, k) => Older(l, k)
         /\ Older(k, m) => Older(k, l)
         /\ Passed(m) => Passed(l)
BY DEF SameTimes, Older, Passed

\* Nothing is older than nothing, nor newer, and a list is as old as itself.
LEMMA EmptyOrder ==
  /\ \A l : Older(EmptyList, l) /\ Older(l, EmptyList)
  /\ Behind(EmptyList)
BY DEF Older, Behind, Passed, EmptyList

LEMMA SelfOrder ==
  ASSUME NEW l \in ProjectList
  PROVE  Older(l, l)
BY Times DEF Older

--------------------------------------------------------------------------------
\* What happens in Jenkins and on the server leaves its own lists in order, and
\* every list behind them that was.

\* A finished build is newer than everything that has been read.
LEMMA OrderJenkins ==
  ASSUME JenkinsTypeOK, MonitorTypeOK, SourceInOrder, JenkinsNext,
         UNCHANGED <<projects, crawled>>
  PROVE  /\ SourceInOrder'
         /\ \A l \in ProjectList : Behind(l) => Behind(l)'
<1>1. UNCHANGED <<projects, crawled>>
  OBVIOUS
<1>2. /\ JenkinsTypeOK /\ JenkinsTypeOK'
      /\ projects \in ProjectList /\ crawled \in ProjectList
  BY JenkinsType DEF MonitorTypeOK
<1>3. clock \in Nat /\ clock' = clock + 1
  BY <1>2, BuildTimes DEF JenkinsNext, FinishBuild, AddJob, DeleteJob, Tick
<1>4. DOMAIN build = Project /\ DOMAIN build' = Project
  BY <1>2, BuildTimes DEF JenkinsTypeOK
<1>5. \A p \in Project :
         \/ build'[p] = build[p]
         \/ build'[p].timestamp = 0
         \/ build'[p].timestamp = clock + 1
  <2>1. PICK p \in Project : FinishBuild(p) \/ AddJob(p) \/ DeleteJob(p)
    BY DEF JenkinsNext
  <2>2. CASE FinishBuild(p)
    <3>1. PICK s \in JenkinsStatus :
            build' = [build EXCEPT ![p] = [status |-> s, timestamp |-> clock']]
      BY <2>2 DEF FinishBuild
    <3> QED
      BY <1>3, <3>1, <1>2 DEF JenkinsTypeOK
  <2>3. CASE AddJob(p)
    BY <2>3 DEF AddJob
  <2>4. CASE DeleteJob(p)
    BY <2>4, <1>2 DEF DeleteJob, NotBuilt, JenkinsTypeOK
  <2> QED
    BY <2>1, <2>2, <2>3, <2>4
<1>6. ASSUME NEW l \in ProjectList, Older(l, build), Passed(l)
      PROVE  Older(l, build)' /\ Passed(l)'
  <2>1. ASSUME NEW p \in DOMAIN l PROVE l[p].timestamp <= clock'
    BY <1>3, <1>6, <2>1, Times DEF Passed
  <2>2. ASSUME NEW p \in DOMAIN l \cap Project
        PROVE  build'[p].timestamp = 0 \/ l[p].timestamp <= build'[p].timestamp
    <3>1. \/ build'[p] = build[p] \/ build'[p].timestamp = 0
          \/ build'[p].timestamp = clock'
      BY <1>3, <1>5
    <3>2. build[p].timestamp = 0 \/ l[p].timestamp <= build[p].timestamp
      BY <1>4, <1>6 DEF Older
    <3> QED
      BY <2>1, <3>1, <3>2
  <2> QED
    BY <1>4, <2>1, <2>2 DEF Older, Passed
<1>7. Passed(build)'
  <2> SUFFICES ASSUME NEW p \in Project PROVE build'[p].timestamp <= clock'
    BY <1>4 DEF Passed
  <2>1. build[p].timestamp \in Nat /\ build[p].timestamp <= clock
    BY <1>2, <1>4, BuildTimes DEF SourceInOrder, Passed
  <2> QED
    BY <1>3, <1>5, <2>1
<1>8. SourceInOrder'
  <2>1. Older(projects, crawled)'
    BY <1>1 DEF SourceInOrder, Older
  <2>2. /\ Older(projects, build') /\ \A p \in DOMAIN projects : projects[p].timestamp <= clock'
        /\ Older(crawled, build') /\ \A p \in DOMAIN crawled : crawled[p].timestamp <= clock'
    BY <1>2, <1>6 DEF SourceInOrder, Passed, Older
  <2> QED
    BY <1>1, <1>7, <2>1, <2>2 DEF SourceInOrder, Older, Passed
<1>9. ASSUME NEW l \in ProjectList, Behind(l) PROVE Behind(l)'
  BY <1>1, <1>6, <1>9 DEF Behind, Older
<1> QED
  BY <1>8, <1>9

\* The list may be signed or dropped, and the crawl dropped.
LEMMA OrderSigned ==
  ASSUME JenkinsTypeOK, MonitorTypeOK, SourceInOrder, UNCHANGED jenkinsVars,
         SameTimes(projects', projects) \/ projects' = EmptyList,
         crawled' = crawled \/ crawled' = EmptyList
  PROVE  /\ SourceInOrder'
         /\ \A l \in ProjectList : Behind(l) => Behind(l)'
<1>1. build' = build /\ clock' = clock
  BY DEF jenkinsVars
<1>2. \A l : Older(l, projects) => Older(l, projects')
  BY SameOrder, EmptyOrder
<1>3. \A l : Older(projects, l) => Older(projects', l)
  BY SameOrder, EmptyOrder
<1>4. Passed(projects) => Passed(projects')
  BY SameOrder DEF Passed, EmptyList
<1>5. \A l : Older(l, crawled) => Older(l, crawled')
  BY EmptyOrder
<1>6. \A l : Older(crawled, l) => Older(crawled', l)
  BY EmptyOrder
<1>7. Passed(crawled) => Passed(crawled')
  BY DEF Passed, EmptyList
<1>8. Older(projects', crawled') /\ Older(projects', build) /\ Older(crawled', build)
  BY <1>3, <1>5, <1>6 DEF SourceInOrder
<1>9. SourceInOrder'
  BY <1>1, <1>4, <1>7, <1>8 DEF SourceInOrder, Older, Passed
<1>10. ASSUME NEW l \in ProjectList, Behind(l) PROVE Behind(l)'
  <2>1. Older(l, projects') /\ Older(l, crawled') /\ Older(l, build) /\ Passed(l)
    BY <1>2, <1>5, <1>10 DEF Behind
  <2> QED
    BY <1>1, <2>1 DEF Behind, Older, Passed
<1> QED
  BY <1>9, <1>10

\* A job is read as it is, and so no older than any list that has it, or as one
\* without a build.
LEMMA OrderRead ==
  ASSUME JenkinsTypeOK, MonitorTypeOK, SourceInOrder, UNCHANGED jenkinsVars,
         NEW p \in Project, ReadProject(p) \/ MisreadProject(p)
  PROVE  /\ SourceInOrder'
         /\ \A l \in ProjectList : Behind(l) => Behind(l)'
<1>0. PICK b \in Build : Take(p, b) /\ b.timestamp \in {0, build[p].timestamp}
  BY TakenBuild
<1>1. build' = build /\ clock' = clock /\ projects' = projects
  BY <1>0 DEF jenkinsVars, Take
<1>2. /\ JenkinsTypeOK /\ projects \in ProjectList /\ crawled \in ProjectList
      /\ DOMAIN build = Project /\ DOMAIN crawled \subseteq Project
  BY BuildTimes, ListElim DEF MonitorTypeOK
<1>3. /\ DOMAIN crawled' = DOMAIN crawled \cup {p}
      /\ crawled'[p].timestamp \in {0, build[p].timestamp}
      /\ \A q \in DOMAIN crawled : q # p => crawled'[q] = crawled[q]
  BY <1>0 DEF Take
<1>4. ASSUME NEW l \in ProjectList, Older(l, crawled), Older(l, build)
      PROVE  Older(l, crawled')
  BY <1>2, <1>3, <1>4 DEF Older
<1>5. Older(crawled', build) /\ Passed(crawled')
  <2>1. /\ build[p].timestamp \in Nat /\ clock \in Nat
        /\ build[p].timestamp <= clock
    BY <1>2, BuildTimes DEF SourceInOrder, Passed
  <2>2. /\ crawled'[p].timestamp <= build[p].timestamp
        /\ crawled'[p].timestamp <= clock
    BY <1>3, <2>1
  <2> QED
    BY <1>2, <1>3, <2>2 DEF SourceInOrder, Older, Passed
<1>6. Older(projects, crawled')
  BY <1>2, <1>4 DEF SourceInOrder
<1>7. SourceInOrder'
  BY <1>1, <1>5, <1>6 DEF SourceInOrder, Older, Passed
<1>8. ASSUME NEW l \in ProjectList, Behind(l) PROVE Behind(l)'
  <2>1. Older(l, crawled')
    BY <1>4, <1>8 DEF Behind
  <2> QED
    BY <1>1, <1>8, <2>1 DEF Behind, Older, Passed
<1> QED
  BY <1>7, <1>8

\* What was crawled becomes the list.
LEMMA OrderReplace ==
  ASSUME JenkinsTypeOK, MonitorTypeOK, SourceInOrder, ReplaceProjects, UNCHANGED jenkinsVars
  PROVE  /\ SourceInOrder'
         /\ \A l \in ProjectList : Behind(l) => Behind(l)'
<1>1. build' = build /\ clock' = clock /\ crawled' = EmptyList
  BY DEF jenkinsVars, ReplaceProjects
<1>2. SameTimes(projects', crawled)
  BY CarryingKeepsTimes DEF ReplaceProjects, MonitorTypeOK
<1>3. /\ \A l : Older(crawled, l) => Older(projects', l)
      /\ \A l : Older(l, crawled) => Older(l, projects')
      /\ Passed(crawled) => Passed(projects')
  BY <1>2, SameOrder
<1>4. Older(projects', build) /\ Passed(projects') /\ Older(projects', EmptyList)
  BY <1>3, EmptyOrder DEF SourceInOrder
<1>5. SourceInOrder'
  BY <1>1, <1>4 DEF SourceInOrder, Older, Passed, EmptyList
<1>6. ASSUME NEW l \in ProjectList, Behind(l) PROVE Behind(l)'
  <2>1. Older(l, projects') /\ Older(l, EmptyList)
    BY <1>3, <1>6, EmptyOrder DEF Behind
  <2> QED
    BY <1>1, <1>6, <2>1 DEF Behind, Older, Passed
<1> QED
  BY <1>5, <1>6

\* A step of the refresh, or a restart.
LEMMA OrderRefresh ==
  ASSUME JenkinsTypeOK, MonitorTypeOK, SourceInOrder, UNCHANGED jenkinsVars,
         Refresh \/ RefreshFault \/ RestartMonitor
  PROVE  /\ SourceInOrder'
         /\ \A l \in ProjectList : Behind(l) => Behind(l)'
<1> DEFINE Goal == SourceInOrder' /\ \A l \in ProjectList : Behind(l) => Behind(l)'
<1>1. ASSUME NEW p \in Project, ReadProject(p) \/ MisreadProject(p) PROVE Goal
  BY <1>1, OrderRead
<1>2. CASE ReplaceProjects
  BY <1>2, OrderReplace
<1>3. CASE BeginRefresh \/ CompareHash \/ UpdateClients \/ FailRefresh \/ RestartMonitor
  <2>1. /\ projects' = projects \/ projects' = EmptyList
        /\ crawled' = crawled \/ crawled' = EmptyList
    BY <1>3 DEF BeginRefresh, CompareHash, UpdateClients, FailRefresh, RestartMonitor,
                crawlVars
  <2>2. SameTimes(projects, projects)
    BY DEF SameTimes
  <2> QED
    BY <2>1, <2>2, OrderSigned
<1> QED
  BY <1>1, <1>2, <1>3 DEF Refresh, RefreshFault

\* A volunteering on the server.
LEMMA OrderRecorded ==
  ASSUME JenkinsTypeOK, MonitorTypeOK, SourceInOrder, UNCHANGED <<jenkinsVars, crawled>>,
         NEW p, NEW v, RecordVolunteer(p, v)
  PROVE  /\ SourceInOrder'
         /\ \A l \in ProjectList : Behind(l) => Behind(l)'
<1>1. SameTimes(projects', projects)
  BY SigningKeepsTimes DEF RecordVolunteer, MonitorTypeOK
<1> QED
  BY <1>1, OrderSigned

\* Anything that leaves the three alone.
LEMMA OrderFrame ==
  ASSUME JenkinsTypeOK, MonitorTypeOK, SourceInOrder,
         UNCHANGED <<jenkinsVars, projects, crawled>>
  PROVE  /\ SourceInOrder'
         /\ \A l \in ProjectList : Behind(l) => Behind(l)'
<1>1. SameTimes(projects', projects)
  BY DEF SameTimes
<1> QED
  BY <1>1, OrderSigned

--------------------------------------------------------------------------------
\* What each step makes of the row of one client, whatever kind of datagrams it
\* receives.

\* The first datagram is gone, or has been received.
LEMMA RowReceived ==
  ASSUME NEW S, NEW s, NEW t, NEW q \in Seq(S), q # <<>>, Row(s, t, q)
  PROVE  Row(s, t, Tail(q)) /\ Row(s, ListIn(Head(q)), Tail(q))
<1>1. /\ Len(q) \in Nat /\ DOMAIN q = 1..Len(q)
      /\ Tail(q) \in Seq(S) /\ Len(Tail(q)) = Len(q) - 1 /\ Head(q) = q[1]
      /\ \A i \in 1..Len(Tail(q)) : Tail(q)[i] = q[i + 1]
  BY LenProperties, HeadTailProperties
<1>2. DOMAIN Tail(q) = 1..Len(Tail(q)) /\ Len(Tail(q)) \in Nat
  BY <1>1, LenProperties
<1>3. 1 \in DOMAIN q
  BY <1>1, <1>2
<1>4. \A i \in DOMAIN Tail(q) : i + 1 \in DOMAIN q /\ 1 < i + 1 /\ Tail(q)[i] = q[i + 1]
  BY <1>1, <1>2
<1>5. \A i \in DOMAIN Tail(q) : \A j \in DOMAIN Tail(q) : i < j => i + 1 < j + 1
  BY <1>1, <1>2
<1>6. /\ \A i \in DOMAIN Tail(q) : /\ Older(s, ListIn(Tail(q)[i]))
                                   /\ Older(t, ListIn(Tail(q)[i]))
                                   /\ Behind(ListIn(Tail(q)[i]))
                                   /\ Older(ListIn(Head(q)), ListIn(Tail(q)[i]))
  BY <1>1, <1>3, <1>4 DEF Row
<1>7. \A i \in DOMAIN Tail(q) : \A j \in DOMAIN Tail(q) :
        i < j => Older(ListIn(Tail(q)[i]), ListIn(Tail(q)[j]))
  BY <1>4, <1>5 DEF Row
<1>8. Older(s, ListIn(Head(q))) /\ Behind(ListIn(Head(q)))
  BY <1>1, <1>3 DEF Row
<1> QED
  BY <1>6, <1>7, <1>8 DEF Row

\* The slot is emptied into what is shown, or forgotten; a name is written.
LEMMA RowShown ==
  ASSUME NEW s, NEW t, NEW q, Row(s, t, q)
  PROVE  /\ Row(t, EmptyList, q)
         /\ Row(s, EmptyList, q)
         /\ \A r : SameTimes(r, s) => Row(r, t, q)
<1>1. Row(t, EmptyList, q) /\ Row(s, EmptyList, q)
  BY EmptyOrder DEF Row
<1>2. ASSUME NEW r, SameTimes(r, s) PROVE Row(r, t, q)
  <2>1. /\ \A l : Older(s, l) => Older(r, l)
        /\ Passed(s) => Passed(r)
    BY <1>2, SameOrder
  <2>2. Behind(s) => Behind(r)
    BY <2>1 DEF Behind
  <2> QED
    BY <2>1, <2>2 DEF Row
<1> QED
  BY <1>1, <1>2

LEMMA RowEmpty == Row(EmptyList, EmptyList, <<>>)
BY EmptyOrder, EmptySeq DEF Row

\* The server sends its list, or nothing new.
LEMMA RowDelivered ==
  ASSUME NEW S, NEW s, NEW t, NEW q \in Seq(S), Row(s, t, q),
         NEW ms \in Seq(S), Len(ms) <= 1,
         \A i \in DOMAIN ms : ListIn(ms[i]) \in {projects, EmptyList},
         Behind(projects)
  PROVE  Row(s, t, Deliver(q, ms))
<1> DEFINE r == Deliver(q, ms)
<1>1. /\ Len(q) \in Nat /\ DOMAIN q = 1..Len(q)
      /\ Len(ms) \in Nat /\ DOMAIN ms = 1..Len(ms)
  BY LenProperties
<1>2. /\ DOMAIN r \subseteq 1..(Len(q) + Len(ms))
      /\ \A i \in DOMAIN r : r[i] = IF i <= Len(q) THEN q[i] ELSE ms[i - Len(q)]
  BY DeliverElements
<1> HIDE DEF r
<1>3. ASSUME NEW i \in DOMAIN r
      PROVE  \/ i \in DOMAIN q /\ r[i] = q[i]
             \/ i = Len(q) + 1 /\ ListIn(r[i]) \in {projects, EmptyList}
  <2>1. i \in 1..(Len(q) + Len(ms))
    BY <1>2
  <2>2. CASE i <= Len(q)
    BY <1>1, <1>2, <2>1, <2>2
  <2>3. CASE ~(i <= Len(q))
    <3>1. i = Len(q) + 1 /\ i - Len(q) \in DOMAIN ms
      BY <1>1, <2>1, <2>3
    <3>2. r[i] = ms[i - Len(q)]
      BY <1>2, <2>3
    <3> QED
      BY <3>1, <3>2
  <2> QED
    BY <2>2, <2>3
<1>4. \A l : Behind(l) => Older(l, projects) /\ Older(l, EmptyList)
  BY EmptyOrder DEF Behind
<1>5. Behind(projects) /\ Behind(EmptyList)
  BY EmptyOrder
<1>6. ASSUME NEW i \in DOMAIN r
      PROVE  /\ Older(s, ListIn(r[i])) /\ Older(t, ListIn(r[i]))
             /\ Behind(ListIn(r[i]))
  BY <1>3, <1>4, <1>5 DEF Row
<1>7. ASSUME NEW i \in DOMAIN r, NEW j \in DOMAIN r, i < j
      PROVE  Older(ListIn(r[i]), ListIn(r[j]))
  <2>1. i \in DOMAIN q /\ r[i] = q[i]
    BY <1>1, <1>2, <1>3, <1>7
  <2>2. CASE j \in DOMAIN q /\ r[j] = q[j]
    BY <1>7, <2>1, <2>2 DEF Row
  <2>3. CASE ListIn(r[j]) \in {projects, EmptyList}
    BY <1>4, <1>6, <2>3
  <2> QED
    BY <1>3, <2>2, <2>3
<1>8. Older(s, t) /\ Behind(s) /\ Behind(t)
  BY DEF Row
<1>9. Row(s, t, r)
  BY <1>6, <1>7, <1>8 DEF Row
<1> QED
  BY <1>9 DEF r

LEMMA ProjectsBehind ==
  ASSUME MonitorTypeOK, SourceInOrder
  PROVE  Behind(projects)
BY SelfOrder DEF Behind, SourceInOrder, MonitorTypeOK

\* The application's thread takes the list in the slot, or its user volunteers,
\* or another Monitor is made.
UserOf(d) == \/ RefreshClient(d)
             \/ \E p : SetVolunteering(d, p)
             \/ RenewMonitor(d)

\* What is shown changes by a name, for what is in the slot, or to nothing.
LEMMA ShownByUser ==
  ASSUME ClientTypeOK, NEW d, UserOf(d), NEW c \in Client
  PROVE  SameTimes(shown'[c], shown[c]) \/ shown'[c] \in {slot[c], EmptyList}
<1>1. shown \in [Client -> ProjectList]
  BY DEF ClientTypeOK
<1>2. SameTimes(shown[c], shown[c])
  BY DEF SameTimes
<1>3. CASE RefreshClient(d)
  <2>1. shown'[c] \in {shown[c], slot[c]}
    BY <1>1, <1>3 DEF RefreshClient, Taken
  <2> QED
    BY <1>2, <2>1
<1>4. ASSUME NEW p, SetVolunteering(d, p)
      PROVE  SameTimes(shown'[c], shown[c])
  <2>1. shown'[c] = shown[c] \/ shown'[c] = SetVolunteer(shown[c], p, d)
    BY <1>1, <1>4 DEF SetVolunteering
  <2> QED
    BY <1>1, <1>2, <2>1, SigningKeepsTimes
<1>5. CASE RenewMonitor(d)
  <2>1. shown'[c] \in {shown[c], EmptyList}
    BY <1>1, <1>5 DEF RenewMonitor
  <2> QED
    BY <1>2, <2>1
<1> QED
  BY <1>3, <1>4, <1>5 DEF UserOf

\* The row of c, of whatever client the user is.
LEMMA RowOfUser ==
  ASSUME ClientTypeOK, NEW d, UserOf(d), NEW c \in Client,
         Row(shown[c], slot[c], inbox[c])
  PROVE  Row(shown'[c], slot'[c], inbox[c])
<1>1. shown \in [Client -> ProjectList] /\ slot \in [Client -> ProjectList]
  BY DEF ClientTypeOK
<1>2. CASE shown'[c] = shown[c] /\ slot'[c] = slot[c]
  BY <1>2
<1>3. CASE RefreshClient(d)
  <2>1. \/ shown'[c] = shown[c] /\ slot'[c] = slot[c]
        \/ shown'[c] \in {shown[c], slot[c]} /\ slot'[c] = EmptyList
    BY <1>1, <1>3 DEF RefreshClient, Taken
  <2> QED
    BY <1>2, <2>1, RowShown
<1>4. ASSUME NEW p, SetVolunteering(d, p) PROVE Row(shown'[c], slot'[c], inbox[c])
  <2>1. /\ slot'[c] = slot[c]
        /\ shown'[c] = shown[c] \/ shown'[c] = SetVolunteer(shown[c], p, d)
    BY <1>1, <1>4 DEF SetVolunteering
  <2>2. SameTimes(SetVolunteer(shown[c], p, d), shown[c])
    BY <1>1, SigningKeepsTimes
  <2> QED
    BY <1>2, <2>1, <2>2, RowShown
<1>5. CASE RenewMonitor(d)
  <2>1. \/ shown'[c] = shown[c] /\ slot'[c] = slot[c]
        \/ shown'[c] = EmptyList /\ slot'[c] = EmptyList
    BY <1>1, <1>5 DEF RenewMonitor
  <2>2. Row(EmptyList, EmptyList, inbox[c])
    <3>1. Row(slot[c], EmptyList, inbox[c])
      BY RowShown
    <3> QED
      BY <3>1, EmptyOrder DEF Row
  <2> QED
    BY <1>2, <2>1, <2>2
<1> QED
  BY <1>3, <1>4, <1>5 DEF UserOf

\* Of each project what is shown next is no older, if the slot is not.
LEMMA ShownIsNoOlder ==
  ASSUME ClientTypeOK, NEW c \in Client, Older(shown[c], slot[c]),
         SameTimes(shown'[c], shown[c]) \/ shown'[c] \in {slot[c], EmptyList},
         NEW p \in DOMAIN shown[c] \cap DOMAIN shown'[c]
  PROVE  shown'[c][p].timestamp >= shown[c][p].timestamp \/ shown'[c][p].timestamp = 0
<1>1. shown[c] \in ProjectList /\ slot[c] \in ProjectList
  BY DEF ClientTypeOK
<1>2. shown[c][p].timestamp \in Nat
  BY <1>1, Times
<1>3. CASE SameTimes(shown'[c], shown[c])
  BY <1>2, <1>3 DEF SameTimes
<1>4. CASE shown'[c] = slot[c]
  <2>1. slot[c][p].timestamp \in Nat
    BY <1>1, <1>4, Times
  <2> QED
    BY <1>2, <1>4, <2>1 DEF Older
<1>5. CASE shown'[c] = EmptyList
  BY <1>5 DEF EmptyList
<1> QED
  BY <1>3, <1>4, <1>5
================================================================================
