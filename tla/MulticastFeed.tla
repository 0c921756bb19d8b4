------------------------------ MODULE MulticastFeed ------------------------------
(***************************************************************************)
(* The whole system in multicast mode, the default of the Qt client        *)
(* (Settings.cpp:30): Jenkins, the server's Monitor and its thread, and    *)
(* clients that listen to the multicast group.                             *)
(***************************************************************************)
EXTENDS MulticastServer, MulticastClient

serverVars == <<monitorVars, multicastServerVars>>
allClientVars == <<clientVars, multicastClientVars>>
vars == <<jenkinsVars, wireVars, serverVars, allClientVars>>

Init == /\ JenkinsInit
        /\ WireInit
        /\ MonitorInit
        /\ MulticastServerInit
        /\ ClientInit
        /\ MulticastClientInit

JenkinsStep == JenkinsNext /\ UNCHANGED <<wireVars, serverVars, allClientVars>>

RefreshStep ==
  Refresh /\ UNCHANGED <<jenkinsVars, wireVars, multicastServerVars, allClientVars>>

FailStep == /\ RefreshFault
            /\ UNCHANGED <<jenkinsVars, serverUp, serverInbox, inbox,
                           multicastServerVars, allClientVars>>

ServerStep == /\ StartCasting \/ MulticastServerThread
              /\ UNCHANGED <<jenkinsVars, allClientVars>>

RestartStep == RestartCasting /\ UNCHANGED <<jenkinsVars, allClientVars>>

ThreadStep(c) == MulticastClientThread(c, host) /\ UNCHANGED <<jenkinsVars, serverVars>>

RefreshClientStep(c) ==
  /\ RefreshClient(c)
  /\ UNCHANGED <<jenkinsVars, wireVars, serverVars, multicastClientVars>>

\* A user who is shown projects volunteers for one.
VolunteerStep(c) ==
  /\ shown[c] # EmptyList
  /\ \E p \in Project : SetVolunteering(c, p)
  /\ UNCHANGED <<jenkinsVars, wireVars, serverVars, multicastClientVars>>

RejoinStep(c) == Rejoin(c) /\ UNCHANGED <<jenkinsVars, serverVars>>

NetworkStep ==
  /\ DisruptServerInbox \/ \E c \in Client : DisruptInbox(c)
  /\ UNCHANGED <<jenkinsVars, serverVars, allClientVars>>

Next == \/ JenkinsStep
        \/ RefreshStep
        \/ FailStep
        \/ ServerStep
        \/ RestartStep
        \/ NetworkStep
        \/ \E c \in Client : \/ ThreadStep(c)
                             \/ RefreshClientStep(c)
                             \/ VolunteerStep(c)
                             \/ RejoinStep(c)

Spec == Init /\ [][Next]_vars

\* Every thread is an endless loop.  The server's thread receives until its
\* socket is empty; clients send at most a few datagrams a second.
Fairness ==
  /\ WF_vars(RefreshStep)
  /\ WF_vars(ServerStep)
  /\ SF_vars(EndDraining /\ UNCHANGED <<jenkinsVars, allClientVars>>)
  /\ \A c \in Client : WF_vars(ThreadStep(c)) /\ WF_vars(RefreshClientStep(c))

FairSpec == Spec /\ Fairness

--------------------------------------------------------------------------------
Cast == [type : {"ProjectUpdate"}, projects : ProjectList]
        \cup [type : {"Beacon"}, host : Host]

\* Every variable keeps its type, and no socket buffers more than it can.
TypeOK ==
  /\ JenkinsTypeOK
  /\ serverUp \in BOOLEAN
  /\ serverInbox \in Seq(Request)
  /\ Len(serverInbox) <= Buffer
  /\ inbox \in [Client -> Seq(Cast)]
  /\ \A c \in Client : Len(inbox[c]) <= Buffer
  /\ disruptions \in 0..MaxDisruptions
  /\ MonitorTypeOK
  /\ MulticastServerTypeOK
  /\ ClientTypeOK
  /\ hasReceivedProjects \in [Client -> BOOLEAN]
  /\ fromAddress \in [Client -> Host \cup {NoHost}]

\* A list the server holds loses a volunteer only to a crawl, and then only
\* because the project is fixed, or because the volunteer was not there yet
\* when the crawl began (monitor.rs:101-147); neither does a broadcast, a
\* beacon, a client's request or another one's volunteering remove one.
VolunteersKept == [][KeepsVolunteers]_vars

\* Whatever the bounded number of lost, late, reordered or duplicated
\* datagrams, failed refreshes, restarts and rejoins: in the end every client
\* has received a list: the beacons make up for a lost one as long as the
\* client has none.
Informed == \A c \in Client : <>[]hasReceivedProjects[c]

\* A flag raised while the thread is not already sending leads to a broadcast:
\* one that cannot be the broadcast already under way, whatever volunteers
\* arrive meanwhile and overwrite the thread's copy of the flag.
FlagLeadsToBroadcast ==
  (needsRefresh /\ castPC \notin {"sending", "clearing"}) ~> castPC = "clearing"

\* Clients get to the end of both their queues time and again: there are two
\* beacons a second at most.
ClientsKeepUp == \A c \in Client : []<>(inbox[c] = <<>> /\ outbox[c] = <<>>)

\* README.md:8, "Communicate with your team that a fix is being worked on.": a
\* volunteering that waits at a client reaches the server's list, if the network
\* loses nothing and nobody restarts.
VolunteerReachesTeam ==
  ClientsKeepUp =>
    \A c \in Client, p \in Project :
      (\E i \in DOMAIN outbox[c] : outbox[c][i] = p)
        ~> (p \in DOMAIN projects => projects[p].volunteer = c)

\* README.md:5, "Notifications when the project state changes.": in the end
\* every client displays the list the server has.
Converges ==
  \A c \in Client :
    <>[](\/ projects = EmptyList
         \/ ~Fits(projects)
         \/ shownHash[c] = Hash(projects))
================================================================================
