------------------------------- MODULE QueryFeed -------------------------------
(***************************************************************************)
(* The whole system in query mode, the mode cli/main.rs runs in: Jenkins,  *)
(* the server's Monitor and its thread, and clients that poll the server   *)
(* over UDP.                                                               *)
(***************************************************************************)
EXTENDS QueryServer, QueryClient

serverVars == <<monitorVars, queryServerVars>>
allClientVars == <<clientVars, queryClientVars>>
vars == <<jenkinsVars, wireVars, serverVars, allClientVars>>

Init == /\ JenkinsInit
        /\ WireInit
        /\ MonitorInit
        /\ QueryServerInit
        /\ ClientInit
        /\ QueryClientInit

JenkinsStep == JenkinsNext /\ UNCHANGED <<wireVars, serverVars, allClientVars>>

RefreshStep == /\ Refresh
               /\ UNCHANGED <<jenkinsVars, wireVars, queryServerVars, allClientVars>>

FailStep == /\ RefreshFault
            /\ UNCHANGED <<jenkinsVars, serverUp, serverInbox, inbox,
                           queryServerVars, allClientVars>>

ServerStep == /\ StartServer \/ QueryServerThread
              /\ UNCHANGED <<jenkinsVars, allClientVars>>

RestartStep == RestartServer /\ UNCHANGED <<jenkinsVars, allClientVars>>

ThreadStep(c) == QueryClientThread(c) /\ UNCHANGED <<jenkinsVars, serverVars>>

RefreshClientStep(c) ==
  /\ RefreshClient(c)
  /\ UNCHANGED <<jenkinsVars, wireVars, serverVars, queryClientVars>>

\* A user who is shown projects volunteers for one.
VolunteerStep(c) ==
  /\ shown[c] # EmptyList
  /\ \E p \in Project : SetVolunteering(c, p)
  /\ UNCHANGED <<jenkinsVars, wireVars, serverVars, queryClientVars>>

ReconnectStep(c) == Reconnect(c) /\ UNCHANGED <<jenkinsVars, serverVars>>

NetworkStep ==
  /\ DisruptServerInbox \/ \E c \in Client : DisruptInbox(c)
  /\ UNCHANGED <<jenkinsVars, serverVars, allClientVars>>

Next == \/ JenkinsStep
        \/ RefreshStep
        \/ FailStep
        \/ ServerStep
        \/ RestartStep
        \/ NetworkStep
        \/ \E c \in Client : \/ ThreadStep(c)
                             \/ RefreshClientStep(c)
                             \/ VolunteerStep(c)
                             \/ ReconnectStep(c)

Spec == Init /\ [][Next]_vars

--------------------------------------------------------------------------------
\* Every thread is an endless loop: it takes its next step sooner or later.
\* The server's thread also gets to sleep if its socket is empty time and
\* again: requests come every fifteen seconds, it looks every five ms.
Fairness ==
  /\ WF_vars(RefreshStep)
  /\ WF_vars(ServerStep)
  /\ SF_vars(Sleep /\ UNCHANGED <<jenkinsVars, allClientVars>>)
  /\ \A c \in Client : WF_vars(ThreadStep(c)) /\ WF_vars(RefreshClientStep(c))

FairSpec == Spec /\ Fairness

--------------------------------------------------------------------------------
QueryWireTypeOK == /\ serverUp \in BOOLEAN
                   /\ serverInbox \in Seq(Request)
                   /\ Len(serverInbox) <= Buffer
                   /\ inbox \in [Client -> Seq(Reply)]
                   /\ \A c \in Client : Len(inbox[c]) <= Buffer
                   /\ disruptions \in 0..MaxDisruptions

\* Every variable keeps its type, and no socket buffers more than it can.
TypeOK == /\ JenkinsTypeOK
          /\ QueryWireTypeOK
          /\ MonitorTypeOK
          /\ QueryServerTypeOK
          /\ ClientTypeOK
          /\ QueryClientTypeOK

--------------------------------------------------------------------------------
\* The list l is the one with hash h, but for c's own name: c may have written
\* it on some of its projects since the list arrived.
SameButSigned(l, h, c) ==
  /\ DOMAIN l = DOMAIN h
  /\ \A p \in DOMAIN l : /\ l[p].status = h[p].status
                         /\ l[p].volunteer \in {h[p].volunteer, c}

\* The hash a client's thread sends with its requests (projects_hash of
\* client_query_connection_thread) is the hash of the list its user sees or is
\* about to see, whatever the application's thread, the network and the server
\* have done meanwhile.  If it were not, the server would go on answering "no
\* update" to a client that shows something else.
HashMatchesShown ==
  \A c \in Client :
    threadHash[c] \notin {ZeroHash, Hash(EmptyList)} =>
      IF slot[c] # EmptyList
      THEN Hash(slot[c]) = threadHash[c]
      ELSE SameButSigned(shown[c], threadHash[c], c)

\* Answers a client has still to receive, or the server to give.  The thread
\* receives one datagram per request (monitor_client.rs:245), so each late,
\* duplicated or orphaned answer leaves it one poll behind from then on.
Asks(m, c) == m.type = "ProjectUpdateRequest" /\ m.from = c
Unanswered(c) == Cardinality({i \in DOMAIN serverInbox : Asks(serverInbox[i], c)})
Backlog(c) == Unanswered(c) + Len(inbox[c])

\* A client is never further behind than something went wrong: without late
\* answers, duplicates and reconnects each answer is received in its own poll.
BacklogIsCaused ==
  \A c \in Client :
    Backlog(c) <= disruptions + (IF clientPC[c] = "reply" THEN 1 ELSE 0)

\* A list the server holds loses a volunteer only to a crawl, and then only
\* because the project is fixed, or because the volunteer was not there yet
\* when the crawl began (monitor.rs:101-147); a failed refresh, a request or
\* another client's volunteering never removes one.
VolunteersKept == [][KeepsVolunteers]_vars

\* The status of a project a client shows is never replaced by that of an
\* earlier build, if the network keeps the order of datagrams: crawls, polls,
\* late answers and restarts do not mix old lists in.
NeverGoesBack == [][ShowsNothingOlder]_vars

--------------------------------------------------------------------------------
\* The server gets to the end of its queue time and again.
ServerKeepsUp == []<>(serverInbox = <<>>)

\* In the end every client displays the server's list (what its hash covers), but
\* for its own name, after any bounded number of lost, late, reordered or
\* duplicated datagrams, failed refreshes, restarts and reconnects.  An empty list
\* is never displayed (get_projects, monitor_client.rs:321), one too large is
\* never sent.
Converges ==
  ServerKeepsUp =>
    \A c \in Client :
      <>[](\/ projects = EmptyList
           \/ ~Fits(projects)
           \/ SameButSigned(shown[c], Hash(projects), c))

\* ... and what the server holds is what Jenkins says.
ReadsJenkins ==
  <>[](/\ DOMAIN projects = jobs
       /\ \A p \in jobs : projects[p].status = build[p].status)

\* A client that shows its own user's name on a project shows what the server
\* holds, and so what the rest of the team sees (README.md:8).
OwnNameIsShared ==
  <>[](\A c \in Client : \A p \in DOMAIN shown[c] :
         shown[c][p].volunteer = c =>
           p \in DOMAIN projects /\ projects[p].volunteer = c)

\* A volunteering that is queued for the thread reaches the server's list, if
\* the network loses nothing and nobody restarts.
VolunteerRecorded ==
  \A c \in Client, p \in Project :
    (\E i \in DOMAIN outbox[c] : outbox[c][i] = p)
      ~> (p \in DOMAIN projects => projects[p].volunteer = c)
================================================================================
