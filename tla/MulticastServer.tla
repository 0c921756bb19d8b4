---------------------------- MODULE MulticastServer ----------------------------
(***************************************************************************)
(* The server's thread in multicast mode (server_multicast_thread): twice  *)
(* a second it reads the shared flag, receives what has arrived, sends the *)
(* list to the group if there is news, clears the flag, and sends a beacon *)
(* if the last one is a second old.                                        *)
(***************************************************************************)
EXTENDS ServerMonitor

CONSTANTS
  Host,   \* addresses the server may run at
  Home    \* the one it runs at first

ASSUME HomeIsHost == Home \in Host

VARIABLES
  castPC,         \* where the thread is in its loop
  localRefresh,   \* needs_refresh of the loop, a copy of the shared flag
  beaconDue,      \* the last beacon was sent two rounds ago or never
  host            \* the server's own address

multicastServerVars == <<castPC, localRefresh, beaconDue, host>>

MulticastServerInit == /\ castPC = "top"
                       /\ localRefresh = FALSE
                       /\ beaconDue = TRUE
                       /\ host = Home

\* Datagrams to some or all of the clients.  A client empties its socket as
\* often as the server sends to it: one without room counts as a disruption.
SendTo(group, ms) ==
  /\ inbox' = [c \in Client |->
                 IF c \in group THEN Deliver(inbox[c], ms) ELSE inbox[c]]
  /\ IF \A c \in group : Len(inbox[c]) < Buffer
     THEN UNCHANGED disruptions
     ELSE Disrupt

--------------------------------------------------------------------------------
StartCasting ==
  /\ ~serverUp
  /\ refreshPC = "idle"
  /\ serverUp' = TRUE
  /\ needsRefresh' = TRUE
  /\ UNCHANGED <<projects, projectsHash, refreshPC, crawlVars,
                 multicastServerVars, serverInbox, inbox, disruptions>>

\* Mutant: the shared flag is cleared where it is read.
ReadFlag_TakesFlag ==
  /\ serverUp
  /\ castPC = "top"
  /\ localRefresh' = needsRefresh
  /\ needsRefresh' = FALSE
  /\ castPC' = "draining"
  /\ UNCHANGED <<projects, projectsHash, refreshPC, crawlVars, wireVars,
                 beaconDue, host>>

ReadFlag ==
  /\ serverUp
  /\ castPC = "top"
  /\ localRefresh' = needsRefresh
  /\ castPC' = "draining"
  /\ UNCHANGED <<monitorVars, wireVars, beaconDue, host>>

\* A request is answered with the list, whatever hash it carries.
AnswerWithList ==
  /\ serverUp
  /\ castPC = "draining"
  /\ serverInbox # <<>>
  /\ Head(serverInbox).type = "ProjectUpdateRequest"
  /\ SendTo({Head(serverInbox).from}, ProjectUpdates(projects))
  /\ serverInbox' = Tail(serverInbox)
  /\ UNCHANGED <<monitorVars, multicastServerVars, serverUp>>

\* A volunteer is written into the list, and what comes of it replaces the
\* flag the thread has read.
AcceptAndFlag ==
  /\ serverUp
  /\ castPC = "draining"
  /\ serverInbox # <<>>
  /\ Head(serverInbox).type = "VolunteerAdded"
  /\ LET m == Head(serverInbox)
     IN  /\ RecordVolunteer(m.project, m.from)
         /\ localRefresh' = VolunteerIsKnown(m.project)
  /\ serverInbox' = Tail(serverInbox)
  /\ UNCHANGED <<projectsHash, needsRefresh, refreshPC, crawlVars, castPC,
                 beaconDue, host, serverUp, inbox, disruptions>>

EndDraining ==
  /\ serverUp
  /\ castPC = "draining"
  /\ serverInbox = <<>>
  /\ castPC' = IF localRefresh THEN "sending" ELSE "beacon"
  /\ localRefresh' = FALSE
  /\ UNCHANGED <<monitorVars, wireVars, beaconDue, host>>

SendProjects ==
  /\ serverUp
  /\ castPC = "sending"
  /\ SendTo(Client, ProjectUpdates(projects))
  /\ castPC' = "clearing"
  /\ UNCHANGED <<monitorVars, serverUp, serverInbox, localRefresh, beaconDue, host>>

\* The shared flag is cleared after the list was sent, under a lock of its own.
ClearFlag ==
  /\ serverUp
  /\ castPC = "clearing"
  /\ needsRefresh' = FALSE
  /\ castPC' = "beacon"
  /\ UNCHANGED <<projects, projectsHash, refreshPC, crawlVars, wireVars,
                 localRefresh, beaconDue, host>>

\* Half a second of sleep per round: at least every second round is a second
\* after the last beacon.
SendBeacon ==
  /\ serverUp
  /\ castPC = "beacon"
  /\ SendTo(Client, <<Beacon(host)>>)
  /\ beaconDue' = FALSE
  /\ castPC' = "top"
  /\ UNCHANGED <<monitorVars, serverUp, serverInbox, localRefresh, host>>

\* Mutant: the time since the last beacon is not looked at.
SkipBeacon_NeverDue ==
  /\ serverUp
  /\ castPC = "beacon"
  /\ ~beaconDue
  /\ UNCHANGED beaconDue
  /\ castPC' = "top"
  /\ UNCHANGED <<monitorVars, wireVars, localRefresh, host>>

\* A round that is not yet a second after the last beacon.
SkipBeacon ==
  /\ serverUp
  /\ castPC = "beacon"
  /\ ~beaconDue
  /\ beaconDue' = TRUE
  /\ castPC' = "top"
  /\ UNCHANGED <<monitorVars, wireVars, localRefresh, host>>

\* The server process dies and is started again, perhaps on another host.
RestartCasting ==
  /\ Disrupt
  /\ serverUp
  /\ RestartMonitor
  /\ serverUp' = FALSE
  /\ serverInbox' = <<>>
  /\ castPC' = "top"
  /\ localRefresh' = FALSE
  /\ beaconDue' = TRUE
  /\ host' \in Host
  /\ UNCHANGED inbox

MulticastServerThread ==
  \/ ReadFlag \/ AnswerWithList \/ AcceptAndFlag \/ EndDraining
  \/ SendProjects \/ ClearFlag \/ SendBeacon \/ SkipBeacon

--------------------------------------------------------------------------------
MulticastServerTypeOK ==
  /\ castPC \in {"top", "draining", "sending", "clearing", "beacon"}
  /\ localRefresh \in BOOLEAN
  /\ beaconDue \in BOOLEAN
  /\ host \in Host
================================================================================
