------------------------------ MODULE QueryServer ------------------------------
(***************************************************************************)
(* The server's thread in query mode (server_query_thread): it answers     *)
(* each client's request with the whole list, or with "no update" when the *)
(* hash in the request is the one it took at the top of its loop, and      *)
(* writes the volunteers it is told of into the shared list.               *)
(***************************************************************************)
EXTENDS ServerMonitor

VARIABLES
  serverPC,     \* "top" of the loop, or "serving" the datagrams received
  answerHash    \* projects_hash, taken at the top of the loop

queryServerVars == <<serverPC, answerHash>>

QueryServerInit == serverPC = "top" /\ answerHash = ZeroHash

--------------------------------------------------------------------------------
\* start_server: the thread starts and binds its socket.
StartServer ==
  /\ ~serverUp
  /\ refreshPC = "idle"
  /\ serverUp' = TRUE
  /\ needsRefresh' = TRUE
  /\ serverPC' = "top"
  /\ UNCHANGED <<projects, projectsHash, refreshPC, crawlVars, answerHash,
                 serverInbox, inbox, disruptions>>

\* The top of the loop: the hash every request of this round is compared with.
TakeSnapshot ==
  /\ serverUp
  /\ serverPC = "top"
  /\ answerHash' = Hash(projects)
  /\ serverPC' = "serving"
  /\ UNCHANGED <<monitorVars, wireVars>>

\* Mutant: the `else' is missing, and "no update" is followed by an update.
Answer_Both(h) == (IF h = answerHash THEN <<NoProjectUpdate>> ELSE <<>>)
                  \o ProjectUpdates(projects)

\* The answer to a request that carries the hash h.
Answer(h) == IF h = answerHash THEN <<NoProjectUpdate>> ELSE ProjectUpdates(projects)

AnswerRequest ==
  /\ serverUp
  /\ serverPC = "serving"
  /\ serverInbox # <<>>
  /\ Head(serverInbox).type = "ProjectUpdateRequest"
  /\ LET m == Head(serverInbox)
     IN  inbox' = [inbox EXCEPT ![m.from] = Deliver(@, Answer(m.hash))]
  /\ serverInbox' = Tail(serverInbox)
  /\ UNCHANGED <<monitorVars, queryServerVars, serverUp, disruptions>>

AcceptVolunteer ==
  /\ serverUp
  /\ serverPC = "serving"
  /\ serverInbox # <<>>
  /\ Head(serverInbox).type = "VolunteerAdded"
  /\ LET m == Head(serverInbox) IN RecordVolunteer(m.project, m.from)
  /\ serverInbox' = Tail(serverInbox)
  /\ UNCHANGED <<projectsHash, needsRefresh, refreshPC, crawlVars,
                 queryServerVars, serverUp, inbox, disruptions>>

\* Nothing left to receive: five milliseconds of sleep, and the next round.
Sleep ==
  /\ serverUp
  /\ serverPC = "serving"
  /\ serverInbox = <<>>
  /\ serverPC' = "top"
  /\ answerHash' = ZeroHash
  /\ UNCHANGED <<monitorVars, wireVars>>

\* The server process dies and is started again, from the beginning.
RestartServer ==
  /\ Disrupt
  /\ serverUp
  /\ RestartMonitor
  /\ serverUp' = FALSE
  /\ serverInbox' = <<>>
  /\ serverPC' = "top"
  /\ answerHash' = ZeroHash
  /\ UNCHANGED inbox

QueryServerThread == TakeSnapshot \/ AnswerRequest \/ AcceptVolunteer \/ Sleep

--------------------------------------------------------------------------------
QueryServerTypeOK == /\ serverPC \in {"top", "serving"}
                     /\ answerHash \in ProjectHash \cup {ZeroHash}
================================================================================
