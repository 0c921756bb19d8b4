---------------------------------- MODULE Wire ----------------------------------
(***************************************************************************)
(* The UDP sockets between the server and its clients, and the messages    *)
(* they carry (monitor.rs:19-47).  A socket buffer is a bounded queue: a   *)
(* datagram that finds it full is dropped, and one sent to a server that   *)
(* is not running is dropped too.  The network may also lose, reorder or   *)
(* duplicate a datagram; MaxDisruptions bounds how often, together with    *)
(* the failures, restarts and reconnects of the modules that use this one. *)
(*                                                                         *)
(* Every program here speaks the same protocol version, so the version a   *)
(* header carries is left out.                                             *)
(***************************************************************************)
EXTENDS ProjectData, Sequences

CONSTANTS
  Buffer,          \* the datagrams a socket buffers
  Reordering,      \* whether the network may reorder and duplicate
  MaxDisruptions   \* bound on faults, failures, restarts and reconnects

ASSUME WireBounds == /\ Buffer \in Nat \ {0}
                     /\ Reordering \in BOOLEAN
                     /\ MaxDisruptions \in Nat

VARIABLES
  serverUp,      \* the server's thread runs and its socket is bound
  serverInbox,   \* datagrams the server has not received yet
  inbox,         \* inbox[c]: datagrams client c has not received yet
  disruptions    \* disruptions so far

wireVars == <<serverUp, serverInbox, inbox, disruptions>>

--------------------------------------------------------------------------------
\* Messages, with the payload that follows their header.
ProjectUpdateRequest(c, h) ==
  [type |-> "ProjectUpdateRequest", from |-> c, hash |-> h]
VolunteerAdded(c, p) ==
  [type |-> "VolunteerAdded", from |-> c, project |-> p]
NoProjectUpdate  == [type |-> "NoProjectUpdate"]
ProjectUpdate(l) == [type |-> "ProjectUpdate", projects |-> l]
Beacon(host)     == [type |-> "Beacon", host |-> host]

\* What the server is sent, and what a client is sent, in query mode.
Request == [type : {"ProjectUpdateRequest"}, from : Client,
            hash : ProjectHash \cup {ZeroHash}]
           \cup [type : {"VolunteerAdded"}, from : Client, project : Project]
Reply == {NoProjectUpdate} \cup [type : {"ProjectUpdate"}, projects : ProjectList]

\* A queue after the datagrams `ms' arrive, as far as it has room.
Deliver(q, ms) ==
  LET all == q \o ms
  IN  SubSeq(all, 1, IF Len(all) <= Buffer THEN Len(all) ELSE Buffer)

ToServer(ms) ==
  serverInbox' = IF serverUp THEN Deliver(serverInbox, ms) ELSE serverInbox

\* The datagrams with a list in them: one that is too large for a datagram is
\* never sent (send_to fails and the error is only printed).
ProjectUpdates(l) == IF Fits(l) THEN <<ProjectUpdate(l)>> ELSE <<>>

--------------------------------------------------------------------------------
WireInit == /\ serverUp = FALSE
            /\ serverInbox = <<>>
            /\ inbox = [c \in Client |-> <<>>]
            /\ disruptions = 0

Disrupt == /\ disruptions < MaxDisruptions
           /\ disruptions' = disruptions + 1

\* What the network may do to the oldest datagram of a queue: lose it, let
\* the others overtake it, duplicate it.
Disrupted(q) ==
  {Tail(q)} \cup IF Reordering
                THEN {Append(Tail(q), Head(q)), Append(q, Head(q))}
                ELSE {}

\* A network fault on the way to the server.
DisruptServerInbox ==
  /\ Disrupt
  /\ serverInbox # <<>>
  /\ \E q \in Disrupted(serverInbox) : /\ Len(q) <= Buffer
                                       /\ serverInbox' = q
  /\ UNCHANGED <<serverUp, inbox>>

\* A network fault on the way to a client.
DisruptInbox(c) ==
  /\ Disrupt
  /\ inbox[c] # <<>>
  /\ \E q \in Disrupted(inbox[c]) : /\ Len(q) <= Buffer
                                    /\ inbox' = [inbox EXCEPT ![c] = q]
  /\ UNCHANGED <<serverUp, serverInbox>>
================================================================================
