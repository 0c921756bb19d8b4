---------------------------- MODULE MulticastClient ----------------------------
(***************************************************************************)
(* The client's thread in multicast mode                                   *)
(* (client_multicast_connection_thread): it takes every list it is sent.   *)
(* Until the first one it answers each beacon with a request; the beacon   *)
(* is also where it learns the server's address from.                      *)
(***************************************************************************)
EXTENDS ClientMonitor, Wire

CONSTANT NoHost   \* no address known yet (None)

VARIABLES
  hasReceivedProjects,   \* has_received_projects of the thread
  fromAddress            \* from_address: where beacons came from

multicastClientVars == <<hasReceivedProjects, fromAddress>>

MulticastClientInit ==
  /\ hasReceivedProjects = [c \in Client |-> FALSE]
  /\ fromAddress = [c \in Client |-> NoHost]

\* Datagrams to the address `a' arrive if the server, at `h', is there.
ToAddress(a, h, ms) ==
  IF a = h THEN ToServer(ms) ELSE UNCHANGED serverInbox

--------------------------------------------------------------------------------
ReceiveUpdate(c) ==
  /\ inbox[c] # <<>>
  /\ Head(inbox[c]).type = "ProjectUpdate"
  /\ FillSlot(c, Head(inbox[c]).projects)
  /\ hasReceivedProjects' = [hasReceivedProjects EXCEPT ![c] = TRUE]
  /\ inbox' = [inbox EXCEPT ![c] = Tail(@)]
  /\ UNCHANGED <<outbox, shown, shownHash, volunteered, fromAddress,
                 serverUp, serverInbox, disruptions>>

\* A beacon: the address is kept and a request sent there, unless a list has
\* been received before.
HeedBeacon(c, from, h) ==
  IF hasReceivedProjects[c]
  THEN UNCHANGED <<fromAddress, serverInbox>>
  ELSE /\ fromAddress' = [fromAddress EXCEPT ![c] = from]
       /\ ToAddress(from, h, <<ProjectUpdateRequest(c, ZeroHash)>>)

ReceiveBeacon(c, h) ==
  /\ inbox[c] # <<>>
  /\ Head(inbox[c]).type = "Beacon"
  /\ HeedBeacon(c, Head(inbox[c]).host, h)
  /\ inbox' = [inbox EXCEPT ![c] = Tail(@)]
  /\ UNCHANGED <<clientVars, hasReceivedProjects, serverUp, disruptions>>

\* The socket is empty: client_send_volunteers takes what is queued, and sends
\* it if there is an address to send it to.
FlushVolunteers(c, h) ==
  /\ inbox[c] = <<>>
  /\ outbox[c] # <<>>
  /\ ToAddress(fromAddress[c], h,
               [i \in DOMAIN outbox[c] |-> VolunteerAdded(c, outbox[c][i])])
  /\ outbox' = [outbox EXCEPT ![c] = <<>>]
  /\ UNCHANGED <<slot, shown, shownHash, volunteered, multicastClientVars,
                 serverUp, inbox, disruptions>>

\* The client is dropped and a new one made, on the same multicast port; or its
\* process ends, at any point, and is started again.
Rejoin(c) ==
  /\ Disrupt
  /\ RenewMonitor(c)
  /\ hasReceivedProjects' = [hasReceivedProjects EXCEPT ![c] = FALSE]
  /\ fromAddress' = [fromAddress EXCEPT ![c] = NoHost]
  /\ inbox' = [inbox EXCEPT ![c] = <<>>]
  /\ UNCHANGED <<serverUp, serverInbox>>

MulticastClientThread(c, h) ==
  ReceiveUpdate(c) \/ ReceiveBeacon(c, h) \/ FlushVolunteers(c, h)
================================================================================
