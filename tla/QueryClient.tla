------------------------------ MODULE QueryClient ------------------------------
(***************************************************************************)
(* The client's thread in query mode (client_query_connection_thread):     *)
(* every fifteen seconds it sends the server the hash of the last list it  *)
(* received, takes a nap of 100 milliseconds, receives at most one         *)
(* datagram, and sends the volunteers queued meanwhile.                    *)
(***************************************************************************)
EXTENDS ClientMonitor, Wire

VARIABLES
  clientPC,     \* clientPC[c]: what the thread does next
  threadHash    \* threadHash[c]: projects_hash of the thread

queryClientVars == <<clientPC, threadHash>>

QueryClientInit == /\ clientPC = [c \in Client |-> "request"]
                   /\ threadHash = [c \in Client |-> ZeroHash]

GoTo(c, pc) == clientPC' = [clientPC EXCEPT ![c] = pc]

--------------------------------------------------------------------------------
SendRequest(c) ==
  /\ clientPC[c] = "request"
  /\ ToServer(<<ProjectUpdateRequest(c, threadHash[c])>>)
  /\ GoTo(c, "reply")
  /\ UNCHANGED <<clientVars, threadHash, serverUp, inbox, disruptions>>

\* Mutant: a list that was not fetched yet is not overwritten.
TakeUpdate_KeepOld(c, l) ==
  /\ threadHash' = [threadHash EXCEPT ![c] = Hash(l)]
  /\ IF slot[c] = EmptyList THEN FillSlot(c, l) ELSE UNCHANGED slot

TakeUpdate(c, l) == /\ threadHash' = [threadHash EXCEPT ![c] = Hash(l)]
                    /\ FillSlot(c, l)

\* What becomes of a datagram, and of those that remain: only a list changes
\* anything.
Receive(c, m, remaining) ==
  /\ \/ /\ m.type = "ProjectUpdate"
        /\ TakeUpdate(c, m.projects)
     \/ /\ m.type = "NoProjectUpdate"
        /\ UNCHANGED <<threadHash, slot>>
  /\ inbox' = [inbox EXCEPT ![c] = remaining]

\* Mutant: the newest datagram is received first.
ReceiveReply_Newest(c) ==
  /\ clientPC[c] = "reply"
  /\ inbox[c] # <<>>
  /\ LET n == Len(inbox[c]) IN Receive(c, inbox[c][n], SubSeq(inbox[c], 1, n - 1))
  /\ GoTo(c, "flush")
  /\ UNCHANGED <<outbox, shown, shownHash, volunteered,
                 serverUp, serverInbox, disruptions>>

\* The nap is over and something has arrived: one datagram is received.
ReceiveReply(c) ==
  /\ clientPC[c] = "reply"
  /\ inbox[c] # <<>>
  /\ Receive(c, Head(inbox[c]), Tail(inbox[c]))
  /\ GoTo(c, "flush")
  /\ UNCHANGED <<outbox, shown, shownHash, volunteered,
                 serverUp, serverInbox, disruptions>>

\* The nap is over and nothing has arrived.  The server looks at its socket
\* every five milliseconds: while a request of c is in its queue, an empty
\* socket after the nap is a late answer, and counts as a disruption.
AwaitsAnswer(c) ==
  \E i \in DOMAIN serverInbox : /\ serverInbox[i].from = c
                                /\ serverInbox[i].type = "ProjectUpdateRequest"

NoReply(c) ==
  /\ clientPC[c] = "reply"
  /\ inbox[c] = <<>>
  /\ IF AwaitsAnswer(c) THEN Disrupt ELSE UNCHANGED disruptions
  /\ GoTo(c, "flush")
  /\ UNCHANGED <<clientVars, threadHash, serverUp, serverInbox, inbox>>

\* client_send_volunteers, and the park until the next round.
SendVolunteers(c) ==
  /\ clientPC[c] = "flush"
  /\ ToServer([i \in DOMAIN outbox[c] |-> VolunteerAdded(c, outbox[c][i])])
  /\ outbox' = [outbox EXCEPT ![c] = <<>>]
  /\ GoTo(c, "request")
  /\ UNCHANGED <<slot, shown, shownHash, volunteered, threadHash,
                 serverUp, inbox, disruptions>>

\* Mutant: the new thread starts with the hash of the old one.
Reconnect_KeepsHash(c) ==
  /\ Disrupt
  /\ RenewMonitor(c)
  /\ GoTo(c, "request")
  /\ inbox' = [inbox EXCEPT ![c] = <<>>]
  /\ UNCHANGED <<threadHash, serverUp, serverInbox>>

\* The client is dropped, its thread joined, and a new one made; or its process
\* ends, at any point, and is started again.  The socket is a new one, but on
\* the old port when the port is fixed (cli/main.rs:24), so that answers to the
\* old client's requests may still reach it.
Reconnect(c) ==
  /\ Disrupt
  /\ RenewMonitor(c)
  /\ GoTo(c, "request")
  /\ threadHash' = [threadHash EXCEPT ![c] = ZeroHash]
  /\ inbox' = [inbox EXCEPT ![c] = <<>>]
  /\ UNCHANGED <<serverUp, serverInbox>>

QueryClientThread(c) ==
  SendRequest(c) \/ ReceiveReply(c) \/ NoReply(c) \/ SendVolunteers(c)

--------------------------------------------------------------------------------
QueryClientTypeOK ==
  /\ clientPC \in [Client -> {"request", "reply", "flush"}]
  /\ threadHash \in [Client -> ProjectHash \cup {ZeroHash}]
================================================================================
