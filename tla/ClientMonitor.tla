----------------------------- MODULE ClientMonitor -----------------------------
(***************************************************************************)
(* The Monitor of a client process and the data it shares with the         *)
(* client's thread (monitor_client.rs:12-19): the thread leaves a received *)
(* list in a slot, the application's thread polls the slot and shows what  *)
(* it finds; a volunteering goes the other way through a queue.            *)
(***************************************************************************)
EXTENDS ProjectData, Sequences

CONSTANT MaxVolunteers   \* bound on the volunteerings of this instance

ASSUME MaxVolunteersIsNat == MaxVolunteers \in Nat

VARIABLES
  slot,          \* slot[c]: MonitorClientThreadData.projects
  outbox,        \* outbox[c]: the volunteers queued for the thread
  shown,         \* shown[c]: Monitor.projects of the client
  shownHash,     \* shownHash[c]: Monitor.projects_hash, the hash of the list
                 \* the application was last told to display
  volunteered    \* volunteerings so far

clientVars == <<slot, outbox, shown, shownHash, volunteered>>

ClientInit == /\ slot = [c \in Client |-> EmptyList]
              /\ outbox = [c \in Client |-> <<>>]
              /\ shown = [c \in Client |-> EmptyList]
              /\ shownHash = [c \in Client |-> MaxHash]
              /\ volunteered = 0

--------------------------------------------------------------------------------
\* Mutant: the user's own name is carried over to the new list.
Taken_KeepsOwnName(c) ==
  IF slot[c] = EmptyList
  THEN shown[c]
  ELSE [p \in DOMAIN slot[c] |->
          IF p \in DOMAIN shown[c] /\ shown[c][p].volunteer = c
          THEN [slot[c][p] EXCEPT !.volunteer = c]
          ELSE slot[c][p]]

\* refresh_projects with a client: the slot is drained if it holds a list with
\* projects in it, and the hash of the list shown is compared and kept.
Taken(c) == IF slot[c] # EmptyList THEN slot[c] ELSE shown[c]

RefreshClient(c) ==
  /\ shown' = [shown EXCEPT ![c] = Taken(c)]
  /\ slot' = [slot EXCEPT ![c] = EmptyList]
  /\ shownHash' = [shownHash EXCEPT ![c] = Hash(Taken(c))]
  /\ UNCHANGED <<outbox, volunteered>>

\* set_volunteering: the user's name goes onto the list shown at once, and
\* into the queue for the server.  The table the user clicks in may be older
\* than the list, so the project need not be in the list.
SetVolunteering(c, p) ==
  /\ volunteered < MaxVolunteers
  /\ volunteered' = volunteered + 1
  /\ shown' = [shown EXCEPT ![c] = SetVolunteer(@, p, c)]
  /\ outbox' = [outbox EXCEPT ![c] = Append(@, p)]
  /\ UNCHANGED <<slot, shownHash>>

\* A new Monitor and a new client, as after a change of the settings
\* (BuildMonitor.cpp:295-310): what was queued or shown is gone.
RenewMonitor(c) ==
  /\ slot' = [slot EXCEPT ![c] = EmptyList]
  /\ outbox' = [outbox EXCEPT ![c] = <<>>]
  /\ shown' = [shown EXCEPT ![c] = EmptyList]
  /\ shownHash' = [shownHash EXCEPT ![c] = MaxHash]
  /\ UNCHANGED volunteered

\* Mutant: the fields the hash leaves out do not travel.
FillSlot_HashedOnly(c, l) ==
  slot' = [slot EXCEPT ![c] = [p \in DOMAIN l |-> [l[p] EXCEPT !.timestamp = 0]]]

\* A list arrives in the slot, over the one that may still be there.
FillSlot(c, l) == slot' = [slot EXCEPT ![c] = l]

--------------------------------------------------------------------------------
ClientTypeOK ==
  /\ slot \in [Client -> ProjectList]
  /\ outbox \in [Client -> Seq(Project)]
  /\ shown \in [Client -> ProjectList]
  /\ shownHash \in [Client -> ProjectHash \cup {MaxHash}]
  /\ volunteered \in Nat

\* A step of a client shows of no project an earlier build than the one it
\* showed.  (0: no build.)
ShowsNothingOlder ==
  \A c \in Client : \A p \in DOMAIN shown[c] \cap DOMAIN shown'[c] :
    shown'[c][p].timestamp >= shown[c][p].timestamp \/ shown'[c][p].timestamp = 0
================================================================================
