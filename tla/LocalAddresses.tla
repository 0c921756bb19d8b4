------------------------------ MODULE LocalAddresses ------------------------------
(***************************************************************************)
(* How a multicast client's thread gets to listen on a Unix system: it     *)
(* collects the addresses of the local interfaces (get_local_addresses,    *)
(* utils.rs:11-43), joins the group on each, and enters its receive loop.  *)
(***************************************************************************)
EXTENDS Naturals, Sequences, SequencesExt

CONSTANTS
  Address,         \* addresses of interfaces
  NoAddress,       \* an interface without one (ifa_addr is null)
  MaxInterfaces    \* bound on the interfaces of the host

VARIABLES
  interfaces,   \* what getifaddrs returns, a linked list
  address,      \* address_ptr: the position in that list
  result,       \* the addresses collected (as a set: duplicates join twice)
  joined,       \* the addresses the group was joined on
  threadPC      \* "collecting", "joining" or "listening"

vars == <<interfaces, address, result, joined, threadPC>>

\* An interface is usable if it is up, no loopback, and has an IPv4 address.
Interface == [addr : Address \cup {NoAddress}, usable : BOOLEAN]

Init == /\ interfaces \in BoundedSeq(Interface, MaxInterfaces)
        /\ address = 1
        /\ result = {}
        /\ joined = {}
        /\ threadPC = "collecting"

AtEnd == address > Len(interfaces)

\* `continue' is the only path that moves on to the next interface.
SkipInterface ==
  /\ threadPC = "collecting"
  /\ ~AtEnd
  /\ interfaces[address].addr = NoAddress
  /\ address' = address + 1
  /\ UNCHANGED <<interfaces, result, joined, threadPC>>

\* The loop goes round with the same interface: in the model, for ever in the
\* same state (the code collects its address once more each time).
TakeInterface ==
  /\ threadPC = "collecting"
  /\ ~AtEnd
  /\ interfaces[address].addr # NoAddress
  /\ result' = IF interfaces[address].usable
               THEN result \cup {interfaces[address].addr}
               ELSE result
  /\ UNCHANGED <<interfaces, address, joined, threadPC>>

EndCollecting == /\ threadPC = "collecting"
                 /\ AtEnd
                 /\ threadPC' = "joining"
                 /\ UNCHANGED <<interfaces, address, result, joined>>

Join == /\ threadPC = "joining"
        /\ \E a \in result \ joined : joined' = joined \cup {a}
        /\ UNCHANGED <<interfaces, address, result, threadPC>>

Listen == /\ threadPC = "joining"
          /\ joined = result
          /\ threadPC' = "listening"
          /\ UNCHANGED <<interfaces, address, result, joined>>

Next == SkipInterface \/ TakeInterface \/ EndCollecting \/ Join \/ Listen

\* The thread runs.
FairSpec == Init /\ [][Next]_vars /\ WF_vars(Next)

--------------------------------------------------------------------------------
\* README.md:14, "Every client will listen for messages on the multicast
\* address.": the thread enters its receive loop.
EveryClientListens == <>(threadPC = "listening")
================================================================================
