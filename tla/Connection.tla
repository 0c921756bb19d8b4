------------------------------- MODULE Connection -------------------------------
(***************************************************************************)
(* The connection of the Qt application: the address of the server in the  *)
(* settings and in their file, the communication thread, which is stopped  *)
(* and started when the address changes, and the network thread of its     *)
(* client.  An address is a server's together with the mode, multicast or  *)
(* not.                                                                    *)
(*                                                                         *)
(* What is shown is Desktop's; what the network thread does in one pass is *)
(* QueryClient's and MulticastClient's.  On Unix LocalAddresses keeps a    *)
(* multicast client from its loop, and so its thread from ending: what is  *)
(* said here of multicast addresses is of Windows.                         *)
(***************************************************************************)
EXTENDS Naturals

CONSTANTS
  Address,      \* what may be in the settings
  NoAddress,    \* no file, or an empty one; no client
  Default,      \* the address of fresh settings
  Resolvable,   \* the addresses that resolve
  Multicast,    \* the addresses of multicast mode
  MaxApplies,   \* bound on addresses applied
  MaxFaults     \* bound on files that do not open, segments denied, and
                \* threads and processes that die

ASSUME ConnectionConstants ==
  /\ NoAddress \notin Address
  /\ Default \in Address
  /\ Resolvable \subseteq Address
  /\ {MaxApplies, MaxFaults} \subseteq Nat

VARIABLES
  file,           \* Settings.json
  \* The GUI thread.
  guiPC,
  address,        \* Settings.serverAddress and multicast
  chosen,         \* the address in the dialog
  changed,        \* serverPropertiesChanged
  quitting,       \* exitApplication
  running,        \* communicationThreadRunning
  \* The communication thread.
  commPC,
  connected,      \* the address its client has been made with
  \* The network thread.
  netPC,
  clientRunning,  \* MonitorClientThreadData.running
  token,          \* it has been unparked
  \* History, and bounds.
  unannounced,    \* a change of the address could not be saved
  lost,           \* a save was not finished
  applies, faults

guiVars   == <<guiPC, address, chosen, changed, quitting>>
netVars   == <<netPC, clientRunning, token>>
boundVars == <<unannounced, lost, applies, faults>>
connectionVars == <<file, guiVars, running, commPC, connected, netVars, boundVars>>

Fault == faults < MaxFaults /\ faults' = faults + 1

--------------------------------------------------------------------------------
\* Mutant: the dialog's address is assigned, then compared.
Apply_AssignsFirst(a) ==
  /\ guiPC = "loop"
  /\ applies < MaxApplies
  /\ applies' = applies + 1
  /\ chosen' = a
  /\ changed' = FALSE
  /\ guiPC' = "assign"
  /\ UNCHANGED <<file, address, quitting, running, commPC, connected, netVars,
                 unannounced, lost, faults>>

\* The user applies the dialog's settings: onButtonClicked compares the address.
Apply(a) ==
  /\ guiPC = "loop"
  /\ applies < MaxApplies
  /\ applies' = applies + 1
  /\ chosen' = a
  /\ changed' = (address # a)
  /\ guiPC' = "assign"
  /\ UNCHANGED <<file, address, quitting, running, commPC, connected, netVars,
                 unannounced, lost, faults>>

\* The string is assigned, which is no single step to another thread.
Assign ==
  /\ guiPC = "assign"
  /\ address' = chosen
  /\ guiPC' = "save"
  /\ UNCHANGED <<file, chosen, changed, quitting, running, commPC, connected,
                 netVars, boundVars>>

\* A click on a notify box, or the window is closed to the tray.
SaveSettings ==
  /\ guiPC = "loop"
  /\ changed' = FALSE
  /\ guiPC' = "save"
  /\ UNCHANGED <<file, address, chosen, quitting, running, commPC, connected,
                 netVars, boundVars>>

\* saveSettings opens the file, which empties it; then settingsChanged is emitted,
\* and onSettingsChanged returns before saveSettings does.
OpenFile ==
  /\ guiPC = "save"
  /\ file' = NoAddress
  /\ lost' = TRUE
  /\ guiPC' = IF changed THEN "stop" ELSE "flush"
  /\ UNCHANGED <<address, chosen, changed, quitting, running, commPC, connected,
                 netVars, unannounced, applies, faults>>

\* The file does not open: nothing is written, and nobody is told.
FailToOpen ==
  /\ guiPC = "save"
  /\ Fault
  /\ lost' = (lost \/ changed)
  /\ unannounced' = (unannounced \/ changed)
  /\ guiPC' = IF quitting THEN "exited" ELSE "loop"
  /\ UNCHANGED <<file, address, chosen, changed, quitting, running, commPC,
                 connected, netVars, applies>>

\* stopCommunicationThread.
Stop ==
  /\ guiPC = "stop"
  /\ running' = FALSE
  /\ guiPC' = "join"
  /\ UNCHANGED <<file, address, chosen, changed, quitting, commPC, connected,
                 netVars, boundVars>>

\* The thread has ended, and startCommunicationThread starts another.
JoinAndRestart ==
  /\ guiPC = "join"
  /\ commPC = "ended"
  /\ ~quitting
  /\ running' = TRUE
  /\ commPC' = "starting"
  /\ guiPC' = "flush"
  /\ unannounced' = FALSE
  /\ UNCHANGED <<file, address, chosen, changed, quitting, connected, netVars, lost,
                 applies, faults>>

\* Mutant: the file stays open until the application exits.
Flush_AtExit ==
  /\ guiPC = "flush"
  /\ file' = IF quitting THEN address ELSE file
  /\ lost' = FALSE
  /\ guiPC' = IF quitting THEN "exited" ELSE "loop"
  /\ UNCHANGED <<address, chosen, changed, quitting, running, commPC, connected,
                 netVars, unannounced, applies, faults>>

\* saveSettings returns: the QFile goes, and its buffer is written.
Flush ==
  /\ guiPC = "flush"
  /\ file' = address
  /\ lost' = FALSE
  /\ guiPC' = IF quitting THEN "exited" ELSE "loop"
  /\ UNCHANGED <<address, chosen, changed, quitting, running, commPC, connected,
                 netVars, unannounced, applies, faults>>

\* exit() stops the thread, and closes the window, which saves the settings.
Exit ==
  /\ guiPC = "loop"
  /\ quitting' = TRUE
  /\ running' = FALSE
  /\ guiPC' = "join"
  /\ UNCHANGED <<file, address, chosen, changed, commPC, connected, netVars, boundVars>>

JoinAndClose ==
  /\ guiPC = "join"
  /\ commPC = "ended"
  /\ quitting
  /\ changed' = FALSE
  /\ guiPC' = "save"
  /\ UNCHANGED <<file, address, chosen, quitting, running, commPC, connected, netVars,
                 boundVars>>

GuiStep == \/ Assign \/ OpenFile \/ FailToOpen \/ Stop \/ JoinAndRestart
           \/ Flush \/ JoinAndClose

--------------------------------------------------------------------------------
\* What a read of the address may give: anything while another is assigned.  (The
\* same one is copied over itself, byte by byte.)
Readable == IF guiPC = "assign" /\ changed THEN Address ELSE {address}

\* Monitor::start_client: if the address resolves, a client is made, and its thread.
NewClient(a) ==
  /\ a \in Resolvable
  /\ connected' = a
  /\ clientRunning' = TRUE
  /\ token' = FALSE
  /\ netPC' = "check"

\* The communication thread starts a client, and tries again in a second if the
\* address does not resolve.
StartClient ==
  /\ commPC = "starting"
  /\ running
  /\ \E a \in Readable : NewClient(a)
  /\ commPC' = "refresh"
  /\ UNCHANGED <<file, guiVars, running, boundVars>>

\* Told to stop, the thread destroys its Monitor, and a client with it.
LeaveLoop ==
  /\ commPC \in {"starting", "refresh"}
  /\ ~running
  /\ commPC' = IF connected = NoAddress THEN "ended" ELSE "tell"
  /\ UNCHANGED <<file, guiVars, running, connected, netVars, boundVars>>

\* Mutant: a thread that is woken is not told why.
TellClient_Not ==
  /\ commPC = "tell"
  /\ commPC' = "unpark"
  /\ UNCHANGED <<file, guiVars, running, connected, netVars, boundVars>>

\* Drop of MonitorClient: the network thread is told,
TellClient ==
  /\ commPC = "tell"
  /\ clientRunning' = FALSE
  /\ commPC' = "unpark"
  /\ UNCHANGED <<file, guiVars, running, connected, netPC, token, boundVars>>

\* Mutant: and not woken,
Unpark_Not ==
  /\ commPC = "unpark"
  /\ commPC' = "join"
  /\ UNCHANGED <<file, guiVars, running, connected, netVars, boundVars>>

\* woken,
Unpark ==
  /\ commPC = "unpark"
  /\ token' = TRUE
  /\ commPC' = "join"
  /\ UNCHANGED <<file, guiVars, running, connected, netPC, clientRunning, boundVars>>

\* and waited for, whether it returns or has panicked.
JoinClient ==
  /\ commPC = "join"
  /\ netPC = "ended"
  /\ connected' = NoAddress
  /\ commPC' = "ended"
  /\ UNCHANGED <<file, guiVars, running, netVars, boundVars>>

CommunicationThread == StartClient \/ LeaveLoop \/ TellClient \/ Unpark \/ JoinClient

--------------------------------------------------------------------------------
\* The loop of the network thread.
CheckRunning ==
  /\ netPC = "check"
  /\ netPC' = IF clientRunning THEN "pass" ELSE "ended"
  /\ UNCHANGED <<file, guiVars, running, commPC, connected, clientRunning, token,
                 boundVars>>

\* A query client parks for 15 s, a multicast client sleeps for half of one.
Pass ==
  /\ netPC = "pass"
  /\ netPC' = IF connected \in Multicast THEN "asleep" ELSE "parked"
  /\ UNCHANGED <<file, guiVars, running, commPC, connected, clientRunning, token,
                 boundVars>>

\* A request cannot be sent: the thread panics, which nobody notices.
Panic ==
  /\ netPC = "pass"
  /\ Fault
  /\ netPC' = "ended"
  /\ UNCHANGED <<file, guiVars, running, commPC, connected, clientRunning, token,
                 unannounced, lost, applies>>

Wake ==
  /\ netPC \in {"parked", "asleep"}
  /\ token' = (token /\ netPC = "asleep")
  /\ netPC' = "check"
  /\ UNCHANGED <<file, guiVars, running, commPC, connected, clientRunning, boundVars>>

NetworkThread == CheckRunning \/ Pass \/ Wake

--------------------------------------------------------------------------------
\* Mutant: a file that is no JSON is taken for its settings.
Loaded_AsIs == file

\* What loadSettings makes of the file: without an address it is the default.
Loaded == IF file = NoAddress THEN Default ELSE file

\* The window is made: the settings are loaded, and the thread is started.
Open ==
  /\ guiPC = "off"
  /\ address' = Loaded
  /\ chosen' = address'
  /\ changed' = FALSE
  /\ quitting' = FALSE
  /\ running' = TRUE
  /\ commPC' = "starting"
  /\ guiPC' = "loop"
  /\ unannounced' = FALSE
  /\ lost' = FALSE
  /\ UNCHANGED <<file, connected, netVars, applies, faults>>

Off == /\ guiPC' = "off"
       /\ running' = FALSE
       /\ commPC' = "ended"
       /\ connected' = NoAddress
       /\ netPC' = "ended"
       /\ clientRunning' = FALSE
       /\ UNCHANGED <<file, address, chosen, changed, quitting, token, unannounced,
                      applies>>

\* The window is closed, and main returns.
Close == guiPC = "exited" /\ Off /\ UNCHANGED <<lost, faults>>

\* The process dies, and with it an address that is not saved yet.
Crash == /\ guiPC # "off"
         /\ Fault
         /\ lost' = (lost \/ (guiPC \in {"assign", "save"} /\ changed))
         /\ Off

ConnectionInit ==
  /\ file = NoAddress
  /\ guiPC = "off"
  /\ address = Default
  /\ chosen = Default
  /\ changed = FALSE
  /\ quitting = FALSE
  /\ running = FALSE
  /\ commPC = "ended"
  /\ connected = NoAddress
  /\ netPC = "ended"
  /\ clientRunning = FALSE
  /\ token = FALSE
  /\ unannounced = FALSE
  /\ lost = FALSE
  /\ applies = 0
  /\ faults = 0

UserStep == SaveSettings \/ Exit \/ \E a \in Address : Apply(a)

WindowStep == UserStep \/ GuiStep \/ CommunicationThread \/ NetworkThread \/ Panic

--------------------------------------------------------------------------------
ConnectionTypeOK ==
  /\ file \in Address \cup {NoAddress} /\ connected \in Address \cup {NoAddress}
  /\ address \in Address /\ chosen \in Address
  /\ guiPC \in {"off", "loop", "assign", "save", "stop", "join", "flush", "exited"}
  /\ commPC \in {"starting", "refresh", "tell", "unpark", "join", "ended"}
  /\ netPC \in {"check", "pass", "parked", "asleep", "ended"}
  /\ {changed, quitting, running, clientRunning, token, unannounced, lost} \subseteq BOOLEAN
  /\ applies \in 0..MaxApplies
  /\ faults \in 0..MaxFaults

\* The window, which waits while its thread does, never waits for the 15 s of a
\* query client: by the time the network thread is joined it has been woken, or
\* sees that it is to end before it parks.
JoinIsPrompt == commPC = "join" /\ netPC = "parked" => token

\* What has been applied is there after a restart, and after a death, but for
\* one in the midst of a save (the file is empty while the thread is waited
\* for), and for a save the file did not open for.
SettingsSurvive == guiPC = "off" /\ ~lost => Loaded = address

Panicked == netPC = "ended" /\ clientRunning

\* The application comes to be connected to the address it has, whatever the
\* thread has read of a string in the middle of its assignment, unless the
\* address does not resolve, could not be saved (Settings.cpp:180), or the
\* network thread has panicked.
FollowsSettings ==
  <>[](\/ guiPC \in {"exited", "off"}
       \/ address \notin Resolvable
       \/ unannounced
       \/ Panicked
       \/ connected = address /\ netPC # "ended")

\* The window gets to the end of waiting for its thread, wherever that is and
\* whatever has become of the network thread.
WindowGoesOn == guiPC = "join" ~> guiPC # "join"
================================================================================
