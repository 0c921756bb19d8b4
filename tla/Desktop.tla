--------------------------------- MODULE Desktop ---------------------------------
(***************************************************************************)
(* One Qt application (build_monitor_qt): its communication thread, which  *)
(* refreshes the client's Monitor and swaps new lists in, and its GUI      *)
(* thread, which shows them in a table, sums them up in the tray icon and  *)
(* gives notice of projects that broke or were fixed.  The two share the   *)
(* list `list', guarded (not everywhere) by a mutex.                       *)
(*                                                                         *)
(* What the client's network thread does is left to QueryFeed and          *)
(* MulticastFeed: here the list of the server arrives some time after it   *)
(* has changed.  Of the settings, the server and the list of projects to   *)
(* be notified of are modelled, and saving them succeeds.                  *)
(***************************************************************************)
EXTENDS ClientMonitor

CONSTANTS
  User,           \* the client this application is
  NoProject,      \* the id of a row before its first update, and no project
  Name,           \* Name[p]: the place of p's name in the order of names
  ListStatus,     \* the statuses projects have in this instance
  WatchedFirst,   \* the notify list the settings file holds
  MaxChanges,     \* bound on the changes of a server's list
  MaxSessions,    \* bound on the servers the application is connected to
  MaxToggles      \* bound on the clicks on notify boxes

ASSUME DesktopConstants ==
  /\ User \in Client
  /\ NoProject \notin Project
  /\ Name \in [Project -> Nat]
  /\ \A p, q \in Project : Name[p] = Name[q] => p = q
  /\ ListStatus \subseteq Status
  /\ WatchedFirst \subseteq Project
  /\ {MaxChanges, MaxSessions, MaxToggles} \subseteq Nat

VARIABLES
  \* Shared by the two threads.
  list,         \* BuildMonitor.projects
  running,      \* communicationThreadRunning
  events,       \* projectInformationUpdated signals in the GUI's queue
  \* The communication thread.
  commPC, acquired,
  \* The GUI thread.
  guiPC, quitting,
  toUpdate,     \* projects of the list whose rows are still to be updated
  rows,         \* the rows of the table: status and notify box of a project
  lastStatus,   \* lastProjectStatus
  notifyList,   \* Settings.notifyList
  icon,         \* projectBuildStatusGlobal
  raced,        \* the list has been swapped while the GUI reads it unlocked
  menu,         \* the open context menu: its project, and the row it is at
  toggles,
  \* The server the application is connected to.
  serverList, arrived, changes, sessions,
  \* History.
  notice,       \* notice[p]: the last notice given of p
  turned,       \* <<p, s, t>>: p had status s at the server, and then or later t
  wasWell       \* the projects that were watched and successful in some list, and have
                \* been watched, and successful or failing in every list, since

commVars    == <<commPC, acquired>>
windowVars  == <<rows, lastStatus, icon, notice, wasWell>>
guiVars     == <<guiPC, quitting, toUpdate, notifyList, raced, menu, toggles>>
serverVars  == <<serverList, arrived, changes, sessions, turned>>
vars == <<clientVars, list, running, events, commVars, guiVars, windowVars, serverVars>>

--------------------------------------------------------------------------------
\* The server's list: one that has no projects is never taken (see Taken).
ServerLists ==
  {[p \in S |-> [status |-> f[p], timestamp |-> 0, volunteer |-> NoOne]] :
     S \in SUBSET Project \ {{}}, f \in [Project -> ListStatus]}

\* What has turned into what when the server's list becomes l.
Turned(l) ==
  turned \cup {<<p, l[p].status, l[p].status>> : p \in DOMAIN l}
         \cup {<<t[1], t[2], l[t[1]].status>> :
                 t \in {u \in turned : u[1] \in DOMAIN l}}

ServerChanges ==
  /\ changes < MaxChanges
  /\ changes' = changes + 1
  /\ serverList' \in ServerLists \ {serverList}
  /\ turned' = Turned(serverList')
  /\ UNCHANGED <<clientVars, list, running, events, commVars, guiVars, windowVars,
                 arrived, sessions>>

\* The thread of the client receives the list.
Arrive ==
  /\ commPC \notin {"starting", "stopped"}
  /\ arrived # serverList
  /\ arrived' = serverList
  /\ FillSlot(User, serverList)
  /\ UNCHANGED <<outbox, shown, shownHash, volunteered, list, running, events,
                 commVars, guiVars, windowVars, serverList, changes, sessions,
                 turned>>

--------------------------------------------------------------------------------
\* The communication thread: a Monitor is made and its client started.
StartClient ==
  /\ commPC = "starting"
  /\ running
  /\ commPC' = "refresh"
  /\ UNCHANGED <<clientVars, list, running, events, acquired, guiVars, windowVars,
                 serverVars>>

\* bm_refresh_projects says whether the hash of the list has changed.
RefreshProjects ==
  /\ commPC = "refresh"
  /\ running
  /\ RefreshClient(User)
  /\ commPC' = IF shownHash'[User] = shownHash[User] THEN "refresh" ELSE "acquire"
  /\ UNCHANGED <<list, running, events, acquired, guiVars, windowVars, serverVars>>

AcquireProjects ==
  /\ commPC = "acquire"
  /\ acquired' = shown[User]
  /\ commPC' = "swap"
  /\ UNCHANGED <<clientVars, list, running, events, guiVars, windowVars, serverVars>>

\* Mutant: the GUI thread keeps the mutex while it waits for this thread.
MutexIsFree_StopLocks == guiPC \notin {"table", "stopping"}

\* projectsMutex is the GUI thread's while it fills the table.
MutexIsFree == guiPC \notin {"table", "stuck"}

\* Mutant: the thread does not wait for the mutex.
Swap_IfFree ==
  /\ commPC = "swap"
  /\ list' = IF MutexIsFree THEN acquired ELSE list
  /\ acquired' = EmptyList
  /\ raced' = (raced \/ guiPC = "icon")
  /\ commPC' = "emit"
  /\ UNCHANGED <<clientVars, running, events, guiPC, quitting, toUpdate,
                 notifyList, menu, toggles, windowVars, serverVars>>

Swap ==
  /\ commPC = "swap"
  /\ MutexIsFree
  /\ list' = acquired
  /\ acquired' = EmptyList
  /\ raced' = (raced \/ guiPC = "icon")
  /\ commPC' = "emit"
  /\ UNCHANGED <<clientVars, running, events, guiPC, quitting, toUpdate,
                 notifyList, menu, toggles, windowVars, serverVars>>

\* The signal is put in the queue of the GUI thread.
EmitUpdated ==
  /\ commPC = "emit"
  /\ events' = events + 1
  /\ commPC' = "refresh"
  /\ UNCHANGED <<clientVars, list, running, acquired, guiVars, windowVars, serverVars>>

\* Told to stop, the thread destroys the Monitor, and ends.
EndThread ==
  /\ commPC \in {"starting", "refresh"}
  /\ ~running
  /\ RenewMonitor(User)
  /\ commPC' = "stopped"
  /\ UNCHANGED <<list, running, events, acquired, guiVars, windowVars, serverVars>>

CommunicationThread == \/ StartClient \/ RefreshProjects \/ AcquireProjects
                       \/ Swap \/ EmitUpdated \/ EndThread

--------------------------------------------------------------------------------
\* The GUI thread takes the signal from its queue: onProjectInformationUpdated.
TakeEvent ==
  /\ guiPC = "loop"
  /\ events > 0
  /\ events' = events - 1
  /\ guiPC' = "lock"
  /\ UNCHANGED <<clientVars, list, running, commVars, quitting, toUpdate, notifyList,
                 raced, menu, toggles, windowVars, serverVars>>

Failing == {"Failed", "Unstable", "Aborted"}

\* Mutant: only a failure breaks a project.
SwitchedToFailed_FailureOnly(last, now) == now = "Failed" /\ last = "Success"

SwitchedToFailed(last, now) == now \in Failing /\ last = "Success"
SwitchedToSuccess(last, now) == now = "Success" /\ last \in Failing

\* Mutant: a project that was not there counts as successful, the first
\* status, as lastProjectStatus[id] makes of it.
Last_Default(p) == IF p \in DOMAIN lastStatus THEN {lastStatus[p]} ELSE {"Success"}

\* The status p had in the last list, if it was in it.
Last(p) == IF p \in DOMAIN lastStatus THEN {lastStatus[p]} ELSE {}

NoticeOf(p) ==
  CASE p \in notifyList \cap DOMAIN list
         /\ \E last \in Last(p) : SwitchedToFailed(last, list[p].status) -> "broken"
    [] p \in notifyList \cap DOMAIN list
         /\ \E last \in Last(p) : SwitchedToSuccess(last, list[p].status) -> "fixed"
    [] OTHER -> notice[p]

\* With the mutex taken: notices, and the statuses of this list for the next.
\* Projects that are disabled have no row (showDisabledProjects is off).
GiveNotices ==
  /\ guiPC = "lock"
  /\ notice' = [p \in Project |-> NoticeOf(p)]
  /\ lastStatus' = [p \in DOMAIN list |-> list[p].status]
  /\ wasWell' = {p \in notifyList \cap DOMAIN list :
                   \/ list[p].status = "Success"
                   \/ p \in wasWell /\ list[p].status \in Failing}
  /\ toUpdate' = {p \in DOMAIN list : list[p].status # "Disabled"}
  /\ guiPC' = "table"
  /\ UNCHANGED <<clientVars, list, running, events, commVars, quitting, notifyList,
                 raced, menu, toggles, rows, icon, serverVars>>

\* onTreeRowItemChanged: the notify list follows the box.  A change is saved,
\* and a save calls onProjectInformationUpdated at once: it takes the mutex.
OnRowItemChanged(id, checked) ==
  /\ notifyList' = IF checked THEN notifyList \cup {id} ELSE notifyList \ {id}
  /\ guiPC' = IF notifyList' = notifyList THEN guiPC
              ELSE IF guiPC = "table" THEN "stuck"
              ELSE "lock"

\* Mutant: a row gets its id at the end of its update.
RowId_Last(p) == IF p \in DOMAIN rows THEN p ELSE NoProject

\* The id a row has when its box is set: that of its project (setCheckState
\* comes after the id in ServerOverviewTableEntry::update).
RowId(p) == p

\* The row of p, new or not, is updated; its box emits itemChanged if it turns.
UpdateRow(p) ==
  /\ guiPC = "table"
  /\ p \in toUpdate
  /\ toUpdate' = toUpdate \ {p}
  /\ LET checked == p \in notifyList
     IN  /\ rows' = [q \in DOMAIN rows \cup {p} |->
                       IF q = p THEN [status |-> list[p].status, notify |-> checked]
                                ELSE rows[q]]
         /\ IF p \in DOMAIN rows /\ rows[p].notify = checked
            THEN UNCHANGED <<notifyList, guiPC>>
            ELSE OnRowItemChanged(RowId(p), checked)
  /\ UNCHANGED <<clientVars, list, running, events, commVars, quitting, raced, menu,
                 toggles, lastStatus, icon, notice, wasWell, serverVars>>

\* Rows that are no longer in use are removed, and the mutex is released.
EndTable ==
  /\ guiPC = "table"
  /\ toUpdate = {}
  /\ rows' = [p \in {q \in DOMAIN list : list[q].status # "Disabled"} |-> rows[p]]
  /\ guiPC' = "icon"
  /\ raced' = FALSE
  /\ UNCHANGED <<clientVars, list, running, events, commVars, quitting, toUpdate,
                 notifyList, menu, toggles, lastStatus, icon, notice, wasWell,
                 serverVars>>

Priority == <<"Failed", "Unstable", "Aborted", "NotBuilt", "Success", "Disabled">>

\* The worst status of the projects to be notified of.
WorstOf(l, watched) ==
  LET found == {i \in DOMAIN Priority : \E p \in watched \cap DOMAIN l :
                                           l[p].status = Priority[i]}
  IN  IF found = {} THEN "Unknown"
      ELSE Priority[CHOOSE i \in found : \A j \in found : i <= j]

\* The list is read again, without the mutex: what is read of a list that is
\* swapped meanwhile may be anything.
ComputeIcon ==
  /\ guiPC = "icon"
  /\ icon' \in IF raced THEN ListStatus \cup {"Unknown"} ELSE {WorstOf(list, notifyList)}
  /\ guiPC' = "loop"
  /\ UNCHANGED <<clientVars, list, running, events, commVars, quitting, toUpdate,
                 notifyList, raced, menu, toggles, rows, lastStatus, notice, wasWell,
                 serverVars>>

--------------------------------------------------------------------------------
NoMenu == [project |-> NoProject, row |-> 0]
Row(p) == Cardinality({q \in DOMAIN rows : Name[q] <= Name[p]})

\* What the user does: only while no menu is open.
Idle == guiPC = "loop" /\ menu = NoMenu

\* A click on the notify box of p.
ToggleNotify(p) ==
  /\ Idle
  /\ toggles < MaxToggles
  /\ toggles' = toggles + 1
  /\ p \in DOMAIN rows
  /\ rows' = [rows EXCEPT ![p].notify = ~@]
  /\ OnRowItemChanged(p, ~rows[p].notify)
  /\ wasWell' = wasWell \cap notifyList'
  /\ UNCHANGED <<clientVars, list, running, events, commVars, quitting, toUpdate,
                 raced, menu, lastStatus, icon, notice, serverVars>>

\* The context menu of the row of p, with "Volunteer to Fix" enabled.  It runs
\* an event loop of its own, in which the table goes on being updated.
OpenMenu(p) ==
  /\ Idle
  /\ volunteered < MaxVolunteers
  /\ p \in DOMAIN rows
  /\ rows[p].status \in Failing
  /\ menu' = [project |-> p, row |-> Row(p)]
  /\ UNCHANGED <<clientVars, list, running, events, commVars, guiPC, quitting, toUpdate,
                 notifyList, raced, toggles, windowVars, serverVars>>

\* Volunteer to Fix: the project of the row that is at that place by now.
\* (While its client is not started, a Monitor takes no volunteers.)
ChooseVolunteer ==
  /\ guiPC = "loop"
  /\ menu # NoMenu
  /\ \E p \in DOMAIN rows : /\ Row(p) = menu.row
                            /\ commPC # "starting"
                            /\ SetVolunteering(User, p)
  /\ menu' = NoMenu
  /\ UNCHANGED <<list, running, events, commVars, guiPC, quitting, toUpdate,
                 notifyList, raced, toggles, windowVars, serverVars>>

CloseMenu ==
  /\ guiPC = "loop"
  /\ menu # NoMenu
  /\ menu' = NoMenu
  /\ UNCHANGED <<clientVars, list, running, events, commVars, guiPC, quitting, toUpdate,
                 notifyList, raced, toggles, windowVars, serverVars>>

\* Another server in the settings: the list is cleared, without the mutex,
\* then the thread is told to stop and waited for.
SwitchServer ==
  /\ Idle
  /\ sessions < MaxSessions
  /\ list' = EmptyList
  /\ running' = FALSE
  /\ guiPC' = "stopping"
  /\ UNCHANGED <<clientVars, events, commVars, quitting, toUpdate, notifyList, raced,
                 menu, toggles, windowVars, serverVars>>

Exit ==
  /\ Idle
  /\ running' = FALSE
  /\ quitting' = TRUE
  /\ guiPC' = "stopping"
  /\ UNCHANGED <<clientVars, list, events, commVars, toUpdate, notifyList, raced, menu,
                 toggles, windowVars, serverVars>>

\* The thread has ended: the application closes, or a new thread is started
\* and the window is brought up to date.
JoinAndExit ==
  /\ guiPC = "stopping"
  /\ commPC = "stopped"
  /\ quitting
  /\ guiPC' = "exited"
  /\ UNCHANGED <<clientVars, list, running, events, commVars, quitting, toUpdate,
                 notifyList, raced, menu, toggles, windowVars, serverVars>>

JoinAndRestart ==
  /\ guiPC = "stopping"
  /\ commPC = "stopped"
  /\ ~quitting
  /\ running' = TRUE
  /\ commPC' = "starting"
  /\ guiPC' = "lock"
  /\ sessions' = sessions + 1
  /\ serverList' \in ServerLists
  /\ arrived' = EmptyList
  /\ turned' = Turned(serverList')
  /\ UNCHANGED <<clientVars, list, events, acquired, quitting, toUpdate, notifyList,
                 raced, menu, toggles, windowVars, changes>>

GuiThread == \/ TakeEvent \/ GiveNotices \/ EndTable \/ ComputeIcon
             \/ \E p \in Project : UpdateRow(p)
             \/ JoinAndExit \/ JoinAndRestart

UserStep == \/ \E p \in Project : ToggleNotify(p) \/ OpenMenu(p)
            \/ ChooseVolunteer \/ CloseMenu \/ SwitchServer \/ Exit

--------------------------------------------------------------------------------
\* The constructor has started the thread and brings the window up to date.
Init == /\ ClientInit
        /\ list = EmptyList
        /\ running = TRUE
        /\ events = 0
        /\ commPC = "starting"
        /\ acquired = EmptyList
        /\ guiPC = "lock"
        /\ quitting = FALSE
        /\ toUpdate = {}
        /\ rows = EmptyList
        /\ lastStatus = EmptyList
        /\ notifyList = WatchedFirst
        /\ icon = "Unknown"
        /\ raced = FALSE
        /\ menu = NoMenu
        /\ toggles = 0
        /\ serverList \in ServerLists
        /\ arrived = EmptyList
        /\ changes = 0
        /\ sessions = 1
        /\ notice = [p \in Project |-> "none"]
        /\ turned = {<<p, serverList[p].status, serverList[p].status>> :
                       p \in DOMAIN serverList}
        /\ wasWell = {}

Next == ServerChanges \/ Arrive \/ CommunicationThread \/ GuiThread \/ UserStep

Spec == Init /\ [][Next]_vars

\* Both threads run, the GUI's whatever the user does meanwhile, and a list that
\* the server keeps arrives (Converges of QueryFeed).
Fairness == WF_vars(CommunicationThread) /\ WF_vars(GuiThread) /\ WF_vars(Arrive)

FairSpec == Spec /\ Fairness

--------------------------------------------------------------------------------
Shown == {p \in DOMAIN serverList : serverList[p].status # "Disabled"}

Mapped(S) == UNION {[T -> S] : T \in SUBSET Project}

\* Every variable keeps its type; the ids of the notify list are of projects.
TypeOK ==
  /\ ClientTypeOK
  /\ list \in ProjectList /\ acquired \in ProjectList
  /\ serverList \in ServerLists /\ arrived \in ProjectList
  /\ running \in BOOLEAN /\ quitting \in BOOLEAN /\ raced \in BOOLEAN
  /\ commPC \in {"starting", "refresh", "acquire", "swap", "emit", "stopped"}
  /\ guiPC \in {"loop", "lock", "table", "icon", "stopping", "stuck", "exited"}
  /\ events \in Nat
  /\ toUpdate \in SUBSET Project
  /\ rows \in Mapped([status : Status, notify : BOOLEAN])
  /\ lastStatus \in Mapped(Status)
  /\ notifyList \in SUBSET Project
  /\ icon \in Status
  /\ menu.project \in Project \cup {NoProject}
  /\ notice \in [Project -> {"none", "broken", "fixed"}]
  /\ wasWell \in SUBSET Project

\* The GUI thread never takes the mutex while it holds it.  Filling the table
\* sets notify boxes, a box that turns may save the settings, and a save brings
\* the window up to date, under the mutex: only because boxes are set to what
\* the notify list says of the row's own id does the circle not close.
NeverLocksTwice == guiPC # "stuck"

\* The table and the icon come to show what the server's list says, although
\* the icon is computed from a list that may be swapped under it, and the list
\* of another server may still be swapped in after it was cleared.
ShowsServerList ==
  <>[](\/ guiPC = "exited"
       \/ /\ DOMAIN rows = Shown
          /\ \A p \in Shown : /\ rows[p].status = serverList[p].status
                              /\ rows[p].notify = (p \in notifyList)
          /\ icon = WorstOf(serverList, notifyList))

\* Whoever stops the communication thread gets to the end of waiting for it.
StopsInTheEnd == guiPC = "stopping" ~> guiPC # "stopping"

\* README.md:5, "Notifications when the project state changes.": notice is only
\* given of a change that there was, in that order, in what the server has had,
\* or in what one server had and then the next.
NoticesAreTrue ==
  \A p \in Project :
    /\ notice[p] = "broken" => \E s \in Failing : <<p, "Success", s>> \in turned
    /\ notice[p] = "fixed"  => \E s \in Failing : <<p, s, "Success">> \in turned

\* The same sentence, the other way round: of a project that is watched and shown as
\* failing, and was successful in some list and successful or failing in every list
\* since, the last notice says so, whichever failing statuses it has gone through and
\* whichever servers the lists came from.  (What fails after a list that had it as
\* Disabled, NotBuilt or Unknown is left out: no notice is given of that.)
BreakageIsNoticed ==
  \A p \in wasWell : lastStatus[p] \in Failing => notice[p] = "broken"
================================================================================
