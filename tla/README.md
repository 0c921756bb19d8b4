# BuildMonitor, specified

BuildMonitor watches a Jenkins server. One server process crawls Jenkins and
keeps a list of projects; clients, usually the Qt application in the tray, get
that list over UDP, show it, give notice of projects that broke or were fixed,
and let a user put a name on a broken project ("volunteer to fix"). This
directory holds TLA+ models of that system, the TLC runs that check them and
proofs checked by TLAPS.

## 1. The system

| Part | Source | State it keeps | Operations |
|---|---|---|---|
| Monitor (server) | `build_monitor/src/monitor.rs` | list of projects behind a lock, its hash | `refresh_projects`, `refresh_folder`, `update_clients` |
| Reading a project | `build_monitor/src/project.rs` | one `Project` | `refresh_status`: up to four requests |
| Server thread, query mode | `monitor_server.rs:235-306` | snapshot of the hash | answer requests, record volunteers |
| Server thread, multicast mode | `monitor_server.rs:112-233` | shared and local `needs_refresh` | drain, broadcast, beacon |
| Client thread, query mode | `monitor_client.rs:201-273` | hash of the last list | poll, receive one packet, send volunteers |
| Client thread, multicast mode | `monitor_client.rs:95-199` | has a list yet, address of the server | receive lists and beacons, send volunteers |
| Monitor (client) | `monitor.rs`, `monitor_client.rs:281-340` | slot for a list, queue of volunteers, list shown | `refresh_projects`, `set_volunteering` |
| Qt application | `build_monitor_qt/BuildMonitor.cpp` | list behind a mutex, last statuses, icon | communication thread, update of the window, change of server, exit |
| Qt table | `ServerOverviewTable*.cpp` | rows with notify boxes | fill, click, context menu |
| Qt settings | `Settings.cpp`, `SettingsDialog.cpp` | address and mode of the server, notify list, ... | load, save, announce, apply |
| Guard against a second instance | `SingleInstanceMode.h`, `main.cpp` | a segment of shared memory | construct, `isAlreadyRunning`, destroy |
| Command line, C interface | `cli/src/main.rs`, `capi/src/lib.rs` | - | loops and calls around the above |

How they interact. The thread that refreshes and the server's thread share the
list (a lock) and `needs_refresh` (another). Server and client exchange five
datagrams: a request for the list with the hash the client has, "no update",
the list, "volunteer added", and a beacon. The client's thread leaves a list in
a slot which the application's thread polls every second; volunteers go the
other way through a queue. In the Qt application a communication thread does
the polling and swaps each new list in under a mutex, then queues a signal for
the GUI thread.

What is hard about it: two threads that read and clear one flag; a crawl that
takes seconds while volunteers change the list it will replace; datagrams that
are lost, late, duplicated or overtaken, with neither sequence number nor
acknowledgement; servers and clients that restart; Jenkins that goes on between
the requests that make up one project; a GUI that reads the shared list outside
its mutex and runs event loops inside event handlers; an address that is changed
while one thread reads it and another sleeps on it; an application that dies and
leaves a half-written file or a segment of memory behind. `PROJECT.json` lists these
hazards at the lines where they bite, with the properties aimed at each.

## 2. The modules

| Module | Models |
|---|---|
| `ProjectStatus` | the statuses and what results of builds make of them |
| `ProjectData` | list, hash, volunteers; saving and carrying volunteers over |
| `Wire` | messages, receive buffers, faults of the network |
| `Jenkins` | the crawled server, from the requests the code makes of it (external) |
| `ServerMonitor` | `refresh_projects` in stages, recording volunteers, restart |
| `FolderCrawl` | the crawl of `refresh_projects` through nested folders, page by page, while Jenkins changes |
| `Census` | what a crawl promises, in one step |
| `QueryServer`, `MulticastServer` | the two server threads |
| `ClientMonitor` | slot, queue, list shown, volunteering |
| `QueryClient`, `MulticastClient` | the two client threads |
| `QueryFeed`, `MulticastFeed` | the whole system in either mode, with its properties |
| `ProjectBoard` | what either mode promises: a board and viewers |
| `QueryFeedBoard`, `MulticastFeedBoard` | the refinement of `ProjectBoard` |
| `ProjectRefresh` | one project read request by request while Jenkins goes on |
| `Desktop` | one Qt application: both threads, list, table, icon, notices, menu |
| `SingleInstance` | the guard: any number of processes at the shared segment |
| `Connection` | the address from the dialog to the file and to the client; start, stop and joining of the communication and the network thread |
| `Application` | the two together: the application's life through starts, exits and deaths |
| `LocalAddresses` | how a multicast client on Unix gets to its receive loop |
| `MC*` | the instances for TLC |
| `*Proofs` | the theorems |

Correspondence. Names are the code's where TLA+ allows it: `needsRefresh`,
`projectsHash`, `slot` (`MonitorClientThreadData.projects`), `lastStatus`
(`lastProjectStatus`). A thread has a program counter whose values are the
places where another thread may get in between: where a lock is released, a
datagram sent or received, or a sleep begins. What lies between is one action.
Every action that stands for code is mapped to its lines in `PROJECT.json`.

### Abstractions

* A list is a function from project ids to entries. `status` stands for all
  fields that `Project::hash` covers, `timestamp` for those it does not; the
  distinction matters, because a change of the latter is not sent.
* The hash of a list is the list of its hashed fields: no collisions. 0 and
  `u64::MAX`, which the code uses for "no list", are no list's hash.
* `ServerMonitor` crawls one folder. `FolderCrawl` crawls any tree of them and
  says what the list means then (`Census`): it has every project that was there
  throughout the crawl, and none that never was. A url is a sequence of names; a
  project that is moved is another project, as ids are hashes of urls.
* `ServerMonitor` reads a project in one step. `ProjectRefresh` reads it in four
  and justifies that: `StatusWasTrue`, proved, says that the status is one the
  job had at a moment of the refresh, but for a page that is refused. Any answer
  but 200 counts as "not found" (`project.rs:146`), and the refresh carries on:
  the job passes for one that was never built, or has no status while it builds.
  `MisreadProject` is that in `ServerMonitor`; it counts as a disruption, as a
  request without an answer does, which makes the refresh fail. That a success may
  lose its date the same way is in `ProjectRefresh` only.
* The encoding of messages, the protocol version, the texts shown and the
  files read are left out. A panic (an `unwrap` on a page Jenkins does not
  send) is left out.
* `recv` and the handling of the datagram are one action: nothing else sees the
  buffer between. Volunteering writes the list shown and the queue in one
  action; only the one thread that volunteers touches the queue's end.
* A reconnect of a client stands for a change of the settings and for a client
  process that ends anywhere and starts again. In query mode the requests of
  the former client stay in the server's queue and are answered to the new one,
  which happens when the port is fixed (`cli/src/main.rs:24`).
* `Connection` keeps of the network threads where they may be when they are
  told to end; what they receive is `QueryClient`'s and `MulticastClient`'s. An
  address is a server's together with the mode, as the two are compared and
  announced together. A read of the address while it is assigned
  (`BuildMonitor.cpp:256`) gives any address.
* In `SingleInstance` what happens under one semaphore is one step. The segment
  is Unix's, which stays behind if its last process dies; Windows removes it
  then, and the constructor's fix finds nothing to do. The system may deny a process
  the segment, to the constructor (`ConstructUnfixed`) or to `isAlreadyRunning`,
  whose `create` fails then (`RefuseDenied`).
* In `Desktop` the client's network thread is replaced by "a list that the
  server keeps arrives", which is what `QueryFeed` is checked for.
* A read of the list outside the mutex, while the list is swapped
  (`BuildMonitor.cpp:422`), is undefined in C++: `Desktop` lets the icon become
  anything. That it may crash is not modelled.

## 3. The runs

`MaxDisruptions` bounds, together, lost, duplicated and overtaken datagrams,
answers later than the client's wait, failed refreshes, refused pages, restarts
and reconnects. Each run says in its configuration how many there may be.

| Run | Instance | Checks | Shows |
|---|---|---|---|
| `QuerySafety` | 1 client, 1 project that is not built, Success or misread, 2 disruptions, 1 volunteering | `TypeOK`, `HashMatchesShown`, `BacklogIsCaused`, `OnTheBoard`, `VolunteersKept`, `BoardSpec` | query mode implements `ProjectBoard`; the hash polled with is that of the list held; answers pile up only if something went wrong; a refresh keeps the volunteers of projects that are not fixed |
| `QueryConverges` | 1 client, 1 disruption but no overtaking, 2 changes at Jenkins | `Converges`, `ReadsJenkins`, `NeverGoesBack` | the client ends with the server's list, the server with Jenkins's state; on a network that keeps the order no client goes back to an older build |
| `QueryTwoClients` | 2 clients, no disruption, one volunteering, by either | `Converges`, `VolunteerRecorded` | the same of two clients on one socket, with the name that one of them puts on a project; the volunteering gets to the server's list |
| `Multicast` | 1 client, 2 hosts, 1 disruption, 1 volunteering | `TypeOK`, `BoardSpec`, `VolunteersKept`, `FlagLeadsToBroadcast`, `Informed` | multicast mode implements `ProjectBoard` too, also when the server moves to another host, and keeps volunteers as query mode does; a flag raised while the thread is not sending leads to a broadcast; beacons get a list to every client, through any one fault or restart |
| `FolderCrawl` | 4 nested folders, 4 projects, 3 changes or failures | `TypeOK`, `ReadsOnce`, `CensusSpec`, `ListsJenkins` | no project is read twice and no folder waits twice, although folders are deleted and created behind and ahead of the crawl; the crawl implements `Census`; once Jenkins is left alone the list is what Jenkins has |
| `ProjectRefresh` | 3 builds, 2 incidents | `TypeOK`, `StatusWasTrue`, `SuccessIsDated`, `ReportsStatus` | what is put together of several requests is a state the job was in and a success has its date, but for what a refused page or a deletion accounts for; in the end the status is the true one |
| `Desktop` | 1 project that may be Success, Unstable or Disabled, 2 servers, 1 change, 1 click, 1 volunteering | `TypeOK`, `NeverLocksTwice`, `NoticesAreTrue`, `BreakageIsNoticed`, `ShowsServerList`, `StopsInTheEnd` | filling the table never takes the mutex again; notice is given of no change that was not, and of a breakage that follows a success, whichever lists the window has missed; table and icon end up right; stopping the thread never hangs |
| `Application` | 2 processes, 3 starts; 3 addresses (query, multicast, one that does not resolve), 2 applied; 2 faults or deaths | `TypeOK`, `OneInstance`, `RefusedForAReason`, `JoinIsPrompt`, `SettingsSurvive`, `FollowsSettings`, `WindowGoesOn` | one instance runs, and nobody is turned away by the segment of a dead one, or by what another process was denied; the window never waits out the 15 s a client sleeps, and gets to the end of waiting for its thread; the address applied is there after a restart, but for a death or a failure in its save; the application ends up connected to the address it has |

Four runs end in a violation: the code does otherwise than the README says.

| Run | Property | What happens |
|---|---|---|
| `VolunteerLost` | `OwnNameIsShared` | a volunteer recorded during a crawl is overwritten at its end (`monitor.rs:147`); his own window may go on showing the name until the list changes again |
| `MulticastMissed` | `Converges` | `needs_refresh` is set between its reading and its clearing and the change is never sent (`monitor_server.rs:208`) |
| `VolunteerUnheard` | `VolunteerReachesTeam` | a client with a list and no beacon yet throws the volunteer away (`monitor_client.rs:83`) |
| `LocalAddresses` | `EveryClientListens` | on Unix the loop over the interfaces does not advance past one with an address (`utils.rs:25`) |

Met while modelling, without a run of their own: the command line starts its
server in query mode (`main.rs:49`), while `README.md:14` says that every client
listens on the multicast address and `README.md:17` that the server is started on
it; a page that is refused for a moment counts as one that is not there
(`project.rs:146`), so that a job is reported as not built, or as well without
the date of a success, until the next refresh (the exceptions in `StatusWasTrue`
and `SuccessIsDated`); where the segment of the guard can be neither attached to
nor created, the application says that another instance runs and ends
(`SingleInstanceMode.h:55`: the exception in `RefusedForAReason`); a
file that does not open for a save is reported to nobody, so the application
stays connected to the former server and applying the same address again
changes nothing (`Settings.cpp:180`: the exception in `FollowsSettings`); the
settings file is empty from its opening until the communication thread has been
joined (`Settings.cpp:178-185`), so that a death in between loses all settings
(the exception in `SettingsSurvive`, which is therefore no check of either: what
it shows is that a save that ended is on disk); a folder that is deleted between its
listing and its crawl makes the whole refresh fail (`monitor.rs:305`); a request
that cannot be sent ends the client's thread with a panic nobody sees
(`monitor_client.rs:33`: the exception in `FollowsSettings`), a beacon that
cannot, the server's (`monitor_server.rs:227`, not modelled); where
`LocalAddresses` keeps a multicast client from its loop, stopping that client
waits for ever, which `Connection` leaves out; after one late answer each
poll receives the answer to the poll before (`monitor_client.rs:245`; that it is
no worse is `BacklogIsCaused`); a project that goes from Success over Unknown,
Disabled or NotBuilt to Failed breaks without a notice (`BuildMonitor.cpp:345`:
`BreakageIsNoticed` leaves it out); the table may change under an open context menu, and the name goes on
the project that is in that row by then (`ServerOverviewTable.cpp:184`;
`ChooseVolunteer` models it).

### Bounds, and why they are enough

* One project and one client where a property speaks of one project and one
  client at a time and clients do not see each other; two clients where they
  share the server's queue. That lists of several projects do not mix is part of
  the refinement theorem, which is proved for any set of projects.
* `Buffer` 2 or 3: a buffer overflows, and an answer can wait behind another.
* `MaxTime` 1 or 2: a list can be replaced twice, so that an old, a newer and
  the newest list are on their way together.
* `MaxDisruptions` 1 or 2: a fault, and one more during the recovery from it.
* `QueryTwoClients`: one volunteering in all. With two, TLC does not end in the
  time a run has; that each of several is kept by the server is the theorem
  `NoVolunteerIsDropped`, for any clients.
* `ProjectRefresh`: three builds, the last, the last completed and the last
  successful one, all different; two deletions, switches, refused pages or failed
  requests.
* `Desktop`: three lists come one after the other, the last from another server:
  the window, the list, the communication thread and the client can each hold
  another one, and a project is successful, disabled and failing in any order. Of
  the failing statuses only Unstable occurs, the one that is easiest to forget;
  they are treated alike (`Failing`). NotBuilt and Unknown are treated as Disabled
  is, but for the row. Two projects in the table are left to the theorems.
* `FolderCrawl`: the root, two folders in it and one in one of those, a project in each:
  one change behind the crawl and one ahead of it, with one more or a failed
  request in between; deleted folders come back.
* `Application`: an address is replaced by another one and that by a third, by one
  that does not resolve among them; a death and another one, a file that does not
  open, a segment that is denied or a network thread that panics, during the recovery from it. Two
  processes at the guard are enough for one to die while the other waits; three
  starts let one of them come back.
* Overtaking datagrams occur in `QuerySafety` and `Multicast`. That a volunteering is recorded is checked without faults
  and in query mode only; `VolunteerUnheard` shows where multicast mode fails.

### Fairness

Every thread is an endless loop that no one stops, so each gets its weakly fair
step. Two steps are strongly fair: the server's threads leave their receive loop
when their socket is empty time and again, which requests every 15 s (query) and
a few datagrams a second (multicast) against a poll every 5 ms justify. In
`QueryFeed` the premise of `Converges`, `ServerKeepsUp`, says the same of the
queue; in `MulticastFeed` that of `VolunteerReachesTeam`, `ClientsKeepUp`, says it
of the clients' queues (two beacons a second at most). Nothing is assumed of
Jenkins, the network, users or restarts: their steps are bounded, not fair. Beacons are due at least every second round, as
rounds of 500 ms and a beacon every second make them. In `Desktop`, "a list that
the server keeps arrives" is weakly fair because `QueryConverges` shows it.

`FolderCrawl` assumes that the server's main loop goes on refreshing.
`Application` assumes that the GUI thread, the communication thread and the
network thread run while their process does, and that an address that resolves at
all does so in the end; nothing is assumed of the user, who may stop applying
addresses or exit, nor of starts and deaths. A sleep or a park ends by itself.

Deadlock is checked in all runs but `LocalAddresses` (the thread's part that is
modelled ends), `Desktop` (the user may exit) and `Application` (all processes
may have ended, and nobody has to start another).

## 4. What is proved

Every invariant, every action property and every refinement that a passing run
checks is also a theorem; what is only model-checked is liveness. The theorems
hold for every value of the constants that satisfies the ASSUMEs of the modules:
any set of projects and clients, any buffers, faults and restarts. The two named
`ShownGoesForward` have a hypothesis of their own, given below.

Shared by both modes. `ClientMonitorProofs` and `MonitorProofs` hold the lemmas
about the operators the modes are built from: what `Deliver` makes of a queue (its
elements, its length, its type), that `SetVolunteer` and `CarryVolunteers` return
lists and touch nothing but names, that a refresh keeps the Monitor's types, its
volunteers and the order of its lists.

### Query mode (`QueryFeedProofs`)

* `TypeCorrect`: `Spec => []TypeOK`. One lemma per component says that its step
  keeps its part of the type, `StepType` puts them together.
* `HashDescribesShown`: `Spec => []HashMatchesShown`. The hash a client's thread
  polls with is that of the list in the slot, or of the list shown but for the
  client's own name. Inductive together with `TypeOK`; the interesting steps are a
  second list that arrives before the first is taken, volunteering, and a reconnect.
* `NoVolunteerIsDropped`: `Spec => VolunteersKept`. It needs the types only: by
  cases of what is done to the server's list (`KeptByMonitor`), where the end of a
  crawl puts a saved name, which is a client's, on each project that is not fixed.
* `PollsKeepUp`: `Spec => []BacklogIsCaused`. Inductive together with `TypeOK`. The
  requests of a client that wait in the server's queue are counted: the lemmas say
  by how much each operation on a queue changes the number (`AskedOneMore`,
  `AskedInTail`, `AskedInDisrupted`). An answer takes one from the queue and adds
  one datagram at most; a poll adds one and waits for it; a duplicate, a
  late answer and a reconnect each count as a disruption.
* `ShownGoesForward`: `Spec => NeverGoesBack`, if `Reordering = FALSE`: where
  datagrams overtake one another the code does go back. The inductive invariant
  `OrderInv` (in `MonitorProofs`) puts all lists in a row: what Jenkins has, what
  has been crawled, the server's list, the datagrams from the last sent to the
  first, the slot, the list shown. Each is no newer than any before it, whatever
  is dropped from between, and none has a build from the future, without which
  a build that finishes would not be the newest.
* `ListsComeFromTheBoard` and `QueryFeedIsABoard`: every list in a slot or a
  datagram is one the server once had, therefore every step of query mode is, under
  the mapping (board: the server's list, view: the list shown), a step of
  `ProjectBoard` or none.

### Multicast mode (`MulticastFeedProofs`)

* `CastTypes`: `Spec => []TypeOK`.
* `NoVolunteerIsDropped`: `Spec => VolunteersKept`.
* `ShownGoesForward`: with `Reordering = FALSE`, `Spec => [][ShowsNothingOlder]_vars`,
  by the same `OrderInv`. Lists are sent here to all and on request, after a look
  at the flag that may be stale; but each is the one the server has when it is
  sent, which is all that the order needs. (No run checks this one; query mode's does.)
* `MulticastFeedIsABoard`: the refinement of `ProjectBoard`, from the invariant that
  the lists in slots and datagrams are the server's, also with beacons among them
  and with a server that moves.

### The other components

* `ProjectRefreshProofs!RefreshTellsTheTruth`: `Spec => []StatusWasTrue`,
  whatever Jenkins does between the requests and whichever pages it refuses: a
  status that was never the job's is "not built" after a refused page, or none
  at all of a job that is building. The inductive invariant says at
  each request what the status read so far says: Jenkins has had it since the
  refresh began, or is read again. `RefreshTypes`: `Spec => []TypeOK`; that there is
  a last build of a nonempty set comes from the library's theorem on least
  elements. `SuccessesAreDated`: `Spec => []SuccessIsDated`. Its invariant
  `DatedInv` follows the numbers of the builds read through the four requests:
  before the last successful build is asked for, the project is not well yet or a
  success at least as new as its last build is there to be found
  (`SuccessToCome`), unless the job has been deleted; only the refusal of that
  very page loses the date, those of the other pages do not.
* `DesktopProofs!MutexIsTakenOnce`: `Spec => []NeverLocksTwice`. Inductive as it
  stands, by the lemma that a box set to what the notify list says of its own
  id changes nothing. `DesktopTypes`: `Spec => []TypeOK`, which needs to know that
  while the table is filled each visible project has its row or is still to come
  (`RowsToCome`): the cells that are written are those of rows that are there.
  `NoticesAreNoInventions`: `Spec => []NoticesAreTrue`. The window compares lists
  it has been handed, while the servers have gone on: the invariant `Pipeline`
  says of each two of the six places a list passes (the last statuses, the
  list, the one the communication thread holds, the client's, that in its slot, the
  server's) that what they differ by is a change that has happened. `BreakagesAreNoticed`:
  `Spec => []BreakageIsNoticed`, for any statuses. The history `wasWell` has the
  projects a breakage of which is to be noticed: watched, successful in some list
  and successful or failing in every list since. The property is inductive together
  with the fact that the last status of each of them is one of these (`WellIsListed`).
* `FolderCrawlProofs!TypeCorrect`, `ProjectsReadOnce` and `CrawlIsACensus`, for any
  tree of folders and any changes to it. Three invariants carry them. `Rooted`:
  what Jenkins has, has its folders. `Apart`: no two folders in the queue are
  below one another, and no project that has been listed is below one of them, so
  what a page adds is new whatever was deleted and created meanwhile. `Reached`: what has been
  there throughout and is not read yet is in the present folder or below one in
  the queue; with the queue empty, all of it has been read. The step that lists a
  folder is the one that needs all three.
* `ApplicationProofs!TypeCorrect`, `OneRunsAtATime`, `NobodyIsTurnedAway`,
  `NoParkIsWaitedOut` and `AddressIsKept`, for any processes, addresses, faults
  and deaths. `Guarded` strengthens the guard's two properties: exactly who runs
  is attached, the segment is there while somebody is, and whoever is about to
  ask and will find it has met another instance or was denied the segment.
  `Joining`: from the first line of
  `drop` on the client's thread is told, from the last on it has been woken unless
  it is on its way to see that it was told. `Kept`: the file says what the
  address is, except between an assignment and the save.

The strengthened invariants that are not evident from the runs (`OrderInv`, `Pipeline`,
`DatedInv`, `Reached`, `Guarded`, `Joining`) were checked by TLC on small instances first.

Only model-checked: what must happen in the end, under fairness (`Converges`,
`ReadsJenkins`, `VolunteerRecorded`, `FlagLeadsToBroadcast`, `Informed`,
`ListsJenkins`, `ReportsStatus`, `ShowsServerList`, `StopsInTheEnd`,
`FollowsSettings`, `WindowGoesOn`): the proof system reasons neither about
ENABLED nor about fairness. The four violations are TLC's too.

## 5. Not modelled

* An empty list: `get_projects` takes it for "no news" (`monitor_client.rs:321`),
  so clients keep the last project. `Converges` excludes it and lists that do
  not fit a datagram; both are hazards without a property.
* Poisoned locks, and panics other than that of a client's thread at a request.
* The copies of strings in the C interface, drawing, sorting, texts, the tray
  menu, the installer. The functions of the C interface that the application does
  not call (`bm_start_server`, `bm_stop_server`, `bm_stop_client`,
  `bm_has_projects`).
* Settings other than the address, the mode and the notify list; a settings file
  that is there and does not open for reading; whether closing a hidden window
  ends the application, which is Qt's.
* The semaphore of the guard on Windows, where a process that dies in its
  constructor takes it along.
* Query clients that listen to a server in multicast mode, or the other way round:
  neither ever gets a list.
* Whether the icon shows a build in progress; a tray without messages.

## 6. Plan

Done, in this order: query mode, its refinement, multicast mode, the reading of
a project, the Qt application, the crawl through folders, the application's
connection and its life; then the proofs, until every safety property of a run had
its theorem. What is left:

1. That a refresh of `ServerMonitor` is, between restarts, a `Census` in one folder,
   to tie the two models of the crawl together.
2. `Desktop` with two projects, for the context menu, if its states can be brought
   down to what TLC checks in minutes.
