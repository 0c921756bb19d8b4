------------------------------- MODULE FolderCrawl -------------------------------
(***************************************************************************)
(* How a refresh finds the projects (Monitor::refresh_projects and         *)
(* refresh_folder): breadth first from the root, one folder at a time, and *)
(* each project of a folder in turn, while folders and projects come, go   *)
(* and move.  ServerMonitor lists a single folder; Census says what is     *)
(* left of that when there are many.                                       *)
(*                                                                         *)
(* A url is its path below the root, a sequence of names.  A project is    *)
(* known by its url: one that moves is another one.  What is read of a     *)
(* project is ProjectRefresh's; the volunteers, put back by id when the    *)
(* crawl is complete, are ServerMonitor's.                                 *)
(***************************************************************************)
EXTENDS Naturals, Sequences, FiniteSets

CONSTANTS
  Segment,     \* the names of folders and projects
  Folder,      \* the urls of folders
  Job,         \* the urls of projects
  MaxChanges   \* bound on changes at Jenkins and failed requests

Root == <<>>
Up(url, n) == [i \in 1..n |-> url[i]]
Parent(url) == Up(url, Len(url) - 1)
Below(url, top) == Len(top) <= Len(url) /\ Up(url, Len(top)) = top

ASSUME CrawlUrls ==
  /\ Folder \subseteq Seq(Segment)
  /\ Job \subseteq Seq(Segment) \ {Root}
  /\ Root \in Folder
  /\ Folder \cap Job = {}
  /\ IsFiniteSet(Folder)
  /\ MaxChanges \in Nat

VARIABLES
  folders,    \* the folders Jenkins has
  jobs,       \* the projects Jenkins has
  changes,    \* changes and failures so far
  list,       \* Monitor.projects
  crawling,   \* a refresh is under way
  queue,      \* folders_to_crawl
  unread,     \* the projects of the present folder that are still to be read
  found,      \* the projects read so far
  must, may   \* history: the projects there all the time, or at some time of
              \* the refresh

jenkinsVars == <<folders, jobs>>
crawlVars == <<list, crawling, queue, unread, found>>
vars == <<jenkinsVars, changes, crawlVars, must, may>>

--------------------------------------------------------------------------------
\* Jenkins.  What is in a folder goes with it; what is new needs its folder.
Rooted(fs, js) == \A u \in fs \cup js : \A n \in 0..(Len(u) - 1) : Up(u, n) \in fs

Change == changes < MaxChanges /\ changes' = changes + 1

Create(u) == /\ u \in (Folder \cup Job) \ (folders \cup jobs)
             /\ Parent(u) \in folders
             /\ folders' = folders \cup ({u} \cap Folder)
             /\ jobs' = jobs \cup ({u} \cap Job)

Delete(u) == /\ u \in (folders \cup jobs) \ {Root}
             /\ folders' = {f \in folders : ~Below(f, u)}
             /\ jobs' = {j \in jobs : ~Below(j, u)}

Move(j, k) == /\ j \in jobs
              /\ k \in Job \ jobs
              /\ Parent(k) \in folders
              /\ jobs' = (jobs \ {j}) \cup {k}
              /\ UNCHANGED folders

JenkinsStep ==
  /\ Change
  /\ \/ \E u \in Folder \cup Job : Create(u) \/ Delete(u)
     \/ \E j, k \in Job : Move(j, k)
  /\ must' = must \cap jobs'
  /\ may' = may \cup jobs'
  /\ UNCHANGED crawlVars

--------------------------------------------------------------------------------
\* refresh_projects begins, at the root.
BeginCrawl ==
  /\ ~crawling
  /\ crawling' = TRUE
  /\ queue' = <<Root>>
  /\ unread' = {}
  /\ found' = {}
  /\ must' = jobs
  /\ may' = jobs
  /\ UNCHANGED <<jenkinsVars, changes, list>>

\* A set in some order: Jenkins's own.
Orders(S) == {s \in [1..Cardinality(S) -> S] :
                /\ \A x \in S : \E i \in DOMAIN s : s[i] = x
                /\ \A i, k \in DOMAIN s : s[i] = s[k] => i = k}

Children(url, S) == {u \in S \ {Root} : Parent(u) = url}

\* Mutant: the folder listed last is the only one whose folders are crawled.
ListFolder_DropsQueue ==
  /\ crawling
  /\ unread = {}
  /\ queue # <<>>
  /\ Head(queue) \in folders
  /\ queue' \in Orders(Children(Head(queue), folders))
  /\ unread' = Children(Head(queue), jobs)
  /\ UNCHANGED <<jenkinsVars, changes, list, crawling, found, must, may>>

\* Mutant: the folder is left in the queue.
ListFolder_KeepsHead ==
  /\ crawling
  /\ unread = {}
  /\ queue # <<>>
  /\ Head(queue) \in folders
  /\ \E s \in Orders(Children(Head(queue), folders)) : queue' = queue \o s
  /\ unread' = Children(Head(queue), jobs)
  /\ UNCHANGED <<jenkinsVars, changes, list, crawling, found, must, may>>

\* Mutant: what class a job is of is not looked at.
ListFolder_AllFolders ==
  /\ crawling
  /\ unread = {}
  /\ queue # <<>>
  /\ Head(queue) \in folders
  /\ \E s \in Orders(Children(Head(queue), folders \cup jobs)) : queue' = Tail(queue) \o s
  /\ unread' = {}
  /\ UNCHANGED <<jenkinsVars, changes, list, crawling, found, must, may>>

\* refresh_folder: the page of the next folder lists its folders, which join
\* the queue once the projects are read, and its projects.
ListFolder ==
  /\ crawling
  /\ unread = {}
  /\ queue # <<>>
  /\ Head(queue) \in folders
  /\ \E s \in Orders(Children(Head(queue), folders)) : queue' = Tail(queue) \o s
  /\ unread' = Children(Head(queue), jobs)
  /\ UNCHANGED <<jenkinsVars, changes, list, crawling, found, must, may>>

\* A project is read.  One that is gone by now has no page, and counts as not
\* built: it stays on the list.
ReadProject(j) ==
  /\ crawling
  /\ j \in unread
  /\ unread' = unread \ {j}
  /\ found' = found \cup {j}
  /\ UNCHANGED <<jenkinsVars, changes, list, crawling, queue, must, may>>

Abandon == /\ crawling' = FALSE
           /\ queue' = <<>> /\ unread' = {} /\ found' = {}

\* Mutant: the crawl goes on asking for a folder that is gone.
FolderIsGone_AsksAgain ==
  /\ crawling
  /\ unread = {}
  /\ queue # <<>>
  /\ Head(queue) \notin folders
  /\ UNCHANGED vars

\* The next folder is gone: its page is no JSON, and the refresh fails.
FolderIsGone ==
  /\ crawling
  /\ unread = {}
  /\ queue # <<>>
  /\ Head(queue) \notin folders
  /\ Abandon
  /\ UNCHANGED <<jenkinsVars, changes, list, must, may>>

\* Mutant: what has been found so far is kept.
FailCrawl_KeepsFound ==
  /\ crawling
  /\ Change
  /\ list' = found
  /\ Abandon
  /\ UNCHANGED <<jenkinsVars, must, may>>

\* A request fails: nothing of the crawl is kept.
FailCrawl == /\ crawling
             /\ Change
             /\ Abandon
             /\ UNCHANGED <<jenkinsVars, list, must, may>>

\* No folder is left: what has been found is the new list.
ReplaceProjects ==
  /\ crawling
  /\ unread = {}
  /\ queue = <<>>
  /\ list' = found
  /\ Abandon
  /\ UNCHANGED <<jenkinsVars, changes, must, may>>

CrawlStep == \/ BeginCrawl
             \/ ListFolder
             \/ \E j \in Job : ReadProject(j)
             \/ FolderIsGone
             \/ ReplaceProjects

--------------------------------------------------------------------------------
Init == /\ folders \in {fs \in SUBSET Folder : Root \in fs}
        /\ jobs \in SUBSET Job
        /\ Rooted(folders, jobs)
        /\ changes = 0
        /\ list = {}
        /\ crawling = FALSE
        /\ queue = <<>> /\ unread = {} /\ found = {}
        /\ must = jobs
        /\ may = jobs

Next == JenkinsStep \/ CrawlStep \/ FailCrawl

Spec == Init /\ [][Next]_vars

\* The server's main loop refreshes for ever.
FairSpec == Spec /\ WF_vars(CrawlStep)

--------------------------------------------------------------------------------
\* Every variable keeps its type.
TypeOK ==
  /\ folders \in SUBSET Folder
  /\ jobs \in SUBSET Job
  /\ changes \in 0..MaxChanges
  /\ crawling \in BOOLEAN
  /\ queue \in Seq(Folder)
  /\ list \in SUBSET Job /\ unread \in SUBSET Job /\ found \in SUBSET Job
  /\ must \in SUBSET Job /\ may \in SUBSET Job

\* No project is read twice in a refresh, and none is listed twice: the list is
\* a Vec that nothing would take a duplicate out of (monitor.rs:123), and the
\* queue is not checked for folders that have been crawled, although folders
\* are deleted and created again behind and ahead of the crawl.
ReadsOnce == /\ unread \cap found = {}
             /\ \A i, j \in DOMAIN queue : queue[i] = queue[j] => i = j

\* The crawl keeps the promise: whoever is on Jenkins at one url, with the
\* folders above, while the refresh runs is on its list, and nobody who was
\* not there is, whatever comes, goes and moves between the requests.
Promise == INSTANCE Census WITH counting <- crawling

CensusSpec == Promise!CensusSpec

\* Once Jenkins is left alone the list comes to be what Jenkins has: no folder
\* keeps a crawl from its end, and none that is gone keeps every crawl failing.
ListsJenkins == <>[](list = jobs)
================================================================================
