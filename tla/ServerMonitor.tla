----------------------------- MODULE ServerMonitor -----------------------------
(***************************************************************************)
(* The Monitor of a server process (monitor.rs): it crawls Jenkins, swaps  *)
(* the new list in under the lock it shares with the server's thread, and  *)
(* raises needs_refresh when the hash of the list has changed.             *)
(*                                                                         *)
(* cli/main.rs runs it: one refresh, then the server is started, then a    *)
(* refresh every ten seconds for ever.                                     *)
(***************************************************************************)
EXTENDS Jenkins, Wire

VARIABLES
  projects,       \* Monitor.projects, shared with the server's thread
  projectsHash,   \* Monitor.projects_hash
  needsRefresh,   \* MonitorServerThreadData.needs_refresh, shared
  refreshPC,      \* where the thread that refreshes is
  saved,          \* the volunteers saved before the crawl
  toRead,         \* the jobs the crawl has listed and not read yet
  crawled         \* the projects the crawl has read

monitorVars == <<projects, projectsHash, needsRefresh, refreshPC, saved, toRead,
                 crawled>>

crawlVars == <<saved, toRead, crawled>>

MonitorInit == /\ projects = EmptyList
               /\ projectsHash = MaxHash
               /\ needsRefresh = FALSE
               /\ refreshPC = "boot"
               /\ saved = EmptyList
               /\ toRead = {}
               /\ crawled = EmptyList

--------------------------------------------------------------------------------
\* Mutant: once it has a list, a refresh reads the jobs on it and lists no more.
BeginRefresh_KnownJobs ==
  /\ refreshPC = "boot" \/ (refreshPC = "idle" /\ serverUp)
  /\ refreshPC' = "crawling"
  /\ saved' = VolunteersOf(projects)
  /\ toRead' = IF projects = EmptyList THEN jobs ELSE DOMAIN projects
  /\ crawled' = EmptyList
  /\ UNCHANGED <<projects, projectsHash, needsRefresh>>

\* refresh_projects begins: the volunteers are saved, under the lock, and the
\* folders listed.  In main.rs no second refresh starts before the server does.
BeginRefresh ==
  /\ refreshPC = "boot" \/ (refreshPC = "idle" /\ serverUp)
  /\ refreshPC' = "crawling"
  /\ saved' = VolunteersOf(projects)
  /\ toRead' = jobs
  /\ crawled' = EmptyList
  /\ UNCHANGED <<projects, projectsHash, needsRefresh>>

\* The crawl has the project p with the status and the time of the build b.
Take(p, b) ==
  /\ refreshPC = "crawling"
  /\ p \in toRead
  /\ toRead' = toRead \ {p}
  /\ crawled' = [q \in DOMAIN crawled \cup {p} |->
                   IF q = p THEN [status    |-> b.status,
                                  timestamp |-> b.timestamp,
                                  volunteer |-> NoOne]
                            ELSE crawled[q]]
  /\ UNCHANGED <<projects, projectsHash, needsRefresh, refreshPC, saved>>

\* One job is read.  A job that has gone by now answers 404: not built.
ReadProject(p) == Take(p, build[p])

\* A page of a job that has been built is refused, which counts as no page: the
\* job passes for one that was never built; or, if the page says no more than
\* the status of an earlier build, it has none.  See ProjectRefresh.
MisreadProject(p) ==
  /\ build[p] # NotBuilt
  /\ Disrupt
  /\ \/ Take(p, NotBuilt)
     \/ Take(p, [build[p] EXCEPT !.status = "Unknown"])

\* A request gets no answer: the `?' returns early and nothing of the crawl is kept.
FailRefresh ==
  /\ refreshPC = "crawling"
  /\ Disrupt
  /\ refreshPC' = "idle"
  /\ saved' = EmptyList /\ toRead' = {} /\ crawled' = EmptyList
  /\ UNCHANGED <<projects, projectsHash, needsRefresh>>

RefreshFault == FailRefresh \/ \E p \in Project : MisreadProject(p)

\* The crawl is complete: the saved volunteers go onto the new list and the
\* new list replaces the old one.
ReplaceProjects ==
  /\ refreshPC = "crawling"
  /\ toRead = {}
  /\ projects' = CarryVolunteers(crawled, saved)
  /\ refreshPC' = "replaced"
  /\ saved' = EmptyList /\ toRead' = {} /\ crawled' = EmptyList
  /\ UNCHANGED <<projectsHash, needsRefresh>>

\* The hash of the list, read again under the lock, against the last one.
CompareHash ==
  /\ refreshPC = "replaced"
  /\ projectsHash' = Hash(projects)
  /\ refreshPC' = IF Hash(projects) = projectsHash THEN "idle" ELSE "changed"
  /\ UNCHANGED <<projects, needsRefresh, crawlVars>>

\* update_clients; without a server there is nobody to tell.
UpdateClients ==
  /\ refreshPC = "changed"
  /\ needsRefresh' = (needsRefresh \/ serverUp)
  /\ refreshPC' = "idle"
  /\ UNCHANGED <<projects, projectsHash, crawlVars>>

Refresh == \/ BeginRefresh
           \/ \E p \in Project : ReadProject(p)
           \/ ReplaceProjects
           \/ CompareHash
           \/ UpdateClients

\* server_handle_volunteer_added, on the server's thread: TRUE iff the project
\* is in the list.
VolunteerIsKnown(p) == p \in DOMAIN projects

\* Mutant: a volunteer is accepted only for a project that has failed.
RecordVolunteer_OnlyFailed(p, v) ==
  projects' = IF VolunteerIsKnown(p) /\ projects[p].status = "Failed"
              THEN SetVolunteer(projects, p, v)
              ELSE projects

RecordVolunteer(p, v) == projects' = SetVolunteer(projects, p, v)

\* The process starts again, with nothing but its command line.
RestartMonitor ==
  /\ projects' = EmptyList
  /\ projectsHash' = MaxHash
  /\ needsRefresh' = FALSE
  /\ refreshPC' = "boot"
  /\ saved' = EmptyList /\ toRead' = {} /\ crawled' = EmptyList

--------------------------------------------------------------------------------
RefreshPC == {"boot", "idle", "crawling", "replaced", "changed"}

MonitorTypeOK == /\ projects \in ProjectList
                 /\ projectsHash \in ProjectHash \cup {MaxHash}
                 /\ needsRefresh \in BOOLEAN
                 /\ refreshPC \in RefreshPC
                 /\ saved \in VolunteerMap
                 /\ toRead \in SUBSET Project
                 /\ crawled \in ProjectList

\* A step leaves a volunteer on each project of the server's list that has one
\* and stays listed, unless the project is fixed, or the step ends a crawl at
\* whose beginning the volunteer was not there yet.
KeepsVolunteers ==
  \A p \in DOMAIN projects \cap DOMAIN projects' :
    projects[p].volunteer # NoOne =>
      \/ projects'[p].volunteer # NoOne
      \/ projects'[p].status = "Success"
      \/ refreshPC = "crawling" /\ refreshPC' = "replaced" /\ p \notin DOMAIN saved
================================================================================
