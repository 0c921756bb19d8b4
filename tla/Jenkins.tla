-------------------------------- MODULE Jenkins --------------------------------
(***************************************************************************)
(* The Jenkins server the monitor crawls, as the code sees it through its  *)
(* HTTP interface: the jobs it lists and, of each job, the last build.     *)
(* Not part of the program; modelled from the requests it answers.         *)
(***************************************************************************)
EXTENDS ProjectData

CONSTANT JenkinsStatus   \* the statuses a build ends with in this instance

ASSUME JenkinsStatusIsStatus == JenkinsStatus \subseteq Status \ {"NotBuilt"}

VARIABLES
  jobs,      \* the projects Jenkins lists
  build,     \* build[p]: status and timestamp of the last build of p
  clock      \* Jenkins's time: it ticks when something changes

jenkinsVars == <<jobs, build, clock>>

Build == [status : Status, timestamp : Time]

\* No last build: the page of a job that was never built, or is gone, is a 404.
NotBuilt == [status |-> "NotBuilt", timestamp |-> 0]

JenkinsInit == /\ jobs \in SUBSET Project
               /\ build = [p \in Project |-> NotBuilt]
               /\ clock = 0

Tick == clock < MaxTime /\ clock' = clock + 1

\* A build of p ends.
FinishBuild(p) ==
  /\ Tick
  /\ p \in jobs
  /\ \E s \in JenkinsStatus :
       build' = [build EXCEPT ![p] = [status |-> s, timestamp |-> clock']]
  /\ UNCHANGED jobs

\* A job is created, or deleted with its builds.
AddJob(p) ==
  /\ Tick
  /\ p \notin jobs
  /\ jobs' = jobs \cup {p}
  /\ UNCHANGED build

DeleteJob(p) ==
  /\ Tick
  /\ p \in jobs
  /\ jobs' = jobs \ {p}
  /\ build' = [build EXCEPT ![p] = NotBuilt]

JenkinsNext == \E p \in Project : FinishBuild(p) \/ AddJob(p) \/ DeleteJob(p)

--------------------------------------------------------------------------------
JenkinsTypeOK == /\ jobs \in SUBSET Project
                 /\ build \in [Project -> Build]
                 /\ clock \in Time
================================================================================
