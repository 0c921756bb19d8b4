----------------------------- MODULE ProjectRefresh -----------------------------
(***************************************************************************)
(* How one project is read (Project::refresh_status): up to four requests, *)
(* for the project, its last build, its last completed build and its last  *)
(* successful build, with Jenkins going on between them.  ServerMonitor    *)
(* takes the whole for one step, with the true status or as not built;     *)
(* StatusWasTrue says why it may.                                          *)
(*                                                                         *)
(* Of the fields, `timestamp' stands for all that is copied from the page  *)
(* of the last build (timestamp, durations, culprits).                     *)
(***************************************************************************)
EXTENDS Naturals, Sequences, FiniteSetsExt, ProjectStatus

CONSTANTS
  Result,      \* the results builds end with
  MaxBuilds,   \* bound on the builds that are started
  MaxChanges   \* bound on deletions, creations, switches, refusals and failures

ASSUME RefreshBounds == MaxBuilds \in Nat /\ MaxChanges \in Nat
ASSUME RunningIsNoResult == "RUNNING" \notin Result

VARIABLES
  exists,      \* Jenkins has the job
  buildable,   \* the job is enabled
  builds,      \* its builds, in the order they were started
  started,     \* builds started so far: the clock of their timestamps
  changes,     \* deletions, creations, switches, refusals and failures so far
  pc,          \* the request the refresh makes next
  project,     \* the project being read
  reported,    \* the project as of the last refresh that was completed
  seen,        \* history: the statuses Jenkins has had since the refresh began
  deleted,     \* history: the job was deleted since the refresh began
  refused      \* history: the pages that are there and that it was refused

jenkinsVars == <<exists, buildable, builds, started>>
refreshVars == <<pc, project, reported>>
vars == <<jenkinsVars, changes, refreshVars, seen, deleted, refused>>

\* Project::new.
NewProject == [status |-> "Unknown", isBuilding |-> FALSE, timestamp |-> 0,
               lastSuccessfulBuildTime |-> 0]

Init == /\ exists = TRUE
        /\ buildable = TRUE
        /\ builds = <<>>
        /\ started = 0
        /\ changes = 0
        /\ pc = "idle"
        /\ project = NewProject
        /\ reported = NewProject
        /\ seen = {}
        /\ deleted = FALSE
        /\ refused = {}

--------------------------------------------------------------------------------
\* Jenkins: builds run, side by side if they are many, and end in any order.
With(result) == {i \in DOMAIN builds : builds[i].result \in result}
Completed  == With(Result)
Successful == With({"SUCCESS", "UNSTABLE"})

\* What the builds say of the job, and what else may be said of it.
BuildStatus == IF builds = <<>> THEN "NotBuilt"
               ELSE IF Completed = {} THEN "Unknown"
               ELSE StatusOf(builds[Max(Completed)].result)

TrueStatus == IF exists /\ ~buildable THEN "Disabled" ELSE BuildStatus

Change == changes < MaxChanges /\ changes' = changes + 1

StartBuild ==
  /\ started < MaxBuilds
  /\ exists /\ buildable
  /\ started' = started + 1
  /\ builds' = Append(builds, [started |-> started', result |-> "RUNNING"])
  /\ UNCHANGED <<exists, buildable, changes, deleted>>

EndBuild ==
  /\ \E i \in With({"RUNNING"}), r \in Result :
       builds' = [builds EXCEPT ![i].result = r]
  /\ UNCHANGED <<exists, buildable, started, changes, deleted>>

DeleteJob == /\ Change
             /\ exists
             /\ exists' = FALSE
             /\ builds' = <<>>
             /\ deleted' = TRUE
             /\ UNCHANGED <<buildable, started>>

CreateJob == /\ Change
             /\ ~exists
             /\ exists' = TRUE
             /\ buildable' = TRUE
             /\ UNCHANGED <<builds, started, deleted>>

SwitchJob == /\ Change
             /\ exists
             /\ buildable' = ~buildable
             /\ UNCHANGED <<exists, builds, started, deleted>>

JenkinsStep ==
  /\ StartBuild \/ EndBuild \/ DeleteJob \/ CreateJob \/ SwitchJob
  /\ seen' = seen \cup {BuildStatus', TrueStatus'}
  /\ UNCHANGED <<refreshVars, refused>>

--------------------------------------------------------------------------------
\* get_json, when the page asked for is there or not: any answer but 200 counts
\* as no page, a server that is overloaded or refuses access as one without it.
Found(there) == there /\ UNCHANGED <<changes, refused>>

NotFound(there) == \/ ~there /\ UNCHANGED <<changes, refused>>
                   \/ there /\ Change /\ refused' = refused \cup {pc}

\* Mutant: the project of the last refresh is read into again.
Begin_Again == /\ pc = "idle"
               /\ pc' = "project"
               /\ project' = reported
               /\ seen' = {BuildStatus, TrueStatus}
               /\ deleted' = FALSE
               /\ refused' = {}
               /\ UNCHANGED <<reported, changes>>

\* A refresh makes a new project of every job the folder lists.
Begin == /\ pc = "idle"
         /\ pc' = "project"
         /\ project' = NewProject
         /\ seen' = {BuildStatus, TrueStatus}
         /\ deleted' = FALSE
         /\ refused' = {}
         /\ UNCHANGED <<reported, changes>>

\* refresh_project: a project without a page counts as not built, and the
\* builds of one that is disabled are not asked for.
ReadProjectPage ==
  /\ pc = "project"
  /\ \/ /\ NotFound(exists)
        /\ project' = [project EXCEPT !.status = "NotBuilt", !.isBuilding = FALSE]
     \/ /\ Found(exists) /\ buildable
        /\ UNCHANGED project
     \/ /\ Found(exists) /\ ~buildable
        /\ project' = [project EXCEPT !.status = "Disabled", !.isBuilding = FALSE]
  /\ pc' = IF project'.status = "Disabled" THEN "done" ELSE "lastBuild"
  /\ UNCHANGED <<reported, seen, deleted>>

NoLastBuild ==
  /\ NotFound(builds # <<>>)
  /\ project' = [project EXCEPT !.status = "NotBuilt", !.isBuilding = FALSE]
  /\ pc' = "lastSuccessful"

\* Mutant: the result of a build that is running is taken like any other.
ReadLastBuild_Running ==
  /\ pc = "lastBuild"
  /\ \/ NoLastBuild
     \/ LET last == builds[Len(builds)]
        IN  /\ Found(builds # <<>>)
            /\ project' = [project EXCEPT
                             !.status = StatusOf(last.result),
                             !.isBuilding = (last.result = "RUNNING"),
                             !.timestamp = last.started]
            /\ pc' = "lastSuccessful"
  /\ UNCHANGED <<reported, seen, deleted>>

\* refresh_last_build: the status is the result of the last build, or of the
\* last completed one if it is running.
ReadLastBuild ==
  /\ pc = "lastBuild"
  /\ \/ NoLastBuild
     \/ LET last == builds[Len(builds)]
        IN  /\ Found(builds # <<>>)
            /\ \/ /\ last.result = "RUNNING"
                  /\ project' = [project EXCEPT !.isBuilding = TRUE,
                                                !.timestamp = last.started]
                  /\ pc' = "lastCompleted"
               \/ /\ last.result # "RUNNING"
                  /\ project' = [project EXCEPT !.status = StatusOf(last.result),
                                                !.isBuilding = FALSE,
                                                !.timestamp = last.started]
                  /\ pc' = "lastSuccessful"
  /\ UNCHANGED <<reported, seen, deleted>>

\* Mutant: the refresh of a building project ends here.
ReadLastCompletedBuild_Last ==
  /\ pc = "lastCompleted"
  /\ \/ /\ NotFound(Completed # {})
        /\ UNCHANGED project
     \/ /\ Found(Completed # {})
        /\ project' = [project EXCEPT !.status =
                                  StatusOf(builds[Max(Completed)].result)]
  /\ pc' = "done"
  /\ UNCHANGED <<reported, seen, deleted>>

\* refresh_last_completed_build: without one the status stays as it is.
ReadLastCompletedBuild ==
  /\ pc = "lastCompleted"
  /\ \/ /\ NotFound(Completed # {})
        /\ UNCHANGED project
     \/ /\ Found(Completed # {})
        /\ project' = [project EXCEPT !.status =
                                  StatusOf(builds[Max(Completed)].result)]
  /\ pc' = "lastSuccessful"
  /\ UNCHANGED <<reported, seen, deleted>>

\* refresh_last_successful_build: an unstable build is a successful one too.
ReadLastSuccessfulBuild ==
  /\ pc = "lastSuccessful"
  /\ \/ /\ NotFound(Successful # {})
        /\ UNCHANGED project
     \/ /\ Found(Successful # {})
        /\ project' = [project EXCEPT !.lastSuccessfulBuildTime =
                                  builds[Max(Successful)].started]
  /\ pc' = "done"
  /\ UNCHANGED <<reported, seen, deleted>>

\* The other projects are read as well, and the list is replaced.
Report == /\ pc = "done"
          /\ reported' = project
          /\ project' = NewProject
          /\ pc' = "idle"
          /\ UNCHANGED <<changes, seen, deleted, refused>>

\* A request gets no answer, or one that does not parse, for this project or
\* another: nothing of the refresh is kept.
Fail == /\ Change
        /\ pc # "idle"
        /\ pc' = "idle"
        /\ project' = NewProject
        /\ UNCHANGED <<reported, seen, deleted, refused>>

RefreshStep ==
  /\ \/ Begin \/ ReadProjectPage \/ ReadLastBuild \/ ReadLastCompletedBuild
     \/ ReadLastSuccessfulBuild \/ Report
  /\ UNCHANGED jenkinsVars

Next == JenkinsStep \/ RefreshStep \/ (Fail /\ UNCHANGED jenkinsVars)

Spec == Init /\ [][Next]_vars

\* The server's main loop refreshes for ever.
FairSpec == Spec /\ WF_vars(RefreshStep)

--------------------------------------------------------------------------------
BuildRecord == [started : Nat, result : Result \cup {"RUNNING"}]

ProjectRecord == [status : Status, isBuilding : BOOLEAN, timestamp : Nat,
                  lastSuccessfulBuildTime : Nat]

\* Every variable keeps its type.
TypeOK ==
  /\ exists \in BOOLEAN
  /\ buildable \in BOOLEAN
  /\ builds \in Seq(BuildRecord)
  /\ started \in 0..MaxBuilds
  /\ changes \in 0..MaxChanges
  /\ pc \in {"idle", "project", "lastBuild", "lastCompleted", "lastSuccessful",
             "done"}
  /\ project \in ProjectRecord
  /\ reported \in ProjectRecord
  /\ seen \in SUBSET Status
  /\ deleted \in BOOLEAN
  /\ refused \subseteq {"project", "lastBuild", "lastCompleted", "lastSuccessful"}

\* The status a refresh ends with is one Jenkins had at some moment of it,
\* however builds start and end, or the job is switched off and on, between the
\* requests.  A page that is refused makes a job pass for one that was never
\* built, or leaves one that is building without a status, as a deletion in
\* between does; it never passes for well, failing or disabled.
StatusWasTrue ==
  pc = "done" =>
    \/ project.status \in seen
    \/ /\ project.status = "NotBuilt"
       /\ refused \cap {"project", "lastBuild"} # {}
    \/ /\ project.status = "Unknown" /\ project.isBuilding
       /\ deleted \/ "lastCompleted" \in refused

\* A refreshed project that is well has a last successful build, and if it is
\* not building one that is at least as new as its last build; the requests
\* are in the right order for that.  Only a deletion comes between, or that the
\* last successful build is refused; that another page was does not matter.
SuccessIsDated ==
  /\ pc = "done" /\ project.status \in {"Success", "Unstable"}
  /\ ~deleted /\ "lastSuccessful" \notin refused
  => /\ project.lastSuccessfulBuildTime > 0
     /\ project.isBuilding \/ project.lastSuccessfulBuildTime >= project.timestamp

\* In the end the project is reported with the status it has.
ReportsStatus == <>[](reported.status = TrueStatus)
================================================================================
