-------------------------- MODULE ProjectRefreshProofs --------------------------
(***************************************************************************)
(* The status a refresh of one project ends with was the job's, or is one  *)
(* that says nothing because a page was refused, for any number of builds, *)
(* deletions, switches, refusals and failed requests.                      *)
(*                                                                         *)
(* StatusWasTrue speaks of the end of a refresh only.  The invariant that  *)
(* carries it there says, request by request, what the status may be so    *)
(* far, and that the history `seen' holds what is true now.                *)
(***************************************************************************)
EXTENDS ProjectRefresh, Integers, WellFoundedInduction, TLAPS

\* The part of the type that matters: project is a record with a status.
Shape == /\ project = [f \in DOMAIN project |-> project[f]]
         /\ DOMAIN project = {"status", "isBuilding", "timestamp",
                              "lastSuccessfulBuildTime"}

PCs == {"idle", "project", "lastBuild", "lastCompleted", "lastSuccessful", "done"}

\* While a refresh is under way the history is up to date.
SeenIsCurrent == pc # "idle" => BuildStatus \in seen /\ TrueStatus \in seen

\* A job that had a last build has builds until it is deleted.
BuildsStay == pc = "lastCompleted" => builds # <<>> \/ deleted

\* What it may be otherwise: a page was refused, or the job deleted.
TakenForNew == project.status = "NotBuilt" /\ refused \cap {"project", "lastBuild"} # {}

Orphaned == /\ project.status = "Unknown" /\ project.isBuilding
            /\ deleted \/ "lastCompleted" \in refused

StatusSoFar ==
  /\ pc = "project" => project.status = "Unknown"
  /\ pc = "lastBuild" =>
       project.status = "Unknown" \/ project.status \in seen \/ TakenForNew
  /\ pc = "lastCompleted" =>
       /\ project.isBuilding
       /\ project.status = "Unknown" \/ project.status \in seen \/ TakenForNew
  /\ pc \in {"lastSuccessful", "done"} =>
       project.status \in seen \/ TakenForNew \/ Orphaned

BuildsType == /\ builds \in Seq(BuildRecord)
              /\ started \in Nat

NoJobNoBuilds == ~exists => builds = <<>>

Inv == /\ Shape
       /\ pc \in PCs
       /\ BuildsType
       /\ NoJobNoBuilds
       /\ SeenIsCurrent
       /\ BuildsStay
       /\ StatusSoFar

--------------------------------------------------------------------------------
LEMMA InitInv == Init => Inv
BY DEF Init, Inv, Shape, PCs, BuildsType, NoJobNoBuilds, SeenIsCurrent, BuildsStay,
       StatusSoFar, NewProject

\* Jenkins only adds to the history, and only a deletion empties the builds.
LEMMA JenkinsInv == Inv /\ JenkinsStep => Inv'
<1> SUFFICES ASSUME Inv, JenkinsStep PROVE Inv'
  OBVIOUS
<1> USE DEF Inv
<1>1. /\ UNCHANGED <<pc, project, reported, refused>>
      /\ seen' = seen \cup {BuildStatus', TrueStatus'}
  BY DEF JenkinsStep, refreshVars
<1>2. Shape' /\ (pc \in PCs)'
  BY <1>1 DEF Shape
<1>3. SeenIsCurrent'
  BY <1>1 DEF SeenIsCurrent
<1>4. /\ deleted => deleted'
      /\ builds # <<>> => builds' # <<>> \/ deleted'
      /\ BuildsType'
      /\ NoJobNoBuilds'
  <2>1. CASE StartBuild
    BY <2>1 DEF StartBuild, BuildsType, BuildRecord, NoJobNoBuilds
  <2>2. CASE EndBuild
    <3>1. PICK i \in With({"RUNNING"}), r \in Result :
               builds' = [builds EXCEPT ![i].result = r]
      BY <2>2 DEF EndBuild
    <3>2. i \in DOMAIN builds /\ builds # <<>>
      BY DEF With
    <3>3. builds[i] \in BuildRecord
      BY <3>2 DEF BuildsType
    <3>4. [builds[i] EXCEPT !.result = r] \in BuildRecord
      BY <3>3 DEF BuildRecord
    <3>5. builds' \in Seq(BuildRecord)
             /\ builds' # <<>>
      BY <3>1, <3>2, <3>4 DEF BuildsType
    <3> QED
      BY <2>2, <3>2, <3>5 DEF EndBuild, BuildsType, NoJobNoBuilds
  <2>3. CASE DeleteJob
    BY <2>3 DEF DeleteJob, BuildsType, NoJobNoBuilds
  <2>4. CASE CreateJob
    BY <2>4 DEF CreateJob, BuildsType, NoJobNoBuilds
  <2>5. CASE SwitchJob
    BY <2>5 DEF SwitchJob, BuildsType, NoJobNoBuilds
  <2> QED
    BY <2>1, <2>2, <2>3, <2>4, <2>5 DEF JenkinsStep
<1>5. BuildsStay'
  BY <1>1, <1>4 DEF BuildsStay
<1>6. StatusSoFar'
  BY <1>1, <1>4 DEF StatusSoFar, TakenForNew, Orphaned
<1> QED
  BY <1>2, <1>3, <1>4, <1>5, <1>6

--------------------------------------------------------------------------------
\* What Jenkins says of a job whose last build is complete.
LEMMA LastIsLastCompleted ==
  ASSUME BuildsType, builds # <<>>, builds[Len(builds)].result # "RUNNING"
  PROVE  BuildStatus = StatusOf(builds[Len(builds)].result)
<1> DEFINE n == Len(builds)
<1>1. n \in Nat \ {0} /\ n \in DOMAIN builds /\ DOMAIN builds = 1..n
  BY DEF BuildsType
<1>2. builds[n].result \in Result
  <2>1. builds[n] \in BuildRecord
    BY <1>1 DEF BuildsType
  <2> QED
    BY <2>1 DEF BuildRecord
<1>3. n \in Completed /\ \A i \in Completed : i \in 1..n
  BY <1>1, <1>2 DEF Completed, With
<1>4. \A i \in Completed : n >= i
  BY <1>1, <1>3
<1>5. Max(Completed) = n
  <2>1. Max(Completed) \in Completed /\ \A i \in Completed : Max(Completed) >= i
    BY <1>3, <1>4 DEF Max
  <2>2. Max(Completed) >= n /\ n >= Max(Completed) /\ Max(Completed) \in 1..n
    BY <1>3, <1>4, <2>1
  <2> QED
    BY <1>1, <2>2
<1>6. Completed # {}
  BY <1>3
<1> QED
  BY <1>5, <1>6 DEF BuildStatus

LEMMA ReadProjectPageInv == Inv /\ ReadProjectPage /\ UNCHANGED jenkinsVars => Inv'
<1> SUFFICES ASSUME Inv, ReadProjectPage, UNCHANGED jenkinsVars PROVE Inv'
  OBVIOUS
<1> USE DEF Inv
<1>1. /\ UNCHANGED <<exists, buildable, builds, started, seen, deleted>>
      /\ pc = "project" /\ pc' \in {"lastBuild", "done"}
  BY DEF ReadProjectPage, jenkinsVars
<1>2. Shape' /\ (pc \in PCs)' /\ BuildsType' /\ NoJobNoBuilds' /\ BuildsStay'
  BY <1>1 DEF ReadProjectPage, Shape, PCs, BuildsType, NoJobNoBuilds, BuildsStay
<1>3. BuildStatus' = BuildStatus /\ TrueStatus' = TrueStatus
  BY <1>1 DEF BuildStatus, TrueStatus, Completed, With
<1>4. SeenIsCurrent'
  BY <1>1, <1>3 DEF SeenIsCurrent
<1>5. StatusSoFar'
  <2>1. CASE /\ NotFound(exists)
             /\ project' = [project EXCEPT !.status = "NotBuilt", !.isBuilding = FALSE]
    <3>1. project'.status = "NotBuilt" /\ pc' = "lastBuild"
      BY <2>1 DEF ReadProjectPage, Shape
    <3>2. exists => "project" \in refused'
      BY <1>1, <2>1 DEF NotFound
    <3>3. ~exists => "NotBuilt" \in seen
      BY <1>1 DEF SeenIsCurrent, NoJobNoBuilds, BuildStatus
    <3> QED
      BY <1>1, <3>1, <3>2, <3>3 DEF StatusSoFar, TakenForNew
  <2>2. CASE exists /\ buildable /\ UNCHANGED project
    BY <2>2, <1>1 DEF ReadProjectPage, StatusSoFar
  <2>3. CASE /\ exists /\ ~buildable
             /\ project' = [project EXCEPT !.status = "Disabled", !.isBuilding = FALSE]
    BY <2>3, <1>1 DEF ReadProjectPage, StatusSoFar, Shape, SeenIsCurrent, TrueStatus
  <2> QED
    BY <2>1, <2>2, <2>3 DEF ReadProjectPage, Found
<1> QED
  BY <1>2, <1>4, <1>5

LEMMA ReadLastBuildInv == Inv /\ ReadLastBuild /\ UNCHANGED jenkinsVars => Inv'
<1> SUFFICES ASSUME Inv, ReadLastBuild, UNCHANGED jenkinsVars PROVE Inv'
  OBVIOUS
<1> USE DEF Inv
<1>1. /\ UNCHANGED <<exists, buildable, builds, started, seen, deleted>>
      /\ pc = "lastBuild" /\ pc' \in {"lastCompleted", "lastSuccessful"}
      /\ refused \subseteq refused'
  BY DEF ReadLastBuild, NoLastBuild, NotFound, Found, jenkinsVars
<1>2. Shape' /\ (pc \in PCs)' /\ BuildsType' /\ NoJobNoBuilds'
  BY <1>1 DEF ReadLastBuild, NoLastBuild, Shape, PCs, BuildsType, NoJobNoBuilds
<1>3. BuildStatus' = BuildStatus /\ TrueStatus' = TrueStatus
  BY <1>1 DEF BuildStatus, TrueStatus, Completed, With
<1>4. SeenIsCurrent'
  BY <1>1, <1>3 DEF SeenIsCurrent
<1>5. BuildsStay' /\ StatusSoFar'
  <2> DEFINE last == builds[Len(builds)]
  <2>1. CASE NoLastBuild
    <3>1. project'.status = "NotBuilt" /\ pc' = "lastSuccessful"
      BY <2>1 DEF NoLastBuild, Shape
    <3>2. builds # <<>> => "lastBuild" \in refused'
      BY <1>1, <2>1 DEF NoLastBuild, NotFound
    <3>3. builds = <<>> => "NotBuilt" \in seen
      BY <1>1 DEF SeenIsCurrent, BuildStatus
    <3> QED
      BY <1>1, <3>1, <3>2, <3>3 DEF StatusSoFar, TakenForNew, BuildsStay
  <2>2. CASE /\ Found(builds # <<>>)
             /\ last.result = "RUNNING"
             /\ project' = [project EXCEPT !.isBuilding = TRUE,
                                           !.timestamp = last.started]
             /\ pc' = "lastCompleted"
    BY <2>2, <1>1 DEF Found, StatusSoFar, TakenForNew, BuildsStay, Shape
  <2>3. CASE /\ Found(builds # <<>>)
             /\ last.result # "RUNNING"
             /\ project' = [project EXCEPT !.status = StatusOf(last.result),
                                           !.isBuilding = FALSE,
                                           !.timestamp = last.started]
             /\ pc' = "lastSuccessful"
    <3>1. BuildStatus = StatusOf(last.result)
      BY <2>3, LastIsLastCompleted DEF Found
    <3>2. project'.status \in seen'
      BY <3>1, <2>3, <1>1 DEF SeenIsCurrent, Shape
    <3> QED
      BY <3>2, <2>3 DEF StatusSoFar, BuildsStay
  <2> QED
    BY <2>1, <2>2, <2>3 DEF ReadLastBuild
<1> QED
  BY <1>2, <1>4, <1>5

LEMMA ReadLastCompletedBuildInv ==
  Inv /\ ReadLastCompletedBuild /\ UNCHANGED jenkinsVars => Inv'
<1> SUFFICES ASSUME Inv, ReadLastCompletedBuild, UNCHANGED jenkinsVars PROVE Inv'
  OBVIOUS
<1> USE DEF Inv
<1>1. /\ UNCHANGED <<exists, buildable, builds, started, seen, deleted>>
      /\ pc = "lastCompleted" /\ pc' = "lastSuccessful"
      /\ refused \subseteq refused'
  BY DEF ReadLastCompletedBuild, NotFound, Found, jenkinsVars
<1>2. Shape' /\ (pc \in PCs)' /\ BuildsType' /\ NoJobNoBuilds' /\ BuildsStay'
  BY <1>1 DEF ReadLastCompletedBuild, Shape, PCs, BuildsType, NoJobNoBuilds, BuildsStay
<1>3. BuildStatus' = BuildStatus /\ TrueStatus' = TrueStatus
  BY <1>1 DEF BuildStatus, TrueStatus, Completed, With
<1>4. SeenIsCurrent'
  BY <1>1, <1>3 DEF SeenIsCurrent
<1>5. StatusSoFar'
  <2>1. CASE NotFound(Completed # {}) /\ UNCHANGED project
    <3>1. Completed # {} => "lastCompleted" \in refused'
      BY <1>1, <2>1 DEF NotFound
    <3>2. Completed = {} => BuildStatus = "Unknown" \/ deleted
      BY <1>1 DEF BuildStatus, BuildsStay
    <3> QED
      BY <1>1, <2>1, <3>1, <3>2
      DEF StatusSoFar, SeenIsCurrent, TakenForNew, Orphaned
  <2>2. CASE /\ Found(Completed # {})
             /\ project' = [project EXCEPT !.status =
                                       StatusOf(builds[Max(Completed)].result)]
    <3>1. builds # <<>>
      BY <2>2 DEF Found, Completed, With
    <3>2. BuildStatus = StatusOf(builds[Max(Completed)].result)
      BY <2>2, <3>1 DEF Found, BuildStatus
    <3>3. project'.status = BuildStatus
      BY <2>2, <3>2 DEF Shape
    <3> QED
      BY <1>1, <3>3 DEF StatusSoFar, SeenIsCurrent
  <2> QED
    BY <2>1, <2>2 DEF ReadLastCompletedBuild
<1> QED
  BY <1>2, <1>4, <1>5

LEMMA ReadLastSuccessfulBuildInv ==
  Inv /\ ReadLastSuccessfulBuild /\ UNCHANGED jenkinsVars => Inv'
<1> SUFFICES ASSUME Inv, ReadLastSuccessfulBuild, UNCHANGED jenkinsVars PROVE Inv'
  OBVIOUS
<1> USE DEF Inv
<1>1. /\ UNCHANGED <<exists, buildable, builds, started, seen, deleted>>
      /\ pc = "lastSuccessful" /\ pc' = "done"
      /\ refused \subseteq refused'
  BY DEF ReadLastSuccessfulBuild, NotFound, Found, jenkinsVars
<1>2. /\ Shape'
      /\ project'.status = project.status
      /\ project'.isBuilding = project.isBuilding
  BY DEF ReadLastSuccessfulBuild, Shape
<1>3. (pc \in PCs)' /\ BuildsType' /\ NoJobNoBuilds' /\ BuildsStay'
  BY <1>1 DEF PCs, BuildsType, NoJobNoBuilds, BuildsStay
<1>4. BuildStatus' = BuildStatus /\ TrueStatus' = TrueStatus
  BY <1>1 DEF BuildStatus, TrueStatus, Completed, With
<1>5. SeenIsCurrent'
  BY <1>1, <1>4 DEF SeenIsCurrent
<1>6. StatusSoFar'
  BY <1>1, <1>2 DEF StatusSoFar, TakenForNew, Orphaned
<1> QED
  BY <1>2, <1>3, <1>5, <1>6

\* Where a refresh begins and where it ends there is little to keep.
LEMMA BoundaryInv ==
  Inv /\ (Begin \/ Report \/ Fail) /\ UNCHANGED jenkinsVars => Inv'
<1> SUFFICES ASSUME Inv, Begin \/ Report \/ Fail, UNCHANGED jenkinsVars PROVE Inv'
  OBVIOUS
<1> USE DEF Inv
<1>1. UNCHANGED <<exists, buildable, builds, started>>
  BY DEF jenkinsVars
<1>2. /\ project' = NewProject
      /\ \/ pc' = "idle"
         \/ pc' = "project" /\ seen' = {BuildStatus, TrueStatus}
  BY DEF Begin, Report, Fail
<1>3. Shape' /\ (pc \in PCs)' /\ BuildsType' /\ NoJobNoBuilds' /\ BuildsStay'
  BY <1>1, <1>2 DEF Shape, NewProject, PCs, BuildsType, NoJobNoBuilds, BuildsStay
<1>4. BuildStatus' = BuildStatus /\ TrueStatus' = TrueStatus
  BY <1>1 DEF BuildStatus, TrueStatus, Completed, With
<1>5. SeenIsCurrent' /\ StatusSoFar'
  BY <1>2, <1>4 DEF SeenIsCurrent, StatusSoFar, NewProject
<1> QED
  BY <1>3, <1>5

LEMMA StepInv == Inv /\ [Next]_vars => Inv'
<1> SUFFICES ASSUME Inv, [Next]_vars PROVE Inv'
  OBVIOUS
<1>1. CASE JenkinsStep
  BY <1>1, JenkinsInv
<1>2. CASE RefreshStep
  BY <1>2, BoundaryInv, ReadProjectPageInv, ReadLastBuildInv,
     ReadLastCompletedBuildInv, ReadLastSuccessfulBuildInv DEF RefreshStep
<1>3. CASE Fail /\ UNCHANGED jenkinsVars
  BY <1>3, BoundaryInv
<1>4. CASE UNCHANGED vars
  BY <1>4 DEF vars, jenkinsVars, refreshVars, Inv, Shape, PCs, BuildsType,
              NoJobNoBuilds, SeenIsCurrent, BuildsStay, StatusSoFar, TakenForNew,
              Orphaned,
              BuildStatus, TrueStatus, Completed, With
<1> QED
  BY <1>1, <1>2, <1>3, <1>4 DEF Next

\* A refresh ends with a status the job had while the refresh went on, for any
\* number of builds, results, deletions, switches and failed requests, or with
\* NotBuilt, or Unknown while building, because get_json took a refused page for
\* none (project.rs:80-307).
THEOREM RefreshTellsTheTruth == Spec => []StatusWasTrue
<1>1. Inv => StatusWasTrue
  BY DEF Inv, StatusSoFar, StatusWasTrue, TakenForNew, Orphaned
<1> QED
  BY InitInv, StepInv, <1>1, PTL DEF Spec

--------------------------------------------------------------------------------
\* The greatest of some builds: the induction is in WellFoundedInduction, where
\* the naturals are shown to be well-founded.

LEMMA LeastElement ==
  ASSUME NEW S \in SUBSET Nat, S # {}
  PROVE  \E m \in S : \A n \in S : m <= n
<1> DEFINE R == OpToRel(<, Nat)
<1>1. \A m, n \in Nat : n < m => <<n, m>> \in R
  BY Zenon DEF OpToRel
<1>2. IsWellFoundedOn(R, Nat)
  BY NatLessThanWellFounded, Zenon
<1> HIDE DEF R
<1>3. PICK m \in S : \A n \in S : ~ (<<n, m>> \in R)
  BY <1>2, WFMin, Zenon
<1>4. \A n \in S : ~ (n < m)
  BY <1>1, <1>3
<1> QED
  BY <1>3, <1>4

LEMMA GreatestElement ==
  ASSUME NEW n \in Nat, NEW S \in SUBSET (1..n), S # {}
  PROVE  Max(S) \in S /\ \A i \in S : Max(S) >= i
<1> DEFINE T == {n - i : i \in S}
<1>1. T \in SUBSET Nat
  OBVIOUS
<1>2. T # {}
  OBVIOUS
<1>3. PICK m \in T : \A k \in T : m <= k
  BY <1>1, <1>2, LeastElement
<1>4. PICK i \in S : m = n - i
  BY <1>3
<1>5. \A j \in S : i >= j
  BY <1>3, <1>4
<1> QED
  BY <1>4, <1>5 DEF Max

--------------------------------------------------------------------------------
\* Types, and the times of builds.

Well == {"Success", "Unstable"}

\* Builds are numbered and dated in the order they are started in.
InTurn ==
  \A i, j \in DOMAIN builds :
    /\ builds[i].started \in 1..started
    /\ i <= j => builds[i].started <= builds[j].started

\* A project is not taken for well before a build says so.
NotWellYet ==
  pc \in {"project", "lastBuild", "lastCompleted"} => project.status \notin Well

\* The build that says so is there when the last successful one is asked for.
SuccessToCome ==
  pc = "lastSuccessful" /\ project.status \in Well /\ ~deleted =>
    \E i \in Successful : project.isBuilding \/ builds[i].started >= project.timestamp

Pages == {"project", "lastBuild", "lastCompleted", "lastSuccessful"}

DatedInv == TypeOK /\ InTurn /\ NotWellYet /\ SuccessToCome /\ SuccessIsDated

LEMMA StatusOfType == \A result : StatusOf(result) \in Status
BY DEF StatusOf, Status

LEMMA BuildStatusType == BuildStatus \in Status /\ TrueStatus \in Status
BY StatusOfType DEF BuildStatus, TrueStatus, Status

LEMMA InitDated == Init => DatedInv
<1> SUFFICES ASSUME Init PROVE DatedInv
  OBVIOUS
<1>1. NewProject \in ProjectRecord
  BY DEF NewProject, ProjectRecord, Status
<1>2. 0 \in 0..MaxBuilds /\ 0 \in 0..MaxChanges
  BY RefreshBounds
<1>3. TypeOK
  <2>1. <<>> \in Seq(BuildRecord)
    OBVIOUS
  <2>2. exists \in BOOLEAN /\ buildable \in BOOLEAN /\ deleted \in BOOLEAN
    BY DEF Init
  <2> QED
    BY <1>1, <1>2, <2>1, <2>2 DEF Init, TypeOK
<1>4. builds = <<>> /\ pc = "idle" /\ DOMAIN <<>> = {}
  BY DEF Init
<1>5. InTurn
  BY <1>4 DEF InTurn
<1> QED
  BY <1>3, <1>4, <1>5 DEF DatedInv, NotWellYet, SuccessToCome, SuccessIsDated

\* A build that has ended well stays, with its date, until the job is deleted.
LEMMA SuccessStays ==
  ASSUME TypeOK, JenkinsStep, ~deleted'
  PROVE  \A i \in Successful : i \in Successful' /\ builds'[i].started = builds[i].started
<1>1. CASE StartBuild
  <2>1. DOMAIN builds = 1..Len(builds) /\ Len(builds) \in Nat
    BY DEF TypeOK
  <2>2. DOMAIN builds' = 1..(Len(builds) + 1) /\ \A i \in DOMAIN builds : builds'[i] = builds[i]
    BY <1>1 DEF StartBuild, TypeOK
  <2> QED
    BY <2>1, <2>2 DEF Successful, With
<1>2. CASE EndBuild
  <2>1. PICK i \in With({"RUNNING"}), r \in Result : builds' = [builds EXCEPT ![i].result = r]
    BY <1>2 DEF EndBuild
  <2>2. i \in DOMAIN builds /\ builds[i].result = "RUNNING" /\ DOMAIN builds' = DOMAIN builds
    BY <2>1 DEF With
  <2>3. builds[i] \in BuildRecord
    BY <2>2 DEF TypeOK
  <2>4. builds'[i].started = builds[i].started
    BY <2>1, <2>2, <2>3 DEF BuildRecord
  <2>5. \A j \in DOMAIN builds \ {i} : builds'[j] = builds[j]
    BY <2>1
  <2>6. i \notin Successful
    BY <2>2 DEF Successful, With
  <2> QED
    BY <2>2, <2>5, <2>6 DEF Successful, With
<1>3. CASE CreateJob \/ SwitchJob
  BY <1>3 DEF CreateJob, SwitchJob, Successful, With
<1>4. CASE DeleteJob
  BY <1>4 DEF DeleteJob
<1> QED
  BY <1>1, <1>2, <1>3, <1>4 DEF JenkinsStep

\* The last successful build, when there is one.
LEMMA LastSuccessful ==
  ASSUME TypeOK, InTurn, Successful # {}
  PROVE  /\ Max(Successful) \in Successful
         /\ builds[Max(Successful)].started \in Nat \ {0}
         /\ \A i \in Successful : builds[i].started <= builds[Max(Successful)].started
<1>1. DOMAIN builds = 1..Len(builds) /\ Len(builds) \in Nat
  BY DEF TypeOK
<1>2. Successful \in SUBSET (1..Len(builds))
  BY <1>1 DEF Successful, With
<1>3. Max(Successful) \in Successful /\ \A i \in Successful : Max(Successful) >= i
  BY <1>1, <1>2, GreatestElement
<1>4. \A i \in Successful : i \in Nat /\ i \in DOMAIN builds
  BY <1>1, <1>2
<1>5. \A i \in Successful : i <= Max(Successful)
  BY <1>3, <1>4
<1>6. \A i \in Successful : builds[i].started <= builds[Max(Successful)].started
  BY <1>3, <1>4, <1>5 DEF InTurn
<1>7. builds[Max(Successful)].started \in 1..started /\ started \in Nat
  BY <1>3, <1>4, RefreshBounds DEF InTurn, TypeOK
<1> QED
  BY <1>3, <1>6, <1>7

LEMMA JenkinsDated ==
  ASSUME DatedInv, JenkinsStep
  PROVE  DatedInv'
<1> USE DEF DatedInv
<1>1. /\ UNCHANGED <<pc, project, reported, refused>>
      /\ seen' = seen \cup {BuildStatus', TrueStatus'}
  BY DEF JenkinsStep, refreshVars
<1>2. seen' \in SUBSET Status
  <2>1. BuildStatus' \in Status /\ TrueStatus' \in Status
    BY StatusOfType DEF BuildStatus, TrueStatus, Status
  <2> QED
    BY <1>1, <2>1 DEF TypeOK
<1>3. /\ exists' \in BOOLEAN /\ buildable' \in BOOLEAN /\ deleted' \in BOOLEAN
      /\ changes' \in 0..MaxChanges /\ started' \in 0..MaxBuilds
  <2>1. /\ started \in 0..MaxBuilds /\ MaxBuilds \in Nat
        /\ changes \in 0..MaxChanges /\ MaxChanges \in Nat
    BY RefreshBounds DEF TypeOK
  <2>2. exists' \in BOOLEAN /\ buildable' \in BOOLEAN /\ deleted' \in BOOLEAN
    BY DEF JenkinsStep, StartBuild, EndBuild, DeleteJob, CreateJob, SwitchJob, TypeOK
  <2>3. CASE StartBuild
    <3>1. changes' = changes /\ started' = started + 1 /\ started < MaxBuilds
      BY <2>3 DEF StartBuild
    <3> QED
      BY <2>1, <2>2, <3>1
  <2>4. CASE EndBuild
    BY <2>1, <2>2, <2>4 DEF EndBuild
  <2>5. CASE DeleteJob \/ CreateJob \/ SwitchJob
    <3>1. started' = started /\ changes < MaxChanges /\ changes' = changes + 1
      BY <2>5 DEF DeleteJob, CreateJob, SwitchJob, Change
    <3> QED
      BY <2>1, <2>2, <3>1
  <2> QED
    BY <2>3, <2>4, <2>5 DEF JenkinsStep
<1>4. builds' \in Seq(BuildRecord) /\ InTurn'
  <2> started \in Nat
    BY RefreshBounds DEF TypeOK
  <2>1. CASE StartBuild
    <3> DEFINE b == [started |-> started + 1, result |-> "RUNNING"]
               n == Len(builds)
    <3>1. builds' = Append(builds, b) /\ b \in BuildRecord /\ started' = started + 1
      BY <2>1 DEF StartBuild, BuildRecord
    <3>2. DOMAIN builds = 1..n /\ n \in Nat
      BY DEF TypeOK
    <3>3. /\ builds' \in Seq(BuildRecord)
          /\ DOMAIN builds' = 1..(n + 1)
          /\ builds'[n + 1] = b
          /\ \A i \in 1..n : builds'[i] = builds[i]
      BY <3>1 DEF TypeOK
    <3>4. \A i \in 1..n : builds[i].started \in 1..started
      BY <3>2 DEF InTurn
    <3>5. \A i \in 1..(n + 1) : builds'[i].started \in 1..(started + 1)
      BY <3>2, <3>3, <3>4
    <3>6. ASSUME NEW i \in 1..(n + 1), NEW j \in 1..(n + 1), i <= j
          PROVE  builds'[i].started <= builds'[j].started
      <4>1. CASE j = n + 1
        BY <3>3, <3>5, <4>1
      <4>2. CASE j # n + 1
        <5>1. i \in 1..n /\ j \in 1..n
          BY <3>2, <3>6, <4>2
        <5> QED
          BY <3>2, <3>3, <3>6, <5>1 DEF InTurn
      <4> QED
        BY <4>1, <4>2
    <3> QED
      BY <3>1, <3>3, <3>5, <3>6 DEF InTurn
  <2>2. CASE EndBuild
    <3>1. PICK i \in With({"RUNNING"}), r \in Result :
               builds' = [builds EXCEPT ![i].result = r]
      BY <2>2 DEF EndBuild
    <3>2. i \in DOMAIN builds /\ builds[i] \in BuildRecord
      BY DEF With, TypeOK
    <3>3. [builds[i] EXCEPT !.result = r] \in BuildRecord
      BY <3>2 DEF BuildRecord
    <3>4. builds' \in Seq(BuildRecord)
      BY <3>1, <3>2, <3>3 DEF TypeOK
    <3>5. DOMAIN builds' = DOMAIN builds
          /\ \A j \in DOMAIN builds : builds'[j].started = builds[j].started
      BY <3>1, <3>2 DEF BuildRecord
    <3>6. started' = started
      BY <2>2 DEF EndBuild
    <3> QED
      BY <3>4, <3>5, <3>6 DEF InTurn
  <2>3. CASE DeleteJob
    <3>1. builds' = <<>> /\ DOMAIN <<>> = {}
      BY <2>3 DEF DeleteJob
    <3> QED
      BY <3>1 DEF InTurn
  <2>4. CASE CreateJob \/ SwitchJob
    BY <2>4 DEF CreateJob, SwitchJob, InTurn, TypeOK
  <2> QED
    BY <2>1, <2>2, <2>3, <2>4 DEF JenkinsStep
<1>5. TypeOK'
  BY <1>1, <1>2, <1>3, <1>4 DEF TypeOK
<1>6. deleted => deleted'
  BY DEF JenkinsStep, StartBuild, EndBuild, DeleteJob, CreateJob, SwitchJob
<1>7. SuccessToCome'
  BY <1>1, <1>3, <1>6, SuccessStays DEF SuccessToCome, TypeOK
<1>8. NotWellYet' /\ SuccessIsDated'
  BY <1>1, <1>6 DEF NotWellYet, SuccessIsDated
<1> QED
  BY <1>4, <1>5, <1>7, <1>8

\* The requests change the project, where the refresh is and what it was refused,
\* and nothing else.
LEMMA RequestDated ==
  ASSUME DatedInv, RefreshStep, ~ Begin, ~ Report,
         project' \in ProjectRecord, pc' \in PCs \ {"idle", "project"}
  PROVE  TypeOK' /\ InTurn'
<1>1. /\ UNCHANGED <<exists, buildable, builds, started, reported, seen, deleted>>
      /\ pc \in Pages
  BY DEF RefreshStep, ReadProjectPage, ReadLastBuild, ReadLastCompletedBuild,
         ReadLastSuccessfulBuild, jenkinsVars, Pages
<1>2. \/ UNCHANGED <<changes, refused>>
      \/ Change /\ refused' = refused \cup {pc}
  BY DEF RefreshStep, ReadProjectPage, ReadLastBuild, NoLastBuild,
         ReadLastCompletedBuild, ReadLastSuccessfulBuild, Found, NotFound
<1>3. changes' \in 0..MaxChanges
  <2>1. changes \in 0..MaxChanges /\ MaxChanges \in Nat
    BY RefreshBounds DEF DatedInv, TypeOK
  <2> QED
    BY <1>2, <2>1 DEF Change
<1>4. refused' \subseteq Pages
  BY <1>1, <1>2 DEF DatedInv, TypeOK, Pages
<1> QED
  BY <1>1, <1>3, <1>4 DEF DatedInv, TypeOK, InTurn, PCs, Pages

LEMMA ReadProjectPageDated ==
  ASSUME DatedInv, ReadProjectPage, UNCHANGED jenkinsVars
  PROVE  DatedInv'
<1>1. pc = "project" /\ pc' \in {"lastBuild", "done"}
  BY DEF ReadProjectPage
<1>2. /\ project' \in ProjectRecord
      /\ project'.status \in {project.status, "NotBuilt", "Disabled"}
  BY DEF ReadProjectPage, Found, DatedInv, TypeOK, ProjectRecord, Status
<1>3. TypeOK' /\ InTurn'
  BY <1>1, <1>2, RequestDated DEF RefreshStep, PCs, Begin, Report
<1>4. project'.status \notin Well
  BY <1>1, <1>2 DEF DatedInv, NotWellYet, Well
<1> QED
  BY <1>1, <1>3, <1>4 DEF DatedInv, NotWellYet, SuccessToCome, SuccessIsDated, Well

LEMMA ReadLastBuildDated ==
  ASSUME DatedInv, ReadLastBuild, UNCHANGED jenkinsVars
  PROVE  DatedInv'
<1> DEFINE n == Len(builds)
           last == builds[n]
<1>1. pc = "lastBuild" /\ pc' \in {"lastCompleted", "lastSuccessful"}
  BY DEF ReadLastBuild, NoLastBuild
<1>2. project \in ProjectRecord /\ project.status \notin Well
  BY <1>1 DEF DatedInv, TypeOK, NotWellYet
<1>3. builds # <<>> => n \in DOMAIN builds /\ last \in BuildRecord
  BY DEF DatedInv, TypeOK
<1>4. project' \in ProjectRecord
  <2>1. StatusOf(last.result) \in Status /\ "NotBuilt" \in Status
    BY StatusOfType DEF Status
  <2> QED
    BY <1>2, <1>3, <2>1 DEF ReadLastBuild, NoLastBuild, Found, ProjectRecord,
                            BuildRecord
<1>5. TypeOK' /\ InTurn'
  BY <1>1, <1>4, RequestDated DEF RefreshStep, PCs, Begin, Report
<1>6. UNCHANGED <<builds, deleted>> /\ Successful' = Successful
  BY DEF ReadLastBuild, jenkinsVars, Successful, With
<1>7. NotWellYet' /\ SuccessToCome'
  <2>1. CASE NoLastBuild
    <3>1. project'.status = "NotBuilt" /\ pc' = "lastSuccessful"
      BY <1>2, <2>1 DEF NoLastBuild, ProjectRecord
    <3> QED
      BY <3>1 DEF NotWellYet, SuccessToCome, Well
  <2>2. CASE /\ Found(builds # <<>>)
             /\ last.result = "RUNNING"
             /\ project' = [project EXCEPT !.isBuilding = TRUE,
                                           !.timestamp = last.started]
             /\ pc' = "lastCompleted"
    <3>1. project'.status = project.status
      BY <1>2, <2>2 DEF ProjectRecord
    <3> QED
      BY <1>2, <2>2, <3>1 DEF NotWellYet, SuccessToCome
  <2>3. CASE /\ Found(builds # <<>>)
             /\ last.result # "RUNNING"
             /\ project' = [project EXCEPT !.status = StatusOf(last.result),
                                           !.isBuilding = FALSE,
                                           !.timestamp = last.started]
             /\ pc' = "lastSuccessful"
    <3>1. /\ project'.status = StatusOf(last.result)
          /\ project'.timestamp = last.started
      BY <1>2, <2>3 DEF ProjectRecord
    <3>2. project'.status \in Well => last.result \in {"SUCCESS", "UNSTABLE"}
      BY <3>1 DEF StatusOf, Well
    <3>3. project'.status \in Well => n \in Successful
      BY <1>3, <2>3, <3>2 DEF Found, Successful, With
    <3>4. last.started >= last.started
      BY <1>3, <2>3 DEF Found, BuildRecord
    <3> QED
      BY <1>6, <2>3, <3>1, <3>3, <3>4 DEF NotWellYet, SuccessToCome
  <2> QED
    BY <2>1, <2>2, <2>3 DEF ReadLastBuild
<1> QED
  BY <1>1, <1>5, <1>7 DEF DatedInv, SuccessIsDated

LEMMA ReadLastCompletedBuildDated ==
  ASSUME DatedInv, ReadLastCompletedBuild, UNCHANGED jenkinsVars, project.isBuilding
  PROVE  DatedInv'
<1>1. pc = "lastCompleted" /\ pc' = "lastSuccessful"
  BY DEF ReadLastCompletedBuild
<1>2. project \in ProjectRecord /\ project.status \notin Well
  BY <1>1 DEF DatedInv, TypeOK, NotWellYet
<1>3. UNCHANGED <<builds, deleted>> /\ Successful' = Successful
  BY DEF ReadLastCompletedBuild, jenkinsVars, Successful, With
<1>4. CASE UNCHANGED project
  <2>1. project' = project
    BY <1>4
  <2>2. TypeOK' /\ InTurn'
    BY <1>1, <1>2, <2>1, RequestDated DEF RefreshStep, PCs, Begin, Report
  <2> QED
    BY <1>1, <1>2, <2>1, <2>2 DEF DatedInv, NotWellYet, SuccessToCome, SuccessIsDated
<1>5. CASE /\ Found(Completed # {})
           /\ project' = [project EXCEPT !.status =
                                     StatusOf(builds[Max(Completed)].result)]
  <2> DEFINE last == builds[Max(Completed)]
  <2>1. project' = [project EXCEPT !.status = StatusOf(last.result)] /\ Completed # {}
    BY <1>5 DEF Found
  <2>2. project' \in ProjectRecord
    BY <1>2, <2>1, StatusOfType DEF ProjectRecord
  <2>3. TypeOK' /\ InTurn'
    BY <1>1, <2>2, RequestDated DEF RefreshStep, PCs, Begin, Report
  <2>4. Max(Completed) \in Completed
    <3>1. DOMAIN builds = 1..Len(builds) /\ Len(builds) \in Nat
      BY DEF DatedInv, TypeOK
    <3>2. Completed \in SUBSET (1..Len(builds))
      BY <3>1 DEF Completed, With
    <3> QED
      BY <2>1, <3>1, <3>2, GreatestElement
  <2>5. project'.status = StatusOf(last.result) /\ project'.isBuilding
    BY <1>2, <2>1 DEF ProjectRecord
  <2>6. project'.status \in Well => last.result \in {"SUCCESS", "UNSTABLE"}
    BY <2>5 DEF StatusOf, Well
  <2>7. project'.status \in Well => Max(Completed) \in Successful
    BY <2>4, <2>6 DEF Completed, Successful, With
  <2> QED
    BY <1>1, <1>3, <2>3, <2>5, <2>7
    DEF DatedInv, NotWellYet, SuccessToCome, SuccessIsDated
<1> QED
  BY <1>4, <1>5 DEF ReadLastCompletedBuild

LEMMA ReadLastSuccessfulBuildDated ==
  ASSUME DatedInv, ReadLastSuccessfulBuild, UNCHANGED jenkinsVars
  PROVE  DatedInv'
<1> DEFINE time == builds[Max(Successful)].started
<1>1. pc = "lastSuccessful" /\ pc' = "done" /\ deleted' = deleted
  BY DEF ReadLastSuccessfulBuild
<1>2. project \in ProjectRecord
  BY DEF DatedInv, TypeOK
<1>3. CASE NotFound(Successful # {}) /\ UNCHANGED project
  <2>1. project' = project /\ (Successful # {} => "lastSuccessful" \in refused')
    BY <1>1, <1>3 DEF NotFound
  <2>2. TypeOK' /\ InTurn'
    BY <1>1, <1>2, <2>1, RequestDated DEF RefreshStep, PCs, Begin, Report
  <2> QED
    BY <1>1, <1>3, <2>1, <2>2
    DEF DatedInv, NotWellYet, SuccessToCome, SuccessIsDated, Well
<1>4. CASE /\ Found(Successful # {})
           /\ project' = [project EXCEPT !.lastSuccessfulBuildTime =
                                     builds[Max(Successful)].started]
  <2>1. project' = [project EXCEPT !.lastSuccessfulBuildTime = time] /\ Successful # {}
    BY <1>4 DEF Found
  <2>2. time \in Nat \ {0} /\ \A i \in Successful : builds[i].started <= time
    BY <2>1, LastSuccessful DEF DatedInv
  <2>3. project' \in ProjectRecord
    BY <1>2, <2>1, <2>2 DEF ProjectRecord
  <2>4. TypeOK' /\ InTurn'
    BY <1>1, <2>3, RequestDated DEF RefreshStep, PCs, Begin, Report
  <2>5. /\ project'.status = project.status /\ project'.isBuilding = project.isBuilding
        /\ project'.timestamp = project.timestamp
        /\ project'.lastSuccessfulBuildTime = time
    BY <1>2, <2>1 DEF ProjectRecord
  <2>6. ASSUME project.status \in Well, ~deleted, ~project.isBuilding
        PROVE  time >= project.timestamp
    <3>1. PICK i \in Successful : builds[i].started >= project.timestamp
      BY <1>1, <2>6 DEF DatedInv, SuccessToCome
    <3>2. builds[i].started \in Nat /\ project.timestamp \in Nat
      <4>1. i \in DOMAIN builds /\ builds \in Seq(BuildRecord)
        BY DEF Successful, With, DatedInv, TypeOK
      <4>2. builds[i] \in BuildRecord
        BY <4>1
      <4> QED
        BY <1>2, <4>2 DEF BuildRecord, ProjectRecord
    <3> QED
      BY <2>2, <3>1, <3>2
  <2>7. SuccessIsDated'
    BY <1>1, <2>2, <2>5, <2>6 DEF SuccessIsDated, Well
  <2> QED
    BY <1>1, <2>4, <2>7 DEF DatedInv, NotWellYet, SuccessToCome
<1> QED
  BY <1>3, <1>4 DEF ReadLastSuccessfulBuild

LEMMA BoundaryDated ==
  ASSUME DatedInv, Begin \/ Report \/ Fail, UNCHANGED jenkinsVars
  PROVE  DatedInv'
<1>1. /\ UNCHANGED <<exists, buildable, builds, started>>
      /\ project' = NewProject /\ pc' \in {"idle", "project"}
      /\ reported' \in {reported, project}
  BY DEF Begin, Report, Fail, jenkinsVars
<1>2. NewProject \in ProjectRecord /\ NewProject.status = "Unknown"
  BY DEF NewProject, ProjectRecord, Status
<1>3. seen' \in SUBSET Status /\ deleted' \in BOOLEAN /\ refused' \subseteq Pages
  BY BuildStatusType DEF Begin, Report, Fail, DatedInv, TypeOK, Pages
<1>4. changes' \in 0..MaxChanges
  <2>1. changes \in 0..MaxChanges /\ MaxChanges \in Nat
    BY RefreshBounds DEF DatedInv, TypeOK
  <2>2. CASE Begin \/ Report
    BY <2>1, <2>2 DEF Begin, Report
  <2>3. CASE Fail
    BY <2>1, <2>3 DEF Fail, Change
  <2> QED
    BY <2>2, <2>3
<1>5. TypeOK' /\ InTurn'
  BY <1>1, <1>2, <1>3, <1>4 DEF DatedInv, TypeOK, InTurn, Pages
<1> QED
  BY <1>1, <1>2, <1>5 DEF DatedInv, NotWellYet, SuccessToCome, SuccessIsDated, Well

LEMMA StepDated == Inv /\ DatedInv /\ [Next]_vars => DatedInv'
<1> SUFFICES ASSUME Inv, DatedInv, [Next]_vars PROVE DatedInv'
  OBVIOUS
<1>1. CASE JenkinsStep
  BY <1>1, JenkinsDated
<1>2. CASE RefreshStep
  <2>1. pc = "lastCompleted" => project.isBuilding
    BY DEF Inv, StatusSoFar
  <2> QED
    BY <1>2, <2>1, BoundaryDated, ReadProjectPageDated, ReadLastBuildDated,
       ReadLastCompletedBuildDated, ReadLastSuccessfulBuildDated
    DEF RefreshStep, ReadLastCompletedBuild
<1>3. CASE Fail /\ UNCHANGED jenkinsVars
  BY <1>3, BoundaryDated
<1>4. CASE UNCHANGED vars
  BY <1>4 DEF vars, jenkinsVars, refreshVars, DatedInv, TypeOK, InTurn, NotWellYet,
              SuccessToCome, SuccessIsDated, Successful, With
<1> QED
  BY <1>1, <1>2, <1>3, <1>4 DEF Next

\* Every variable keeps its type, whichever requests fail and whatever the results
\* of builds are called.
THEOREM RefreshTypes == Spec => []TypeOK
<1>1. DatedInv => TypeOK
  BY DEF DatedInv
<1> QED
  BY InitInv, StepInv, InitDated, StepDated, <1>1, PTL DEF Spec

\* A project that is reported as well has the time of a successful build, and one
\* that is not older than its last build unless that is running: the last
\* successful build is asked for last, so it is at least as new as the build the
\* status is from, unless that page is refused (project.rs:80-307).
THEOREM SuccessesAreDated == Spec => []SuccessIsDated
<1>1. DatedInv => SuccessIsDated
  BY DEF DatedInv
<1> QED
  BY InitInv, StepInv, InitDated, StepDated, <1>1, PTL DEF Spec
================================================================================
