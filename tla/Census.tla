--------------------------------- MODULE Census ---------------------------------
(***************************************************************************)
(* What a refresh of the list of projects promises, however Jenkins        *)
(* changes while it runs: the list it ends with has every project that was *)
(* there all the time, and none that was never there.  A refresh that      *)
(* fails leaves the list alone.                                            *)
(***************************************************************************)
CONSTANT Job   \* the projects there may be

VARIABLES
  jobs,       \* the projects Jenkins has
  list,       \* the projects on the list
  counting,   \* a refresh is under way
  must,       \* the projects there has been since it began
  may         \* the projects there has been at some time since it began

censusVars == <<jobs, list, counting, must, may>>

CensusInit == /\ jobs \in SUBSET Job
              /\ list = {}
              /\ counting = FALSE
              /\ must = jobs
              /\ may = jobs

Change == /\ jobs' \in SUBSET Job
          /\ must' = must \cap jobs'
          /\ may' = may \cup jobs'
          /\ UNCHANGED <<list, counting>>

Begin == /\ ~counting
         /\ counting' = TRUE
         /\ must' = jobs
         /\ may' = jobs
         /\ UNCHANGED <<jobs, list>>

GiveUp == /\ counting
          /\ counting' = FALSE
          /\ UNCHANGED <<jobs, list, must, may>>

Publish == /\ counting
           /\ list' \in SUBSET may
           /\ must \subseteq list'
           /\ counting' = FALSE
           /\ UNCHANGED <<jobs, must, may>>

CensusNext == Change \/ Begin \/ GiveUp \/ Publish

CensusSpec == CensusInit /\ [][CensusNext]_censusVars
================================================================================
