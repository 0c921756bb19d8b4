------------------------------ MODULE ProjectStatus ------------------------------
(* The statuses a project is given, and what they are made from. *)

Status == {"Success", "Unstable", "Failed", "NotBuilt", "Aborted", "Disabled",
           "Unknown"}

\* Mutant: a result the program does not know is passed on.
StatusOf_Any(result) == CASE result = "SUCCESS"  -> "Success"
                          [] result = "UNSTABLE" -> "Unstable"
                          [] result = "FAILURE"  -> "Failed"
                          [] result = "ABORTED"  -> "Aborted"
                          [] OTHER -> result

\* The status for the result Jenkins gives a completed build.
StatusOf(result) == CASE result = "SUCCESS"  -> "Success"
                      [] result = "UNSTABLE" -> "Unstable"
                      [] result = "FAILURE"  -> "Failed"
                      [] result = "ABORTED"  -> "Aborted"
                      [] OTHER -> "Unknown"
================================================================================
