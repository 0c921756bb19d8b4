------------------------------ MODULE ProjectData ------------------------------
(***************************************************************************)
(* The data the monitor's server and clients exchange: a list of Jenkins   *)
(* projects, the hash that summarises it, and the volunteers it carries.   *)
(*                                                                         *)
(* A list is a function on the ids it contains.  The code keeps a Vec      *)
(* sorted by folder and name (monitor.rs:126-134), so one set of projects  *)
(* has one order and nothing is lost by leaving it out.                    *)
(***************************************************************************)
EXTENDS Naturals, FiniteSets, ProjectStatus

CONSTANTS
  Project,        \* project ids (the hash of the project's url)
  Client,         \* clients; a client stands for its user's name too
  NoOne,          \* the empty volunteer string
  ZeroHash,       \* the hash 0, "I have nothing"
  MaxHash,        \* the hash u64::MAX a Monitor starts with
  DatagramLimit,  \* the number of projects that fit in one UDP datagram
  MaxTime         \* bound on the timestamps of builds

Volunteers == Client \cup {NoOne}

\* What the program looks at of a project.  `status' stands for every field
\* that Project::hash covers besides the id and the volunteer (status,
\* is_building, duration, last successful build, culprits); `timestamp' for
\* the fields it does not cover (timestamp, estimated duration).
Time == 0..MaxTime

Entry == [status : Status, timestamp : Time, volunteer : Volunteers]

ProjectList == UNION {[S -> Entry] : S \in SUBSET Project}

EmptyList == [p \in {} |-> {}]

\* generate_projects_hash: equal exactly for lists that agree on the hashed
\* fields (collisions of the 64-bit hash are left out).
Hash(l) == [p \in DOMAIN l |-> [status    |-> l[p].status,
                                volunteer |-> l[p].volunteer]]

HashedEntry == [status : Status, volunteer : Volunteers]

ProjectHash == UNION {[S -> HashedEntry] : S \in SUBSET Project}

Fits(l) == Cardinality(DOMAIN l) <= DatagramLimit

--------------------------------------------------------------------------------
\* The list after Project::set_volunteer on the project with this id; a list
\* that does not contain it stays as it is.
SetVolunteer(l, p, v) ==
  [q \in DOMAIN l |-> IF q = p THEN [l[q] EXCEPT !.volunteer = v] ELSE l[q]]

\* Mutant: projects without a volunteer are not skipped.
VolunteersOf_All(l) == [p \in DOMAIN l |-> l[p].volunteer]

\* The (id, volunteer) pairs refresh_projects saves before it crawls.
VolunteersOf(l) ==
  [p \in {q \in DOMAIN l : l[q].volunteer # NoOne} |-> l[p].volunteer]

\* Mutant: the comparison with Success is the wrong way round.
CarryVolunteers_Inverted(l, saved) ==
  [p \in DOMAIN l |->
     IF p \in DOMAIN saved /\ l[p].status = "Success"
     THEN [l[p] EXCEPT !.volunteer = saved[p]]
     ELSE l[p]]

\* The saved volunteers put back on a freshly crawled list: not on a project
\* that has been fixed, and not on one that is gone.
CarryVolunteers(l, saved) ==
  [p \in DOMAIN l |->
     IF p \in DOMAIN saved /\ l[p].status # "Success"
     THEN [l[p] EXCEPT !.volunteer = saved[p]]
     ELSE l[p]]

VolunteerMap == UNION {[S -> Client] : S \in SUBSET Project}

--------------------------------------------------------------------------------
\* 0 and u64::MAX stand for "no list": the code takes for granted that no list
\* hashes to them, and so does the model.
ASSUME SentinelHashes == {ZeroHash, MaxHash} \cap ProjectHash = {}

ASSUME NoOneIsNoClient == NoOne \notin Client

ASSUME DataBounds == DatagramLimit \in Nat /\ MaxTime \in Nat
================================================================================
