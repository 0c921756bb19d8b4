-------------------------- MODULE ClientMonitorProofs --------------------------
(***************************************************************************)
(* What the operators of ProjectData return, and what the actions of       *)
(* ClientMonitor keep.                                                     *)
(***************************************************************************)
EXTENDS ClientMonitor, SequenceTheorems, TLAPS

--------------------------------------------------------------------------------
\* A list is a function from some of the projects to entries.
LEMMA ListElim ==
  ASSUME NEW l \in ProjectList
  PROVE  /\ DOMAIN l \in SUBSET Project
         /\ l \in [DOMAIN l -> Entry]
<1>1. PICK S \in SUBSET Project : l \in [S -> Entry]
  BY DEF ProjectList
<1> QED BY <1>1

\* ... and every such function is a list.
LEMMA ListIntro ==
  ASSUME NEW S \in SUBSET Project, NEW l \in [S -> Entry]
  PROVE  l \in ProjectList
BY DEF ProjectList

LEMMA HashIntro ==
  ASSUME NEW S \in SUBSET Project, NEW h \in [S -> HashedEntry]
  PROVE  h \in ProjectHash
BY DEF ProjectHash

LEMMA VolunteerMapElim ==
  ASSUME NEW m \in VolunteerMap
  PROVE  /\ DOMAIN m \in SUBSET Project
         /\ m \in [DOMAIN m -> Client]
<1>1. PICK S \in SUBSET Project : m \in [S -> Client]
  BY DEF VolunteerMap
<1> QED BY <1>1

LEMMA EmptyListType ==
  /\ EmptyList \in ProjectList
  /\ EmptyList \in VolunteerMap
<1>1. EmptyList \in [{} -> Entry] /\ EmptyList \in [{} -> Client]
  BY DEF EmptyList
<1> QED BY <1>1 DEF ProjectList, VolunteerMap

\* The hash of a list (generate_projects_hash) covers exactly its projects.
LEMMA HashType ==
  ASSUME NEW l \in ProjectList
  PROVE  /\ Hash(l) \in ProjectHash
         /\ DOMAIN Hash(l) = DOMAIN l
<1>1. DOMAIN l \in SUBSET Project /\ l \in [DOMAIN l -> Entry]
  BY ListElim
<1>2. Hash(l) \in [DOMAIN l -> HashedEntry]
  BY <1>1 DEF Hash, Entry, HashedEntry
<1> QED BY <1>1, <1>2, HashIntro

\* A volunteer can be set on any list (Project::set_volunteer).
LEMMA SetVolunteerType ==
  ASSUME NEW l \in ProjectList, NEW p, NEW v \in Volunteers
  PROVE  SetVolunteer(l, p, v) \in ProjectList
<1>1. DOMAIN l \in SUBSET Project /\ l \in [DOMAIN l -> Entry]
  BY ListElim
<1>2. SetVolunteer(l, p, v) \in [DOMAIN l -> Entry]
  BY <1>1 DEF SetVolunteer, Entry
<1> QED BY <1>1, <1>2, ListIntro

\* The saved volunteers are names of clients, never the empty name.
LEMMA VolunteersOfType ==
  ASSUME NEW l \in ProjectList
  PROVE  VolunteersOf(l) \in VolunteerMap
<1>1. DOMAIN l \in SUBSET Project /\ l \in [DOMAIN l -> Entry]
  BY ListElim
<1> DEFINE S == {q \in DOMAIN l : l[q].volunteer # NoOne}
<1>2. S \in SUBSET Project
  BY <1>1
<1>3. VolunteersOf(l) \in [S -> Client]
  BY <1>1 DEF VolunteersOf, Entry, Volunteers
<1> QED BY <1>2, <1>3 DEF VolunteerMap

\* Carrying saved volunteers over gives a list of the same projects.
LEMMA CarryVolunteersType ==
  ASSUME NEW l \in ProjectList, NEW saved \in VolunteerMap
  PROVE  CarryVolunteers(l, saved) \in ProjectList
<1>1. DOMAIN l \in SUBSET Project /\ l \in [DOMAIN l -> Entry]
  BY ListElim
<1>2. saved \in [DOMAIN saved -> Client]
  BY VolunteerMapElim
<1>3. CarryVolunteers(l, saved) \in [DOMAIN l -> Entry]
  BY <1>1, <1>2 DEF CarryVolunteers, Entry, Volunteers
<1> QED BY <1>1, <1>3, ListIntro

--------------------------------------------------------------------------------
LEMMA ClientInitType == ClientInit => ClientTypeOK
BY EmptyListType, EmptySeq DEF ClientInit, ClientTypeOK

\* What the Monitor of a client does keeps the types of all clients.
LEMMA ClientType ==
  ASSUME ClientTypeOK, NEW c \in Client,
         \/ RefreshClient(c)
         \/ RenewMonitor(c)
         \/ \E p \in Project : SetVolunteering(c, p)
         \/ \E l \in ProjectList : /\ FillSlot(c, l)
                                   /\ UNCHANGED <<outbox, shown, shownHash, volunteered>>
  PROVE  ClientTypeOK'
<1> USE DEF ClientTypeOK
<1>1. EmptyList \in ProjectList
  BY EmptyListType
<1>2. CASE RefreshClient(c)
  <2>1. Taken(c) \in ProjectList /\ Hash(Taken(c)) \in ProjectHash
    BY HashType DEF Taken
  <2> QED BY <1>1, <1>2, <2>1 DEF RefreshClient
<1>3. CASE RenewMonitor(c)
  BY <1>1, <1>3, EmptySeq DEF RenewMonitor
<1>4. ASSUME NEW p \in Project, SetVolunteering(c, p)
      PROVE  ClientTypeOK'
  <2>1. SetVolunteer(shown[c], p, c) \in ProjectList
    BY SetVolunteerType DEF Volunteers
  <2>2. Append(outbox[c], p) \in Seq(Project)
    BY AppendProperties
  <2>3. volunteered' \in Nat
    BY <1>4 DEF SetVolunteering
  <2>4. shown' \in [Client -> ProjectList] /\ outbox' \in [Client -> Seq(Project)]
    BY <1>4, <2>1, <2>2 DEF SetVolunteering
  <2> QED BY <1>4, <2>3, <2>4 DEF SetVolunteering
<1>5. ASSUME NEW l \in ProjectList, FillSlot(c, l),
             UNCHANGED <<outbox, shown, shownHash, volunteered>>
      PROVE  ClientTypeOK'
  BY <1>5 DEF FillSlot
<1> QED BY <1>2, <1>3, <1>4, <1>5
================================================================================
