----------------------------- MODULE QueryFeedBoard -----------------------------
(***************************************************************************)
(* QueryFeed with a history variable, the set of lists the server has had, *)
(* and the claim that it implements ProjectBoard.                          *)
(***************************************************************************)
EXTENDS QueryFeed

VARIABLE past   \* every list projects has been

boardFeedVars == <<vars, past>>

BoardFeedInit == Init /\ past = {EmptyList}
BoardFeedNext == Next /\ past' = past \cup {projects'}
BoardFeedSpec == BoardFeedInit /\ [][BoardFeedNext]_boardFeedVars

Board == INSTANCE ProjectBoard WITH
           Viewer <- Client, Item <- Project, Empty <- EmptyList,
           List <- ProjectList, Mark <- SetVolunteer,
           board <- projects, view <- shown

\* What a client shows is a whole list the server once had, as it was, but for
\* the client's own name: no poll, late or duplicated answer, restart or
\* refresh ever mixes two lists or shows one that never was.
BoardSpec == Board!BoardSpec

\* Lists on their way are lists the server once had.
OnTheBoard ==
  /\ projects \in past
  /\ EmptyList \in past
  /\ \A c \in Client :
       /\ slot[c] \in past
       /\ \A i \in DOMAIN inbox[c] :
            inbox[c][i].type = "ProjectUpdate" => inbox[c][i].projects \in past
================================================================================
