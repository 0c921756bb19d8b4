--------------------------- MODULE MulticastFeedBoard ---------------------------
(***************************************************************************)
(* MulticastFeed with a history variable, the set of lists the server has  *)
(* had, and the claim that it implements ProjectBoard.                     *)
(***************************************************************************)
EXTENDS MulticastFeed

VARIABLE past   \* every list projects has been

boardFeedVars == <<vars, past>>

BoardFeedInit == Init /\ past = {EmptyList}
BoardFeedNext == Next /\ past' = past \cup {projects'}
BoardFeedSpec == BoardFeedInit /\ [][BoardFeedNext]_boardFeedVars

BoardFeedFairSpec == BoardFeedSpec /\ Fairness

Board == INSTANCE ProjectBoard WITH
           Viewer <- Client, Item <- Project, Empty <- EmptyList,
           List <- ProjectList, Mark <- SetVolunteer,
           board <- projects, view <- shown

\* What a client shows is a whole list the server once had, as it was, but for
\* the client's own name, however broadcasts, answers, restarts on another
\* host and refreshes interleave.
BoardSpec == Board!BoardSpec
================================================================================
