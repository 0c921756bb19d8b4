------------------------------ MODULE ProjectBoard ------------------------------
(***************************************************************************)
(* What the distribution of the project list promises, whatever carries    *)
(* it: there is one board, the server's list, and every viewer sees either *)
(* nothing or a copy of the board as it once was, as a whole, with nothing *)
(* on it that was not on the board except the viewer's own name on         *)
(* projects it has volunteered for.                                        *)
(***************************************************************************)
CONSTANTS
  Viewer,          \* who looks at the board
  Item,            \* what is on the board
  Empty,           \* the empty board
  List,            \* what a board may be
  Mark(_, _, _)    \* Mark(l, i, v): the list l with the name v on item i

VARIABLES
  board,   \* the list
  past,    \* every list the board has been
  view     \* view[v]: what viewer v sees

boardVars == <<board, past, view>>

BoardInit == /\ board = Empty
             /\ past = {Empty}
             /\ view = [v \in Viewer |-> Empty]

\* The board changes as a whole.
Change == /\ board' \in List
          /\ past' = past \cup {board'}
          /\ UNCHANGED view

\* A viewer gets a copy of the board, of now or of some earlier time.
Look(v) == /\ \E l \in past : view' = [view EXCEPT ![v] = l]
           /\ UNCHANGED <<board, past>>

\* A viewer writes its own name on its copy.
Sign(v) == /\ \E i \in Item : view' = [view EXCEPT ![v] = Mark(view[v], i, v)]
           /\ UNCHANGED <<board, past>>

\* A viewer starts again, with nothing.
Forget(v) == /\ view' = [view EXCEPT ![v] = Empty]
             /\ UNCHANGED <<board, past>>

BoardNext == \/ Change
             \/ \E v \in Viewer : Look(v) \/ Sign(v) \/ Forget(v)

BoardSpec == BoardInit /\ [][BoardNext]_boardVars
================================================================================
