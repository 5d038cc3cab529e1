----------------------------- MODULE Placement -----------------------------
(***************************************************************************)
(* Game._place_stone_base with the loop of Game._gather, step by step: the  *)
(* neighbours of the new stone are visited one after the other on a copy of *)
(* the board, each dead group is removed before the next neighbour is       *)
(* looked at, and a group is gathered with a stack of points to look at.    *)
(* The order in which sets of points are gone through is left open, and     *)
(* with it which point is on top of the stack.                             *)
(*                                                                         *)
(* Module GoBoard says in one expression each what these loops compute; the *)
(* properties say that they do, on any board and for any coordinates that  *)
(* name a point of it, which is what lets module Game use the expressions.  *)
(* Whose turn it is, is a guard there.                                     *)
(***************************************************************************)
EXTENDS GoBoard

VARIABLES
    board,          \* self.board
    prev_board,     \* self._prev_board, NoBoard if it is None
    coords,         \* where the stone is to go
    color,          \* its colour
    new_board,      \* the copy of board
    neighbours,     \* the neighbours of coords not visited yet
    captured,       \* number of stones removed from new_board
    group,          \* what _gather has gathered, {} when it is not running
    stack,          \* the points it has to look at yet
    alive,          \* whether it has seen a liberty
    at              \* where the code is, or the result it returned

given == <<board, prev_board, coords, color>>
gather == <<group, stack, alive>>
vars == <<given, new_board, neighbours, captured, gather, at>>

Result == {"occupied", "suicide", "ko", "placed"}

StartWith(b, prev, co, c) ==
    /\ board = b
    /\ prev_board = prev
    /\ coords = co
    /\ color = c
    /\ new_board = b
    /\ neighbours = {}
    /\ captured = 0
    /\ group = {} /\ stack = {} /\ alive = FALSE
    /\ at = "start"

Init ==
    \E b \in Board, prev \in Board \cup {NoBoard}, co \in Coordinate, c \in Color :
        StartWith(b, prev, co, c)

\* The point has a stone: an early return.
Refuse ==
    /\ at = "start"
    /\ board[At(coords)] # Empty
    /\ at' = "occupied"
    /\ UNCHANGED <<given, new_board, neighbours, captured, gather>>

PutStone ==
    /\ at = "start"
    /\ board[At(coords)] = Empty
    /\ new_board' = Put(board, coords, color)
    /\ neighbours' = Adjacencies(coords)
    /\ at' = "visit"
    /\ UNCHANGED <<given, captured, gather>>

\* mutant: the first point is not in the group from the start
StartGatherEmpty(p) == group' = {} /\ stack' = {p} /\ alive' = FALSE

\* The call of _gather at p, up to its while loop.
StartGather(p) == group' = {p} /\ stack' = {p} /\ alive' = FALSE

\* The body of the for loop, up to the call of _gather.
Visit(q) ==
    /\ at = "visit"
    /\ neighbours' = neighbours \ {q}
    /\ IF new_board[q] = inverse(color)
       THEN StartGather(q) /\ at' = "opponent"
       ELSE UNCHANGED <<gather, at>>
    /\ UNCHANGED <<given, new_board, captured>>

AliveIfLast(adjacencies) == \E q \in adjacencies : new_board[q] = Empty     \* mutant

StillAlive(adjacencies) == alive \/ \E q \in adjacencies : new_board[q] = Empty

\* mutant: stones of either colour are gathered
ToAddAnyStone(p, adjacencies) == {q \in adjacencies : new_board[q] # Empty}

ToAdd(p, adjacencies) == {q \in adjacencies : new_board[q] = new_board[At(p)]}

AllAdjacent(p) == Adjacencies(p)                                \* mutant

NotGathered(p) == Adjacencies(p) \ group

\* The body of _gather's while loop.
Pop(p) ==
    LET adjacencies == NotGathered(p)
    IN  /\ at \in {"opponent", "own"}
        /\ alive' = StillAlive(adjacencies)
        /\ group' = group \cup ToAdd(p, adjacencies)
        /\ stack' = (stack \ {p}) \cup ToAdd(p, adjacencies)
        /\ UNCHANGED <<given, new_board, neighbours, captured, at>>

\* The rest of the body of the for loop: a dead group is captured.
Capture ==
    /\ at = "opponent"
    /\ stack = {}
    /\ IF alive
       THEN UNCHANGED <<new_board, captured>>
       ELSE new_board' = Remove(new_board, group) /\ captured' = captured + Cardinality(group)
    /\ group' = {} /\ alive' = FALSE
    /\ at' = "visit"
    /\ UNCHANGED <<given, neighbours, stack>>

\* Nothing was captured: the group of the new stone is gathered.
TestSuicide ==
    /\ at = "visit"
    /\ neighbours = {}
    /\ captured = 0
    /\ StartGather(coords)
    /\ at' = "own"
    /\ UNCHANGED <<given, new_board, neighbours, captured>>

RefuseSuicide ==
    /\ at = "own"
    /\ stack = {}
    /\ ~alive
    /\ at' = "suicide"
    /\ UNCHANGED <<given, new_board, neighbours, captured, gather>>

\* The ko test, and the return.
Finish ==
    /\ \/ at = "visit" /\ neighbours = {} /\ captured # 0
       \/ at = "own" /\ stack = {} /\ alive
    /\ at' = IF new_board = prev_board THEN "ko" ELSE "placed"
    /\ UNCHANGED <<given, new_board, neighbours, captured, gather>>

Next ==
    \/ Refuse
    \/ PutStone
    \/ \E q \in neighbours : Visit(q)
    \/ \E p \in stack : Pop(p)
    \/ Capture
    \/ TestSuicide
    \/ RefuseSuicide
    \/ Finish

Spec == Init /\ [][Next]_vars

\* The code runs on until it returns.
FairSpec == Spec /\ WF_vars(Next)

-----------------------------------------------------------------------------
(***************************************************************************)
(* Properties.                                                             *)
(***************************************************************************)
TypeOK ==
    /\ board \in Board
    /\ prev_board \in Board \cup {NoBoard}
    /\ coords \in Coordinate
    /\ color \in Color
    /\ new_board \in Board
    /\ neighbours \subseteq Point
    /\ captured \in Nat
    /\ group \subseteq Point \cup {coords}
    /\ stack \subseteq group
    /\ alive \in BOOLEAN
    /\ at \in {"start", "visit", "opponent", "own"} \cup Result

\* When its stack is empty, _gather has the whole group of the neighbour it was
\* called at, or all it can find from the new stone, and knows whether that has
\* a liberty.
GatherFindsGroup ==
    group # {} /\ stack = {} =>
        /\ IF at = "opponent"
           THEN \A p \in group : group = Group(new_board, p)
           ELSE group = Gathered(new_board, coords)
        /\ alive <=> HasLiberty(new_board, group)

\* The result is what the rules say of the placement, and the new board and
\* the count are those the game goes on with: removing one dead group before
\* looking at the next neighbour makes no difference.
PlacesByTheRules ==
    /\ at = "placed" <=> at \in Result /\ LegalPlacement(board, prev_board, coords, color)
    /\ at = "placed" =>
        /\ new_board = AfterPlacing(board, coords, color)
        /\ captured = Cardinality(Captured(board, coords, color))

\* Neither loop runs forever.
Returns == <>(at \in Result)
=============================================================================
