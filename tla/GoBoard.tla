------------------------------ MODULE GoBoard ------------------------------
(***************************************************************************)
(* The board of igo/game.py and the pure functions the rules are built     *)
(* from: adjacency, groups and their liberties, what a placed stone         *)
(* captures, and how territory is counted.                                 *)
(*                                                                         *)
(* Groups are defined by what they are, the least set of like points that  *)
(* is closed under adjacency, and not by the stack loop of Game._gather;   *)
(* module Placement has the loops and shows that they compute these sets.  *)
(***************************************************************************)
EXTENDS Integers, FiniteSets

CONSTANT Size           \* number of points on either side of the board

ASSUME SizeAssumption == Size \in Nat \ {0}

Color == {"black", "white"}
Empty == "empty"        \* Point.color is None

inverse(c) == IF c = "black" THEN "white" ELSE "black"

Point == (0 .. Size - 1) \X (0 .. Size - 1)
Board == [Point -> Color \cup {Empty}]
EmptyBoard == [p \in Point |-> Empty]

(***************************************************************************)
(* The coordinates of an action come from the client, and nothing compares *)
(* them with the size of the board.  Subscripts below zero count from the   *)
(* end, so such a coordinate is another name of a point; _adjacencies takes *)
(* the numbers as they are.  Coordinates further out raise an IndexError    *)
(* before anything has changed.                                            *)
(***************************************************************************)
Coordinate == (-Size .. Size - 1) \X (-Size .. Size - 1)

Index(i) == IF i < 0 THEN Size + i ELSE i

\* The point of self.board[i][j].
At(co) == <<Index(co[1]), Index(co[2])>>

\* The in-bounds neighbours of a coordinate (Game._adjacencies).
Adjacencies(p) ==
    {<<p[1] - 1, p[2]>>, <<p[1] + 1, p[2]>>,
     <<p[1], p[2] - 1>>, <<p[1], p[2] + 1>>} \cap Point

\* The points of board b that hold c: a colour, or Empty.
Holding(b, c) == {p \in Point : b[p] = c}

\* S has every point of T that is next to a point of S.
Closed(S, T) == \A q \in S : Adjacencies(q) \cap T \subseteq S

\* The connected component of p among the points that hold what p holds.
Group(b, p) ==
    LET like == Holding(b, b[p])
        around == {S \in SUBSET like : p \in S /\ Closed(S, like)}
    IN  {q \in like : \A S \in around : q \in S}

\* Some point of S is next to an empty point.
HasLiberty(b, S) == \E q \in S : \E r \in Adjacencies(q) : b[r] = Empty

\* What _gather finds when it is called at a coordinate: of a point, its
\* group; else the coordinate, and the groups of the like points it is next to.
Gathered(b, co) ==
    {co} \cup UNION {Group(b, q) : q \in {r \in Adjacencies(co) : b[r] = b[At(co)]}}

Remove(b, S) == [p \in Point |-> IF p \in S THEN Empty ELSE b[p]]

-----------------------------------------------------------------------------
(***************************************************************************)
(* Game._place_stone_base.  The code visits the neighbours one after the   *)
(* other and removes a dead group before it looks at the next one.  Two    *)
(* groups of one colour are never adjacent, so removing one gives the other *)
(* no liberty and the groups to remove can be picked on the same board.    *)
(***************************************************************************)
Put(b, co, c) == [b EXCEPT ![At(co)] = c]

Captured(b, co, c) ==
    LET nb == Put(b, co, c)
        dead == {q \in Adjacencies(co) : /\ nb[q] = inverse(c)
                                         /\ ~HasLiberty(nb, Group(nb, q))}
    IN  UNION {Group(nb, q) : q \in dead}

AfterPlacing(b, co, c) == Remove(Put(b, co, c), Captured(b, co, c))

SuicideAllowed(b, co, c) == FALSE                               \* mutant

Suicide(b, co, c) ==
    LET nb == Put(b, co, c)
    IN  Captured(b, co, c) = {} /\ ~HasLiberty(nb, Gathered(nb, co))

\* prev is the position _prev_board, or NoBoard before the first placement.
NoBoard == [p \in {} |-> Empty]

LegalPlacement(b, prev, co, c) ==
    /\ b[At(co)] = Empty
    /\ ~Suicide(b, co, c)
    /\ AfterPlacing(b, co, c) # prev

-----------------------------------------------------------------------------
\* The colours that border the empty region of p, and whose territory p is
\* (Game._count_territory): nobody's when no colour or both colours do.
Borders(b, p) ==
    {b[r] : r \in UNION {Adjacencies(q) : q \in Group(b, p)}} \cap Color

CountsFor(b) ==
    [p \in Point |->
        IF b[p] = Empty /\ Cardinality(Borders(b, p)) = 1
        THEN CHOOSE c \in Color : Borders(b, p) = {c}
        ELSE Empty]
=============================================================================
