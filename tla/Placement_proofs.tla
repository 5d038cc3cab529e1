-------------------------- MODULE Placement_proofs --------------------------
(***************************************************************************)
(* Proofs about Placement, for a board of any size, every position and all *)
(* coordinates that name a point: the loops of _place_stone_base and        *)
(* _gather compute what GoBoard says in one expression each.               *)
(*                                                                         *)
(* The inductive invariant says how far each loop has got: Gathering, that *)
(* what is gathered is part of the group and is done with except for the   *)
(* stack; Removing, that the stones taken off are whole dead groups of the *)
(* opponent, among them those of the neighbours visited.                   *)
(*                                                                         *)
(* That the loops end is shown by a number that decreases with each step.  *)
(***************************************************************************)
EXTENDS Placement, GoBoard_proofs

\* The board with the new stone and nothing captured yet.
placed == Put(board, coords, color)

\* The stones taken off it so far.
gone == {p \in Point : new_board[p] # placed[p]}

\* The neighbours whose groups are to be captured.
dead == {q \in Adjacencies(coords) : /\ placed[q] = inverse(color)
                                     /\ ~HasLiberty(placed, Group(placed, q))}

\* The points gathered are some of those to be found from where _gather was
\* called, and the neighbours of those that are off the stack have been looked at.
Gathering ==
    group # {} =>
        /\ \E root \in group :
            /\ IF at = "opponent" THEN root \in Point ELSE root = coords
            /\ new_board[At(root)] # Empty
            /\ group \subseteq Gathered(new_board, root)
        /\ \A p \in group \ stack : \A q \in Adjacencies(p) :
                new_board[q] = new_board[At(p)] => q \in group
        /\ alive <=> HasLiberty(new_board, group \ stack)

\* What has been taken off so far is whole captured groups, with those of the
\* neighbours that have been visited among them, and captured counts it.
Removing ==
    at \notin {"start", "occupied"} =>
        /\ board[At(coords)] = Empty
        /\ new_board = Remove(placed, gone)
        /\ gone \subseteq Captured(board, coords, color)
        /\ Whole(placed, gone)
        /\ captured = Cardinality(gone)
        /\ \A q \in dead : \/ q \in gone
                           \/ q \in neighbours
                           \/ at = "opponent" /\ q \in group

\* What each place of the code relies on.
Control ==
    /\ at \in {"start", "visit"} => group = {}
    /\ at = "start" => captured = 0
    /\ neighbours \subseteq Adjacencies(coords)
    /\ at = "opponent" => \E q \in Adjacencies(coords) :
                                q \in group /\ new_board[q] = inverse(color)
    /\ at = "own" => neighbours = {} /\ captured = 0 /\ coords \in group
    /\ at = "occupied" => board[At(coords)] # Empty
    /\ at = "suicide" => Suicide(board, coords, color)
    /\ at = "ko" => AfterPlacing(board, coords, color) = prev_board

\* The inductive invariant.
IInv == TypeOK /\ Gathering /\ Removing /\ Control /\ PlacesByTheRules

-----------------------------------------------------------------------------
(***************************************************************************)
(* Lemmas about the board.                                                 *)
(***************************************************************************)
\* A set of whole groups has the group of each of its points.
LEMMA WholeHasGroups ==
    ASSUME NEW b, NEW D, Whole(b, D), NEW q \in D
    PROVE  Group(b, q) \subseteq D
<1> DEFINE S == Group(b, q) \cap D
<1>1. q \in Point
  BY DEF Whole
<1>2. q \in Group(b, q) /\ Group(b, q) \subseteq Holding(b, b[q])
      /\ Closed(Group(b, q), Holding(b, b[q]))
  BY <1>1, GroupContains, GroupClosed
<1>3. Closed(S, Holding(b, b[q]))
  BY <1>2 DEF Closed, Whole, Holding
<1>4. Group(b, q) \subseteq S
  BY <1>1, <1>2, <1>3, GroupLeast
<1> QED
  BY <1>4

\* Taking whole groups of one colour off gives no liberty to another group
\* of that colour, so it does not matter when _place_stone_base looks at it.
LEMMA NoNewLiberty ==
    ASSUME NEW b \in Board, NEW d \in Color, NEW D, Whole(b, D), D \subseteq Holding(b, d),
           NEW q \in Point \ D, b[q] = d
    PROVE  HasLiberty(Remove(b, D), Group(b, q)) <=> HasLiberty(b, Group(b, q))
<1>1. HasLiberty(b, Group(b, q)) => HasLiberty(Remove(b, D), Group(b, q))
  BY Colors, GroupSurvives
<1>2. ASSUME HasLiberty(Remove(b, D), Group(b, q))
      PROVE  HasLiberty(b, Group(b, q))
  <2>1. PICK x \in Group(b, q) : \E y \in Adjacencies(x) : Remove(b, D)[y] = Empty
    BY <1>2 DEF HasLiberty
  <2>2. PICK y \in Adjacencies(x) : Remove(b, D)[y] = Empty
    BY <2>1
  <2>3. x \in Point /\ b[x] = d /\ Group(b, x) = Group(b, q)
    BY <2>1, GroupSame
  <2>4. y \in Point /\ x \in Adjacencies(y)
    BY <2>3, AdjacenciesSymmetric
  <2>5. x \notin D
    BY <2>3, WholeHasGroups, GroupContains
  <2>6. y \notin D
    BY <2>3, <2>4, <2>5 DEF Whole, Holding
  <2>7. b[y] = Empty
    BY <2>2, <2>4, <2>6 DEF Remove
  <2> QED
    BY <2>1, <2>7 DEF HasLiberty
<1> QED
  BY <1>1, <1>2

-----------------------------------------------------------------------------
(***************************************************************************)
(* Types.                                                                  *)
(***************************************************************************)
LEMMA InitTypes == Init => TypeOK
<1> SUFFICES ASSUME NEW b \in Board, NEW prev \in Board \cup {NoBoard},
                    NEW co \in Coordinate, NEW c \in Color, StartWith(b, prev, co, c)
             PROVE  TypeOK
  BY DEF Init
<1> QED
  BY DEF StartWith, TypeOK

\* _gather has finitely many points to look at.
LEMMA FewToGather ==
    TypeOK => /\ IsFiniteSet(Point \cup {coords})
              /\ \A S \in SUBSET (Point \cup {coords}) :
                    /\ IsFiniteSet(S) /\ Cardinality(S) \in Nat
                    /\ Cardinality(S) <= Cardinality(Point \cup {coords})
<1>1. IsFiniteSet(Point \cup {coords})
  BY PointsFinite, FS_AddElement
<1> QED
  BY <1>1, FS_Subset, FS_CardinalityType

\* Every action keeps the types.
LEMMA NextTypes == TypeOK /\ [Next]_vars => TypeOK'
<1> SUFFICES ASSUME TypeOK, [Next]_vars PROVE TypeOK'
  OBVIOUS
<1> USE DEF given, gather
<1>1. CASE Refuse
  BY <1>1 DEF Refuse, TypeOK, Result
<1>2. CASE PutStone
  <2>1. Put(board, coords, color) \in Board /\ Adjacencies(coords) \subseteq Point
    BY PutChanges DEF TypeOK, Adjacencies
  <2> QED
    BY <1>2, <2>1 DEF PutStone, TypeOK
<1>3. ASSUME NEW q \in neighbours, Visit(q) PROVE TypeOK'
  BY <1>3 DEF Visit, StartGather, TypeOK
<1>4. ASSUME NEW p \in stack, Pop(p) PROVE TypeOK'
  <2>1. /\ group' = group \cup ToAdd(p, NotGathered(p))
        /\ stack' = (stack \ {p}) \cup ToAdd(p, NotGathered(p))
        /\ ToAdd(p, NotGathered(p)) \subseteq Point
    BY <1>4 DEF Pop, ToAdd, NotGathered, Adjacencies
  <2>2. alive' \in BOOLEAN /\ coords' = coords
    BY <1>4 DEF Pop, StillAlive, TypeOK
  <2>3. group' \subseteq Point \cup {coords'} /\ stack' \subseteq group'
    BY <2>1, <2>2 DEF TypeOK
  <2> QED
    BY <1>4, <2>2, <2>3 DEF Pop, TypeOK
<1>5. CASE Capture
  <2>1. Remove(new_board, group) \in Board /\ Cardinality(group) \in Nat
    BY RemoveType, FewToGather DEF TypeOK
  <2>2. new_board' \in Board /\ captured' \in Nat
    BY <1>5, <2>1 DEF Capture, TypeOK
  <2> QED
    BY <1>5, <2>2 DEF Capture, TypeOK
<1>6. CASE TestSuicide
  BY <1>6 DEF TestSuicide, StartGather, TypeOK
<1>7. CASE RefuseSuicide
  BY <1>7 DEF RefuseSuicide, TypeOK, Result
<1>8. CASE Finish
  BY <1>8 DEF Finish, TypeOK, Result
<1>9. CASE UNCHANGED vars
  BY <1>9 DEF vars, TypeOK
<1> QED
  BY <1>1, <1>2, <1>3, <1>4, <1>5, <1>6, <1>7, <1>8, <1>9 DEF Next

-----------------------------------------------------------------------------
(***************************************************************************)
(* The loop of _gather.                                                    *)
(***************************************************************************)
\* What it can find from a coordinate holds what the coordinate names, and has
\* every point next to it that holds the same.
LEMMA GatheredClosed ==
    ASSUME NEW b, NEW co \in Coordinate
    PROVE  /\ co \in Gathered(b, co) /\ Gathered(b, co) \subseteq Point \cup {co}
           /\ \A x \in Gathered(b, co) : b[At(x)] = b[At(co)]
           /\ \A x \in Gathered(b, co) : \A q \in Adjacencies(x) :
                    b[q] = b[At(co)] => q \in Gathered(b, co)
<1> DEFINE next == {r \in Adjacencies(co) : b[r] = b[At(co)]}
<1>1. Gathered(b, co) = {co} \cup UNION {Group(b, r) : r \in next}
  BY DEF Gathered
<1>2. ASSUME NEW r \in next
      PROVE  /\ r \in Group(b, r) /\ Group(b, r) \subseteq Holding(b, b[At(co)])
             /\ Closed(Group(b, r), Holding(b, b[At(co)]))
  <2>1. r \in Point /\ b[r] = b[At(co)]
    BY DEF Adjacencies
  <2> QED
    BY <2>1, GroupContains, GroupClosed
<1>3. \A q : q \in next <=> q \in Adjacencies(co) /\ b[q] = b[At(co)]
  OBVIOUS
<1> HIDE DEF next
<1>4. ASSUME NEW x \in Gathered(b, co), x # co
      PROVE  /\ x \in Point /\ b[At(x)] = b[At(co)]
             /\ \A q \in Adjacencies(x) : b[q] = b[At(co)] => q \in Gathered(b, co)
  <2>1. PICK r \in next : x \in Group(b, r)
    BY <1>1, <1>4
  <2>2. x \in Point /\ b[x] = b[At(co)] /\ At(x) = x
    BY <1>2, <2>1, CoordinatesName DEF Holding
  <2>3. ASSUME NEW q \in Adjacencies(x), b[q] = b[At(co)] PROVE q \in Gathered(b, co)
    <3>1. q \in Holding(b, b[At(co)])
      BY <2>3 DEF Holding, Adjacencies
    <3>2. q \in Group(b, r)
      BY <1>2, <2>1, <3>1 DEF Closed
    <3> QED
      BY <1>1, <3>2
  <2> QED
    BY <2>2, <2>3
<1>5. \A q \in Adjacencies(co) : b[q] = b[At(co)] => q \in Gathered(b, co)
  BY <1>1, <1>2, <1>3
<1> QED
  BY <1>1, <1>4, <1>5

\* It is the least such set.
LEMMA GatheredLeast ==
    ASSUME NEW b, NEW co \in Coordinate, NEW S, co \in S,
           \A x \in S : \A q \in Adjacencies(x) : b[q] = b[At(co)] => q \in S
    PROVE  Gathered(b, co) \subseteq S
<1>1. ASSUME NEW r \in Adjacencies(co), b[r] = b[At(co)] PROVE Group(b, r) \subseteq S
  <2> DEFINE like == Holding(b, b[r])
             T == S \cap like
  <2>1. r \in Point /\ r \in T
    BY <1>1 DEF Adjacencies, Holding
  <2>2. Closed(T, like)
    BY <1>1 DEF Closed, Holding
  <2>3. T \in SUBSET Holding(b, b[r])
    OBVIOUS
  <2> HIDE DEF T
  <2>4. Group(b, r) \subseteq T
    BY <2>1, <2>2, <2>3, GroupLeast
  <2> QED
    BY <2>4 DEF T
<1> QED
  BY <1>1 DEF Gathered

\* The new stone is not taken off the board.
LEMMA StoneStays ==
    ASSUME TypeOK, Removing, at \notin {"start", "occupied"}
    PROVE  new_board[At(coords)] = color /\ At(coords) \notin gone
<1>1. At(coords) \notin Captured(board, coords, color) /\ placed[At(coords)] = color
      /\ At(coords) \in Point
  BY CapturedHolds, CoordinatesName, PutChanges DEF Removing, TypeOK, placed
<1> QED
  BY <1>1 DEF Removing, gone, TypeOK

\* It starts with one stone.
LEMMA StartGathers ==
    ASSUME TypeOK, NEW p \in Coordinate, new_board[At(p)] # Empty, StartGather(p),
           UNCHANGED new_board, IF at' = "opponent" THEN p \in Point ELSE p = coords'
    PROVE  Gathering'
<1>1. p \in Gathered(new_board, p)
  BY GatheredClosed
<1> QED
  BY <1>1 DEF StartGather, Gathering, HasLiberty

\* A point is looked at: its like neighbours are in its group, and it is done.
LEMMA PopGathers ==
    ASSUME TypeOK, Gathering, NEW p \in stack, Pop(p)
    PROVE  Gathering'
<1> DEFINE new == ToAdd(p, NotGathered(p))
<1>1. /\ p \in group /\ stack \subseteq group /\ group \subseteq Point \cup {coords}
      /\ UNCHANGED <<new_board, coords, at>>
      /\ group' = group \cup new
      /\ stack' = (stack \ {p}) \cup new
      /\ alive' = StillAlive(NotGathered(p))
  BY DEF Pop, given, TypeOK
<1>2. PICK root \in group :
          /\ IF at = "opponent" THEN root \in Point ELSE root = coords
          /\ new_board[At(root)] # Empty
          /\ group \subseteq Gathered(new_board, root)
  BY <1>1 DEF Gathering
<1>3. /\ \A x \in group \ stack : \A q \in Adjacencies(x) :
            new_board[q] = new_board[At(x)] => q \in group
      /\ alive <=> HasLiberty(new_board, group \ stack)
  BY <1>1 DEF Gathering
<1>4. \A y : y \in new <=> /\ y \in Adjacencies(p) /\ y \notin group
                           /\ new_board[y] = new_board[At(p)]
  BY DEF ToAdd, NotGathered
<1> HIDE DEF new
<1>5. root \in Coordinate
  BY <1>2, CoordinatesName DEF TypeOK
<1>6. /\ \A x \in group : new_board[At(x)] = new_board[At(root)]
      /\ new \subseteq Gathered(new_board, root)
  BY <1>1, <1>2, <1>4, <1>5, GatheredClosed
<1>7. (group \cup new) \ ((stack \ {p}) \cup new) = (group \ stack) \cup {p}
  BY <1>1, <1>4
<1>8. ASSUME NEW x \in (group \ stack) \cup {p}, NEW q \in Adjacencies(x),
             new_board[q] = new_board[At(x)]
      PROVE  q \in group \cup new
  BY <1>3, <1>4, <1>8
<1>9. StillAlive(NotGathered(p)) <=> HasLiberty(new_board, (group \ stack) \cup {p})
  <2>1. StillAlive(NotGathered(p)) <=>
            alive \/ \E q \in Adjacencies(p) : q \notin group /\ new_board[q] = Empty
    BY DEF StillAlive, NotGathered
  <2>2. \A q \in Adjacencies(p) : q \in group => new_board[q] # Empty
    BY <1>2, <1>6, CoordinatesName DEF Adjacencies
  <2> QED
    BY <1>3, <2>1, <2>2 DEF HasLiberty
<1>10. \E r \in group' : /\ IF at' = "opponent" THEN r \in Point ELSE r = coords'
                         /\ new_board'[At(r)] # Empty
                         /\ group' \subseteq Gathered(new_board', r)
  BY <1>1, <1>2, <1>6
<1> QED
  BY <1>1, <1>7, <1>8, <1>9, <1>10 DEF Gathering

\* Every action keeps it.
LEMMA NextGathering == TypeOK /\ Removing /\ Control /\ Gathering /\ [Next]_vars => Gathering'
<1> SUFFICES ASSUME TypeOK, Removing, Control, Gathering, [Next]_vars PROVE Gathering'
  OBVIOUS
<1>1. ASSUME UNCHANGED <<given, new_board, gather>>, at \notin {"start", "visit"},
             at' = "opponent" <=> at = "opponent"
      PROVE  Gathering'
  BY <1>1 DEF given, gather, Gathering
<1>2. ASSUME group' = {} PROVE Gathering'
  BY <1>2 DEF Gathering
<1>3. CASE Refuse
  BY <1>2, <1>3 DEF Refuse, Control, gather
<1>4. CASE PutStone
  BY <1>2, <1>4 DEF PutStone, Control, gather
<1>5. ASSUME NEW q \in neighbours, Visit(q) PROVE Gathering'
  <2>1. CASE new_board[q] = inverse(color)
    <3>1. q \in Coordinate /\ q \in Point /\ At(q) = q /\ new_board[At(q)] # Empty
      BY <2>1, CoordinatesName, Colors DEF TypeOK
    <3> QED
      BY <1>5, <2>1, <3>1, StartGathers DEF Visit
  <2>2. CASE new_board[q] # inverse(color)
    BY <1>2, <1>5, <2>2 DEF Visit, Control, gather
  <2> QED
    BY <2>1, <2>2
<1>6. ASSUME NEW p \in stack, Pop(p) PROVE Gathering'
  BY <1>6, PopGathers
<1>7. CASE Capture
  BY <1>2, <1>7 DEF Capture
<1>8. CASE TestSuicide
  <2>1. new_board[At(coords)] # Empty
    BY <1>8, StoneStays, Colors DEF TestSuicide, TypeOK
  <2> QED
    BY <1>8, <2>1, StartGathers DEF TestSuicide, TypeOK, given
<1>9. CASE RefuseSuicide
  BY <1>1, <1>9 DEF RefuseSuicide
<1>10. CASE Finish
  <2>1. CASE at = "visit"
    BY <1>2, <1>10, <2>1 DEF Finish, Control, gather
  <2>2. CASE at = "own"
    BY <1>1, <1>10, <2>2 DEF Finish
  <2> QED
    BY <1>10, <2>1, <2>2 DEF Finish
<1>11. CASE UNCHANGED vars
  BY <1>11 DEF vars, given, gather, Gathering
<1> QED
  BY <1>3, <1>4, <1>5, <1>6, <1>7, <1>8, <1>9, <1>10, <1>11 DEF Next

\* When the stack is empty the group is whole.
LEMMA GatherDone == TypeOK /\ Gathering => GatherFindsGroup
<1> SUFFICES ASSUME TypeOK, Gathering, group # {}, stack = {}
             PROVE  /\ IF at = "opponent"
                       THEN \A p \in group : group = Group(new_board, p)
                       ELSE group = Gathered(new_board, coords)
                    /\ alive <=> HasLiberty(new_board, group)
  BY DEF GatherFindsGroup
<1>1. PICK root \in group :
          /\ IF at = "opponent" THEN root \in Point ELSE root = coords
          /\ group \subseteq Gathered(new_board, root)
  BY DEF Gathering
<1>2. root \in Coordinate
  BY <1>1, CoordinatesName DEF TypeOK
<1>3. \A x \in group : \A q \in Adjacencies(x) :
            new_board[q] = new_board[At(root)] => q \in group
  BY <1>1, <1>2, GatheredClosed DEF Gathering
<1>4. group = Gathered(new_board, root)
  BY <1>1, <1>2, <1>3, GatheredLeast
<1>5. ASSUME at = "opponent", NEW p \in group PROVE group = Group(new_board, p)
  BY <1>1, <1>4, <1>5, GatheredAtPoint, GroupSame
<1> QED
  BY <1>1, <1>4, <1>5 DEF Gathering

-----------------------------------------------------------------------------
(***************************************************************************)
(* The loop over the neighbours.                                           *)
(***************************************************************************)
\* Before the first neighbour nothing is gone.
LEMMA PutStoneRemoves ==
    ASSUME TypeOK, Control, PutStone
    PROVE  Removing'
<1>1. /\ placed' = placed /\ new_board' = placed /\ captured' = 0
      /\ neighbours' = Adjacencies(coords) /\ board[At(coords)] = Empty
      /\ UNCHANGED given /\ placed \in Board
  BY PutChanges DEF PutStone, Control, given, placed, TypeOK
<1>2. gone' = {} /\ dead' \subseteq Adjacencies(coords)
  BY <1>1 DEF gone, dead, given
<1>3. Remove(placed, {}) = placed
  BY <1>1 DEF Remove, Board
<1> QED
  BY <1>1, <1>2, <1>3, FS_EmptySet DEF Removing, Whole, given

\* A neighbour that is no stone of the opponent was never one, or is gone.
LEMMA VisitRemoves ==
    ASSUME TypeOK, Removing, NEW q \in neighbours, Visit(q)
    PROVE  Removing'
<1>1. /\ at = "visit" /\ neighbours' = neighbours \ {q} /\ at' \in {"visit", "opponent"}
      /\ UNCHANGED <<given, new_board, captured>>
      /\ new_board[q] = inverse(color) => at' = "opponent" /\ q \in group'
  BY DEF Visit, StartGather
<1>2. placed' = placed /\ gone' = gone /\ dead' = dead
  BY <1>1 DEF placed, gone, dead, given
<1>3. q \in dead => q \in gone' \/ (at' = "opponent" /\ q \in group')
  <2>1. q \in dead /\ q \notin gone => new_board[q] = inverse(color)
    BY DEF dead, gone, Adjacencies
  <2> QED
    BY <1>1, <1>2, <2>1
<1> QED
  BY <1>1, <1>2, <1>3 DEF Removing, given

\* Looking at a point of a group takes nothing off the board.
LEMMA PopRemoves ==
    ASSUME TypeOK, Removing, NEW p \in stack, Pop(p)
    PROVE  Removing'
<1>1. /\ UNCHANGED <<given, new_board, neighbours, captured, at>> /\ group \subseteq group'
  BY DEF Pop
<1>2. placed' = placed /\ gone' = gone /\ dead' = dead
  BY <1>1 DEF placed, gone, dead, given
<1> QED
  BY <1>1, <1>2 DEF Removing, given

\* The group that was gathered is one of the board before anything was taken
\* off, and it is taken off exactly if it had no liberty there.
LEMMA CaptureRemoves ==
    ASSUME TypeOK, Gathering, Removing, Control, Capture
    PROVE  Removing'
<1>1. PICK q \in Adjacencies(coords) : q \in group /\ new_board[q] = inverse(color)
  BY DEF Capture, Control
<1>2. /\ at = "opponent" /\ stack = {} /\ at' = "visit"
      /\ UNCHANGED <<given, neighbours>>
      /\ IF alive
         THEN UNCHANGED <<new_board, captured>>
         ELSE new_board' = Remove(new_board, group) /\ captured' = captured + Cardinality(group)
  BY DEF Capture
<1>3. placed' = placed /\ dead' = dead /\ placed \in Board
  BY <1>2, PutChanges DEF placed, dead, given, TypeOK
<1>4. /\ board[At(coords)] = Empty /\ new_board = Remove(placed, gone)
      /\ gone \subseteq Captured(board, coords, color)
      /\ Whole(placed, gone) /\ captured = Cardinality(gone)
      /\ \A r \in dead : r \in gone \/ r \in neighbours \/ r \in group
  BY <1>2 DEF Removing
<1>5. Captured(board, coords, color) = UNION {Group(placed, r) : r \in dead}
  BY DEF Captured, dead, placed
<1>6. gone \subseteq Holding(placed, inverse(color))
  <2>1. \A r \in dead : Group(placed, r) \subseteq Holding(placed, inverse(color))
    BY GroupContains DEF dead, Adjacencies
  <2> QED
    BY <1>4, <1>5, <2>1
<1>7. q \in Point \ gone /\ placed[q] = inverse(color) /\ inverse(color) \in Color
      /\ inverse(color) # Empty
  BY <1>1, <1>4, Colors DEF Remove, Adjacencies, TypeOK
<1>8. group = Group(placed, q)
  <2>1. group = Group(new_board, q)
    BY <1>1, <1>2, GatherDone DEF GatherFindsGroup
  <2> QED
    BY <1>3, <1>4, <1>7, <2>1, GroupSurvives
<1>9. alive <=> HasLiberty(placed, Group(placed, q))
  <2>1. alive <=> HasLiberty(new_board, group)
    BY <1>1, <1>2, GatherDone DEF GatherFindsGroup
  <2> QED
    BY <1>3, <1>4, <1>6, <1>7, <1>8, <2>1, NoNewLiberty
<1>10. CASE alive
  <2>1. gone' = gone
    BY <1>2, <1>3, <1>10 DEF gone
  <2>2. \A r \in dead : r \notin group
    BY <1>7, <1>8, <1>9, <1>10, GroupSame DEF dead, Adjacencies
  <2> QED
    BY <1>2, <1>3, <1>4, <1>10, <2>1, <2>2 DEF Removing, given
<1>11. CASE ~alive
  <2>1. q \in dead
    BY <1>1, <1>7, <1>9, <1>11 DEF dead
  <2>2. group \subseteq Point /\ Whole(placed, group)
    BY <1>7, <1>8, GroupWhole DEF Whole
  <2>3. \A x \in group : placed[x] = inverse(color) /\ x \notin gone
    <3>1. SUFFICES ASSUME NEW x \in group, x \in gone PROVE FALSE
      BY <1>7, <1>8, GroupSame
    <3>2. Group(placed, x) \subseteq gone /\ Group(placed, x) = group
      BY <1>4, <1>7, <1>8, <3>1, GroupSame, WholeHasGroups
    <3> QED
      BY <1>1, <1>7, <3>2
  <2>4. new_board' = Remove(placed, gone \cup group)
    <3>1. new_board' = Remove(Remove(placed, gone), group)
      BY <1>2, <1>4, <1>11
    <3> QED
      BY <3>1 DEF Remove
  <2>5. gone' = gone \cup group
    BY <1>3, <1>4, <1>6, <1>7, <2>2, <2>3, <2>4, Colors DEF gone, Remove, Whole, Holding
  <2>6. Cardinality(gone \cup group) = Cardinality(gone) + Cardinality(group)
    <3>1. IsFiniteSet(gone) /\ IsFiniteSet(group) /\ gone \cap group = {}
      BY <1>4, <2>2, <2>3, PointsFinite DEF Whole
    <3>2. Cardinality(gone) \in Nat /\ Cardinality(group) \in Nat
      BY <3>1, FS_CardinalityType
    <3> QED
      BY <3>1, <3>2, FS_Union, FS_EmptySet
  <2>7. Whole(placed, gone \cup group)
    BY <1>4, <2>2 DEF Whole
  <2>8. gone \cup group \subseteq Captured(board, coords, color)
    BY <1>4, <1>5, <1>8, <2>1
  <2> QED
    BY <1>2, <1>3, <1>4, <1>11, <2>4, <2>5, <2>6, <2>7, <2>8 DEF Removing, given
<1> QED
  BY <1>10, <1>11

\* Every action keeps it.
LEMMA NextRemoving ==
    TypeOK /\ Gathering /\ Removing /\ Control /\ [Next]_vars => Removing'
<1> SUFFICES ASSUME TypeOK, Gathering, Removing, Control, [Next]_vars PROVE Removing'
  OBVIOUS
<1>1. ASSUME UNCHANGED <<given, new_board, neighbours, captured>>,
             at \notin {"start", "occupied", "opponent"}
      PROVE  Removing'
  <2>1. placed' = placed /\ gone' = gone /\ dead' = dead
    BY <1>1 DEF placed, gone, dead, given
  <2> QED
    BY <1>1, <2>1 DEF Removing, given
<1>2. CASE Refuse
  BY <1>2 DEF Refuse, Removing
<1>3. CASE PutStone
  BY <1>3, PutStoneRemoves
<1>4. ASSUME NEW q \in neighbours, Visit(q) PROVE Removing'
  BY <1>4, VisitRemoves
<1>5. ASSUME NEW p \in stack, Pop(p) PROVE Removing'
  BY <1>5, PopRemoves
<1>6. CASE Capture
  BY <1>6, CaptureRemoves
<1>7. CASE TestSuicide
  BY <1>1, <1>7 DEF TestSuicide
<1>8. CASE RefuseSuicide
  BY <1>1, <1>8 DEF RefuseSuicide
<1>9. CASE Finish
  BY <1>1, <1>9 DEF Finish
<1>10. CASE UNCHANGED vars
  <2>1. placed' = placed /\ gone' = gone /\ dead' = dead
    BY <1>10 DEF placed, gone, dead, given, vars
  <2> QED
    BY <1>10, <2>1 DEF Removing, given, gather, vars
<1> QED
  BY <1>2, <1>3, <1>4, <1>6, <1>7, <1>8, <1>9, <1>10, <1>5 DEF Next

-----------------------------------------------------------------------------
(***************************************************************************)
(* The result.                                                             *)
(***************************************************************************)
\* When every neighbour was visited, what is gone is what is to be captured.
LEMMA AllCaptured ==
    ASSUME TypeOK, Removing, at \in {"visit", "own"}, neighbours = {}
    PROVE  /\ gone = Captured(board, coords, color)
           /\ new_board = AfterPlacing(board, coords, color)
           /\ captured = Cardinality(Captured(board, coords, color))
           /\ captured = 0 <=> Captured(board, coords, color) = {}
           /\ captured = 0 => new_board = placed
<1>1. /\ new_board = Remove(placed, gone)
      /\ gone \subseteq Captured(board, coords, color) /\ Whole(placed, gone)
      /\ captured = Cardinality(gone) /\ dead \subseteq gone
  BY DEF Removing
<1>2. Captured(board, coords, color) = UNION {Group(placed, r) : r \in dead}
  BY DEF Captured, dead, placed
<1>3. gone = Captured(board, coords, color)
  BY <1>1, <1>2, WholeHasGroups
<1>4. captured = 0 <=> gone = {}
  <2>1. IsFiniteSet(gone)
    BY <1>1, PointsFinite DEF Whole
  <2> QED
    BY <1>1, <2>1, FS_EmptySet
<1>5. Remove(placed, {}) = placed
  <2>1. placed \in Board
    BY PutChanges DEF placed, TypeOK
  <2> QED
    BY <2>1 DEF Remove, Board
<1> QED
  BY <1>1, <1>3, <1>4, <1>5 DEF AfterPlacing, placed

\* The group of the new stone was gathered when nothing was captured, and
\* whether it is alive says whether the placement is suicide.
LEMMA OwnGroup ==
    ASSUME TypeOK, Gathering, Removing, Control, at = "own", stack = {}
    PROVE  Suicide(board, coords, color) <=> ~alive
<1>1. coords \in group /\ neighbours = {} /\ captured = 0
  BY DEF Control
<1>2. group = Gathered(new_board, coords) /\ (alive <=> HasLiberty(new_board, group))
  BY <1>1, GatherDone DEF GatherFindsGroup
<1>3. new_board = placed /\ Captured(board, coords, color) = {}
  BY <1>1, AllCaptured
<1> QED
  BY <1>2, <1>3 DEF Suicide, placed

\* A placement that gets to the ko test is neither occupied nor suicide, and the
\* board is what the rules make of it.
LEMMA FinishByTheRules ==
    ASSUME TypeOK, Gathering, Removing, Control, Finish
    PROVE  /\ board[At(coords)] = Empty
           /\ ~Suicide(board, coords, color)
           /\ new_board = AfterPlacing(board, coords, color)
           /\ captured = Cardinality(Captured(board, coords, color))
<1>1. at \in {"visit", "own"} /\ neighbours = {}
  BY DEF Finish, Control
<1>2. /\ new_board = AfterPlacing(board, coords, color)
      /\ captured = Cardinality(Captured(board, coords, color))
      /\ captured = 0 <=> Captured(board, coords, color) = {}
  BY <1>1, AllCaptured
<1>3. ~Suicide(board, coords, color)
  <2>1. CASE captured # 0
    BY <1>2, <2>1 DEF Suicide
  <2>2. CASE at = "own" /\ stack = {} /\ alive
    BY <2>2, OwnGroup
  <2> QED
    BY <2>1, <2>2 DEF Finish
<1> QED
  BY <1>1, <1>2, <1>3 DEF Removing

\* Every action keeps what the places of the code rely on.
LEMMA NextControl ==
    TypeOK /\ Gathering /\ Removing /\ Control /\ [Next]_vars => Control'
<1> SUFFICES ASSUME TypeOK, Gathering, Removing, Control, [Next]_vars PROVE Control'
  OBVIOUS
<1>1. CASE Refuse
  BY <1>1 DEF Refuse, Control, given, gather
<1>2. CASE PutStone
  BY <1>2 DEF PutStone, Control, given, gather
<1>3. ASSUME NEW q \in neighbours, Visit(q) PROVE Control'
  <2>1. CASE new_board[q] = inverse(color)
    <3>1. q \in Adjacencies(coords)
      BY <1>3 DEF Visit, Control
    <3> QED
      BY <1>3, <2>1, <3>1 DEF Visit, StartGather, Control, given
  <2>2. CASE new_board[q] # inverse(color)
    BY <1>3, <2>2 DEF Visit, Control, given, gather
  <2> QED
    BY <2>1, <2>2
<1>4. ASSUME NEW p \in stack, Pop(p) PROVE Control'
  BY <1>4 DEF Pop, Control, given
<1>5. CASE Capture
  BY <1>5 DEF Capture, Control, given
<1>6. CASE TestSuicide
  BY <1>6 DEF TestSuicide, StartGather, Control, given
<1>7. CASE RefuseSuicide
  BY <1>7, OwnGroup DEF RefuseSuicide, Control, given
<1>8. CASE Finish
  BY <1>8, FinishByTheRules DEF Finish, Control, given
<1>9. CASE UNCHANGED vars
  BY <1>9 DEF vars, Control, given, gather
<1> QED
  BY <1>1, <1>2, <1>3, <1>4, <1>5, <1>6, <1>7, <1>8, <1>9 DEF Next

\* Every action gives the result of the rules, or none yet.
LEMMA NextPlaces ==
    TypeOK /\ Gathering /\ Removing /\ Control /\ PlacesByTheRules /\ [Next]_vars
        => PlacesByTheRules'
<1> SUFFICES ASSUME TypeOK, Gathering, Removing, Control, PlacesByTheRules, [Next]_vars
             PROVE  PlacesByTheRules'
  OBVIOUS
<1>1. ASSUME at' \notin Result PROVE PlacesByTheRules'
  BY <1>1 DEF PlacesByTheRules, Result
<1>2. CASE Refuse
  BY <1>2 DEF Refuse, PlacesByTheRules, LegalPlacement, given
<1>3. ASSUME PutStone \/ Capture \/ TestSuicide PROVE PlacesByTheRules'
  BY <1>1, <1>3 DEF PutStone, Capture, TestSuicide, Result
<1>4. ASSUME NEW p, Visit(p) \/ Pop(p) PROVE PlacesByTheRules'
  BY <1>1, <1>4 DEF Visit, Pop, Result
<1>5. CASE RefuseSuicide
  BY <1>5, OwnGroup DEF RefuseSuicide, PlacesByTheRules, LegalPlacement, given
<1>6. CASE Finish
  <2>1. UNCHANGED <<given, new_board, captured>>
        /\ at' = IF new_board = prev_board THEN "ko" ELSE "placed"
    BY <1>6 DEF Finish
  <2> QED
    BY <1>6, <2>1, FinishByTheRules DEF PlacesByTheRules, LegalPlacement, Result, given
<1>7. CASE UNCHANGED vars
  BY <1>7 DEF vars, PlacesByTheRules, given
<1> QED
  BY <1>2, <1>3, <1>4, <1>5, <1>6, <1>7 DEF Next

-----------------------------------------------------------------------------

\* The inductive invariant holds at every step of every placement.
LEMMA Inductive == Spec => []IInv
<1>1. Init => IInv
  <2> SUFFICES ASSUME Init PROVE IInv
    OBVIOUS
  <2>1. group = {} /\ at = "start" /\ captured = 0 /\ neighbours = {}
    BY DEF Init, StartWith
  <2> QED
    BY <2>1, InitTypes DEF IInv, Gathering, Removing, Control, PlacesByTheRules, Result
<1>2. IInv /\ [Next]_vars => IInv'
  BY NextTypes, NextGathering, NextRemoving, NextControl, NextPlaces DEF IInv
<1> QED
  BY <1>1, <1>2, PTL DEF Spec

\* The locals of _place_stone_base and _gather keep their ranges.
THEOREM TypeCorrect == Spec => []TypeOK
BY Inductive, PTL DEF IInv

\* _gather finds the whole group of the point it is called at and whether it
\* has a liberty, in whatever order it looks at points.
THEOREM GatherIsRight == Spec => []GatherFindsGroup
<1>1. IInv => GatherFindsGroup
  BY GatherDone DEF IInv
<1> QED
  BY <1>1, Inductive, PTL

\* _place_stone_base returns what the rules say, on every board: the
\* expressions that module Game uses in its place are what it computes.
THEOREM LoopsFollowTheRules == Spec => []PlacesByTheRules
BY Inductive, PTL DEF IInv

-----------------------------------------------------------------------------
(***************************************************************************)
(* The loops end.  A bound on the steps that are left decreases with each: *)
(* _gather looks at a point at most once, and is called at most once for    *)
(* each neighbour that is left to visit and once for the new stone.         *)
(***************************************************************************)

\* How many coordinates _gather may look at.
Points == Cardinality(Point \cup {coords})

\* How many of them it has not looked at.
ToLookAt == Cardinality((Point \cup {coords}) \ (group \ stack))

\* What the rest of the for loop takes at most, and the test for suicide.
ToVisit == Cardinality(neighbours) * (Points + 2) + Points + 2

\* How many steps are left at most, at each place in the code.
StepsLeft ==
    CASE at = "start" -> Points * (Points + 2) + Points + 3
      [] at = "visit" -> ToVisit
      [] at = "opponent" -> ToVisit + ToLookAt + 1
      [] at = "own" -> ToLookAt + 1
      [] OTHER -> 0

\* The ranges of these numbers.
Counts ==
    /\ Points \in Nat /\ ToLookAt \in 0 .. Points
    /\ Cardinality(neighbours) \in 0 .. Points
    /\ ToVisit \in Nat /\ StepsLeft \in Nat

\* They follow from the types.
LEMMA Counted == TypeOK => Counts
<1> SUFFICES ASSUME TypeOK PROVE Counts
  OBVIOUS
<1>1. /\ \A S \in SUBSET (Point \cup {coords}) : Cardinality(S) \in Nat /\ Cardinality(S) <= Points
      /\ Points \in Nat
  BY FewToGather DEF Points
<1>2. /\ (Point \cup {coords}) \ (group \ stack) \in SUBSET (Point \cup {coords})
      /\ neighbours \in SUBSET (Point \cup {coords})
  BY DEF TypeOK
<1>3. Cardinality(neighbours) \in 0 .. Points /\ ToLookAt \in 0 .. Points
  BY <1>1, <1>2 DEF ToLookAt
<1>4. \A m, n \in Nat : m * (n + 2) \in Nat
  OBVIOUS
<1>5. ToVisit \in Nat
  BY <1>1, <1>3, <1>4 DEF ToVisit
<1>6. Points * (Points + 2) \in Nat
  BY <1>1, <1>4
<1> QED
  BY <1>1, <1>3, <1>5, <1>6 DEF StepsLeft, Counts

\* One neighbour less to visit.
LEMMA VisitLess ==
    ASSUME NEW m \in Nat, NEW n \in Nat
    PROVE  (m + 1) * (n + 2) = m * (n + 2) + n + 2
OBVIOUS

\* As many neighbours as the board has points would take the longest.
LEMMA MoreNeighbours ==
    ASSUME NEW m \in Nat, NEW n \in Nat, m <= n
    PROVE  m * (n + 2) <= n * (n + 2) /\ m * (n + 2) \in Nat /\ n * (n + 2) \in Nat
OBVIOUS

\* Each action leaves fewer steps: a point looked at, a neighbour visited, or a
\* phase that is over.
LEMMA StepLeavesFewer ==
    ASSUME TypeOK, Counts, Counts', Next
    PROVE  StepsLeft' \in Nat /\ StepsLeft' < StepsLeft
<1>0. coords' = coords
  BY DEF Next, Refuse, PutStone, Visit, Pop, Capture, TestSuicide, RefuseSuicide, Finish, given
<1>1. /\ Points \in Nat /\ ToLookAt \in 0 .. Points /\ Cardinality(neighbours) \in 0 .. Points
      /\ ToVisit \in Nat /\ StepsLeft \in Nat
  BY DEF Counts
<1>2. Points' = Points
  BY <1>0 DEF Points, Point
<1>3. /\ ToLookAt' \in 0 .. Points /\ Cardinality(neighbours') \in 0 .. Points
      /\ ToVisit' \in Nat /\ StepsLeft' \in Nat
  <2>1. ToLookAt' \in 0 .. Points' /\ Cardinality(neighbours') \in 0 .. Points'
    BY DEF Counts
  <2> QED
    BY <1>2, <2>1 DEF Counts
<1>4. CASE Refuse \/ RefuseSuicide \/ Finish
  <2>1. StepsLeft' = 0
    BY <1>4 DEF Refuse, RefuseSuicide, Finish, StepsLeft
  <2>2. StepsLeft > 0
    BY <1>1, <1>4 DEF Refuse, RefuseSuicide, Finish, StepsLeft, ToVisit
  <2> QED
    BY <2>1, <2>2
<1>5. CASE PutStone
  <2>1. /\ StepsLeft = Points * (Points + 2) + Points + 3
        /\ StepsLeft' = Cardinality(neighbours') * (Points + 2) + Points + 2
    BY <1>5, <1>2 DEF PutStone, StepsLeft, ToVisit
  <2>2. Cardinality(neighbours') * (Points + 2) <= Points * (Points + 2)
    <3>1. \A m, n \in Nat : m <= n => m * (n + 2) <= n * (n + 2)
      BY MoreNeighbours
    <3>2. Cardinality(neighbours') \in Nat /\ Cardinality(neighbours') <= Points
      BY <1>1, <1>3
    <3> QED
      BY <1>1, <3>1, <3>2
  <2>3. /\ Cardinality(neighbours') * (Points + 2) \in Nat
        /\ Points * (Points + 2) \in Nat
    BY <1>1, <1>3, MoreNeighbours
  <2> QED
    BY <1>1, <2>1, <2>2, <2>3
<1>6. ASSUME NEW q \in neighbours, Visit(q)
      PROVE  StepsLeft' < StepsLeft
  <2> DEFINE m == Cardinality(neighbours')
  <2>1. m \in Nat /\ Cardinality(neighbours) = m + 1
    <3>1. IsFiniteSet(neighbours) /\ neighbours' = neighbours \ {q} /\ q \in neighbours
      BY <1>6, PointsFinite DEF Visit, TypeOK
    <3>2. Cardinality(neighbours \ {q}) = Cardinality(neighbours) - 1
      BY <3>1, FS_RemoveElement
    <3> QED
      BY <1>1, <1>3, <3>1, <3>2
  <2>2. ToVisit = m * (Points + 2) + Points + 2 + Points + 2 /\ ToVisit' = m * (Points + 2) + Points + 2
        /\ m * (Points + 2) \in Nat
    BY <1>1, <2>1, <1>2, VisitLess DEF ToVisit
  <2>3. StepsLeft = ToVisit
    BY <1>6 DEF Visit, StepsLeft
  <2>4. StepsLeft' = ToVisit' \/ StepsLeft' = ToVisit' + ToLookAt' + 1
    BY <1>6 DEF Visit, StepsLeft
  <2> HIDE DEF m
  <2> QED
    BY <1>1, <1>3, <2>2, <2>3, <2>4
<1>7. ASSUME NEW p \in stack, Pop(p)
      PROVE  StepsLeft' < StepsLeft
  <2> DEFINE S == (Point \cup {coords}) \ (group \ stack)
             T == (Point \cup {coords'}) \ (group' \ stack')
  <2>1. T = S \ {p} /\ p \in S
    BY <1>0, <1>7 DEF Pop, ToAdd, NotGathered, TypeOK
  <2>2. IsFiniteSet(S)
    BY FewToGather
  <2>3. Cardinality(S \ {p}) = Cardinality(S) - 1
    BY <2>1, <2>2, FS_RemoveElement
  <2>4. ToLookAt' = ToLookAt - 1
    BY <2>1, <2>3 DEF ToLookAt
  <2>5. ToVisit' = ToVisit /\ at' = at /\ at \in {"opponent", "own"}
    BY <1>7, <1>2 DEF Pop, ToVisit
  <2> QED
    BY <1>1, <1>3, <2>4, <2>5 DEF StepsLeft
<1>8. CASE Capture
  <2>1. StepsLeft = ToVisit + ToLookAt + 1 /\ StepsLeft' = ToVisit
    BY <1>8, <1>2 DEF Capture, StepsLeft, ToVisit
  <2> QED
    BY <1>1, <2>1
<1>9. CASE TestSuicide
  <2>1. StepsLeft = ToVisit /\ StepsLeft' = ToLookAt' + 1
    BY <1>9 DEF TestSuicide, StepsLeft
  <2>2. Cardinality(neighbours) * (Points + 2) \in Nat
    BY <1>1, MoreNeighbours
  <2>3. ToVisit >= Points + 2
    BY <1>1, <2>2 DEF ToVisit
  <2>4. ToLookAt' <= Points
    BY <1>1, <1>3
  <2> DEFINE a == ToLookAt'
             b == Points
             v == ToVisit
  <2>5. a \in Nat /\ b \in Nat /\ a <= b /\ v \in Nat /\ v >= b + 2
    BY <1>1, <1>3, <2>3, <2>4
  <2>6. StepsLeft = v /\ StepsLeft' = a + 1
    BY <2>1
  <2> HIDE DEF a, b, v
  <2>7. a + 1 \in Nat /\ a + 1 < v
    BY <2>5
  <2> QED
    BY <2>6, <2>7
<1> QED
  BY <1>3, <1>4, <1>5, <1>6, <1>7, <1>8, <1>9 DEF Next

\* Neither loop runs forever, on a board of any size and in any order of the
\* points: each step leaves fewer steps to be taken.
THEOREM LoopsEnd == Spec => [][StepsLeft' \in Nat /\ StepsLeft' < StepsLeft]_vars
<1>1. IInv => TypeOK /\ Counts
  BY Counted DEF IInv
<1>2. TypeOK /\ Counts /\ Counts' /\ [Next]_vars
        => [StepsLeft' \in Nat /\ StepsLeft' < StepsLeft]_vars
  BY StepLeavesFewer
<1> QED
  BY <1>1, <1>2, Inductive, PTL DEF Spec
=============================================================================
