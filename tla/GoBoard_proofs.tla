--------------------------- MODULE GoBoard_proofs ---------------------------
(***************************************************************************)
(* What the operators of GoBoard return, for a board of any size: types,   *)
(* what a group is, and that no placement and no removal of whole groups   *)
(* leaves a group without liberties.                                       *)
(***************************************************************************)
EXTENDS GoBoard, FiniteSetTheorems, TLAPS

-----------------------------------------------------------------------------
(***************************************************************************)
(* Types and contents.                                                     *)
(***************************************************************************)
\* There are finitely many points, so every set of points can be counted.
LEMMA PointsFinite ==
    IsFiniteSet(Point) /\ \A S \in SUBSET Point : IsFiniteSet(S) /\ Cardinality(S) \in Nat
<1>1. IsFiniteSet(0 .. Size - 1)
  BY SizeAssumption, FS_Interval
<1>2. IsFiniteSet(Point)
  BY <1>1, FS_Product DEF Point
<1> QED
  BY <1>2, FS_Subset, FS_CardinalityType

\* No colour is Empty, and the opponent's colour is the other one.
LEMMA Colors ==
    /\ Empty \notin Color
    /\ \A c \in Color : /\ inverse(c) \in Color
                        /\ inverse(c) # c
                        /\ inverse(inverse(c)) = c
                        /\ \A d \in Color : d = c \/ d = inverse(c)
BY DEF Empty, Color, inverse

\* A group is part of the points that hold what its point holds, the point
\* among them.
LEMMA GroupContains ==
    ASSUME NEW b, NEW p \in Point
    PROVE  p \in Group(b, p) /\ Group(b, p) \subseteq Holding(b, b[p])
BY DEF Group, Holding

\* A coordinate names a point of the board, a point names itself.
LEMMA CoordinatesName ==
    /\ Point \subseteq Coordinate
    /\ \A co \in Coordinate : At(co) \in Point
    /\ \A p \in Point : At(p) = p
<1>1. Point \subseteq Coordinate
  BY SizeAssumption DEF Point, Coordinate
<1>2. ASSUME NEW co \in Coordinate PROVE At(co) \in Point
  <2>1. co[1] \in -Size .. Size - 1 /\ co[2] \in -Size .. Size - 1
    BY DEF Coordinate
  <2>2. Index(co[1]) \in 0 .. Size - 1 /\ Index(co[2]) \in 0 .. Size - 1
    BY <2>1, SizeAssumption DEF Index
  <2> QED
    BY <2>2 DEF At, Point
<1>3. ASSUME NEW p \in Point PROVE At(p) = p
  <2>1. p[1] \in 0 .. Size - 1 /\ p[2] \in 0 .. Size - 1 /\ p = <<p[1], p[2]>>
    BY DEF Point
  <2>2. Index(p[1]) = p[1] /\ Index(p[2]) = p[2]
    BY <2>1, SizeAssumption DEF Index
  <2> QED
    BY <2>1, <2>2 DEF At
<1> QED
  BY <1>1, <1>2, <1>3

\* What Put changes.
LEMMA PutChanges ==
    ASSUME NEW b \in Board, NEW co \in Coordinate, NEW c \in Color
    PROVE  /\ Put(b, co, c) \in Board
           /\ \A q \in Point : Put(b, co, c)[q] = IF q = At(co) THEN c ELSE b[q]
BY CoordinatesName DEF Put, Board

\* What is captured are points that held the opponent's colour.
LEMMA CapturedHolds ==
    ASSUME NEW b \in Board, NEW co \in Coordinate, NEW c \in Color, b[At(co)] = Empty
    PROVE  /\ Captured(b, co, c) \subseteq Holding(b, inverse(c))
           /\ At(co) \notin Captured(b, co, c)
<1> DEFINE nb == Put(b, co, c)
<1>1. \A q \in Point : nb[q] = IF q = At(co) THEN c ELSE b[q]
  BY PutChanges
<1>2. \A q \in Point : nb[q] = inverse(c) => Group(nb, q) \subseteq Holding(nb, inverse(c))
  BY GroupContains
<1>3. Captured(b, co, c) \subseteq Holding(nb, inverse(c))
  <2> HIDE DEF nb
  <2>1. Adjacencies(co) \subseteq Point
    BY DEF Adjacencies
  <2>2. Captured(b, co, c)
          = UNION {Group(nb, q) : q \in {r \in Adjacencies(co) : /\ nb[r] = inverse(c)
                                                               /\ ~HasLiberty(nb, Group(nb, r))}}
    BY DEF Captured, nb
  <2> QED
    BY <1>2, <2>1, <2>2
<1>4. Holding(nb, inverse(c)) \subseteq Holding(b, inverse(c)) /\ At(co) \notin Holding(nb, inverse(c))
  <2> HIDE DEF nb
  <2> QED
    BY <1>1, Colors DEF Holding
<1> QED
  BY <1>3, <1>4

\* Taking stones off a board gives a board.
LEMMA RemoveType ==
    ASSUME NEW b \in Board, NEW S
    PROVE  Remove(b, S) \in Board
BY DEF Remove, Board

\* A placement gives a board.
LEMMA AfterPlacingType ==
    ASSUME NEW b \in Board, NEW co \in Coordinate, NEW c \in Color
    PROVE  AfterPlacing(b, co, c) \in Board
BY PutChanges, RemoveType DEF AfterPlacing

\* Counting gives each point one colour or none.
LEMMA CountsForType ==
    ASSUME NEW b \in Board
    PROVE  CountsFor(b) \in [Point -> Color \cup {Empty}]
<1>1. ASSUME NEW p \in Point, Cardinality(Borders(b, p)) = 1
      PROVE  \E c \in Color : Borders(b, p) = {c}
  <2>1. Borders(b, p) \subseteq Color
    BY DEF Borders
  <2>2. IsFiniteSet(Color)
    <3>1. IsFiniteSet({"black"})
      BY FS_Singleton
    <3>2. IsFiniteSet({"black"} \cup {"white"})
      BY <3>1, FS_AddElement
    <3>3. Color = {"black"} \cup {"white"}
      BY DEF Color
    <3> QED
      BY <3>2, <3>3
  <2>3. IsFiniteSet(Borders(b, p))
    BY <2>1, <2>2, FS_Subset
  <2>4. \E x : Borders(b, p) = {x}
    BY <1>1, <2>3, FS_Singleton
  <2> QED
    BY <2>1, <2>4
<1> QED
  BY <1>1 DEF CountsFor

-----------------------------------------------------------------------------
(***************************************************************************)
(* Groups.                                                                 *)
(***************************************************************************)
\* Neighbours are neighbours of each other.
LEMMA AdjacenciesSymmetric ==
    ASSUME NEW p \in Point, NEW q \in Adjacencies(p)
    PROVE  q \in Point /\ p \in Adjacencies(q)
<1>1. q \in Point
  BY DEF Adjacencies
<1>2. p[1] \in Int /\ p[2] \in Int /\ p = <<p[1], p[2]>>
  BY SizeAssumption DEF Point
<1>3. \/ q = <<p[1] - 1, p[2]>> \/ q = <<p[1] + 1, p[2]>>
      \/ q = <<p[1], p[2] - 1>> \/ q = <<p[1], p[2] + 1>>
  BY DEF Adjacencies
<1>4. \/ p = <<q[1] - 1, q[2]>> \/ p = <<q[1] + 1, q[2]>>
      \/ p = <<q[1], q[2] - 1>> \/ p = <<q[1], q[2] + 1>>
  <2>1. CASE q = <<p[1] - 1, p[2]>>
    BY <1>2, <2>1
  <2>2. CASE q = <<p[1] + 1, p[2]>>
    BY <1>2, <2>2
  <2>3. CASE q = <<p[1], p[2] - 1>>
    BY <1>2, <2>3
  <2>4. CASE q = <<p[1], p[2] + 1>>
    BY <1>2, <2>4
  <2> QED
    BY <1>3, <2>1, <2>2, <2>3, <2>4
<1> QED
  BY <1>1, <1>4 DEF Adjacencies

\* A group has every point next to it that holds the same.
LEMMA GroupClosed ==
    ASSUME NEW b, NEW p \in Point
    PROVE  Closed(Group(b, p), Holding(b, b[p]))
BY DEF Group, Closed

\* It is the least such set around its point.
LEMMA GroupLeast ==
    ASSUME NEW b, NEW p \in Point, NEW S \in SUBSET Holding(b, b[p]),
           p \in S, Closed(S, Holding(b, b[p]))
    PROVE  Group(b, p) \subseteq S
BY DEF Group

\* Each of its points has the same group.
LEMMA GroupSame ==
    ASSUME NEW b, NEW p \in Point, NEW q \in Group(b, p)
    PROVE  q \in Point /\ b[q] = b[p] /\ Group(b, q) = Group(b, p)
<1> DEFINE like == Holding(b, b[p])
           rest == Group(b, p) \ Group(b, q)
<1>1. q \in Point /\ b[q] = b[p]
  BY GroupContains DEF Holding
<1>2. /\ p \in Group(b, p) /\ Group(b, p) \subseteq like /\ Closed(Group(b, p), like)
      /\ q \in Group(b, q) /\ Group(b, q) \subseteq like /\ Closed(Group(b, q), like)
      /\ like \subseteq Point
  BY <1>1, GroupContains, GroupClosed DEF Holding
<1>3. Group(b, q) \subseteq Group(b, p)
  BY <1>1, <1>2, GroupLeast
<1>4. Closed(rest, like)
  <2>1. SUFFICES ASSUME NEW x \in rest, NEW y \in Adjacencies(x) \cap like, y \in Group(b, q)
                 PROVE  FALSE
    BY <1>2 DEF Closed
  <2>2. x \in Point /\ x \in like /\ x \in Adjacencies(y)
    BY <1>2, <2>1, AdjacenciesSymmetric
  <2> QED
    BY <1>2, <2>1, <2>2 DEF Closed
<1>5. p \in Group(b, q)
  <2>1. SUFFICES ASSUME p \notin Group(b, q) PROVE FALSE
    OBVIOUS
  <2>2. Group(b, p) \subseteq rest
    BY <1>2, <1>4, <2>1, GroupLeast
  <2> QED
    BY <1>2, <2>2
<1>6. Group(b, p) \subseteq Group(b, q)
  BY <1>1, <1>2, <1>5, GroupLeast
<1> QED
  BY <1>1, <1>3, <1>6

\* Called at a point, _gather finds the group of it.
LEMMA GatheredAtPoint ==
    ASSUME NEW b, NEW p \in Point
    PROVE  Gathered(b, p) = Group(b, p)
<1> DEFINE next == {r \in Adjacencies(p) : b[r] = b[p]}
<1>1. Gathered(b, p) = {p} \cup UNION {Group(b, q) : q \in next}
  BY CoordinatesName DEF Gathered
<1>2. /\ p \in Group(b, p) /\ Group(b, p) \subseteq Holding(b, b[p])
      /\ Closed(Group(b, p), Holding(b, b[p]))
  BY GroupContains, GroupClosed
<1>3. ASSUME NEW q \in next
      PROVE  q \in Point /\ Group(b, q) = Group(b, p)
  <2>1. q \in Group(b, p)
    BY <1>2, <1>3 DEF Closed, Holding, Adjacencies
  <2> QED
    BY <2>1, GroupSame
<1>4. CASE next = {}
  <2>1. Closed({p}, Holding(b, b[p]))
    BY <1>4 DEF Closed, Holding
  <2>2. Group(b, p) \subseteq {p}
    BY <1>2, <2>1, GroupLeast
  <2> QED
    BY <1>1, <1>2, <1>4, <2>2
<1>5. CASE next # {}
  <2> HIDE DEF next
  <2>1. UNION {Group(b, q) : q \in next} = Group(b, p)
    BY <1>3, <1>5
  <2> QED
    BY <1>1, <1>2, <2>1
<1> QED
  BY <1>4, <1>5

-----------------------------------------------------------------------------
(***************************************************************************)
(* Liberties.                                                              *)
(***************************************************************************)
Safe(b) == \A p \in Point : b[p] # Empty => HasLiberty(b, Group(b, p))

\* D is made of whole groups of b.
Whole(b, D) ==
    /\ D \subseteq Point
    /\ \A x \in D : \A y \in Adjacencies(x) : b[y] = b[x] => y \in D

\* A group is such a set.
LEMMA GroupWhole ==
    ASSUME NEW b, NEW p \in Point
    PROVE  Whole(b, Group(b, p))
<1>1. Group(b, p) \subseteq Holding(b, b[p]) /\ Closed(Group(b, p), Holding(b, b[p]))
  BY GroupContains, GroupClosed
<1> QED
  BY <1>1 DEF Whole, Closed, Holding, Adjacencies

\* So are the stones that a placement captures.
LEMMA CapturedWhole ==
    ASSUME NEW b, NEW co \in Coordinate, NEW c
    PROVE  Whole(Put(b, co, c), Captured(b, co, c))
<1> DEFINE nb == Put(b, co, c)
           dead == {q \in Adjacencies(co) : /\ nb[q] = inverse(c)
                                            /\ ~HasLiberty(nb, Group(nb, q))}
<1>1. Captured(b, co, c) = UNION {Group(nb, q) : q \in dead}
  BY DEF Captured
<1>2. \A q \in dead : Whole(nb, Group(nb, q))
  BY GroupWhole DEF Adjacencies
<1> HIDE DEF nb, dead
<1>3. Whole(nb, UNION {Group(nb, q) : q \in dead})
  BY <1>2 DEF Whole
<1> QED
  BY <1>1, <1>3 DEF nb

\* The groups that stay when whole groups go are the groups they were, and
\* they keep their liberties.
LEMMA GroupSurvives ==
    ASSUME NEW b \in Board, NEW D, Whole(b, D), NEW q \in Point \ D, b[q] # Empty
    PROVE  /\ Group(Remove(b, D), q) = Group(b, q)
           /\ HasLiberty(b, Group(b, q)) => HasLiberty(Remove(b, D), Group(b, q))
<1> DEFINE r == Remove(b, D)
           like == Holding(b, b[q])
<1>1. \A x \in Point : r[x] = IF x \in D THEN Empty ELSE b[x]
  BY DEF Remove
<1> HIDE DEF r
<1>2. r[q] = b[q] /\ Holding(r, r[q]) = like \ D
  BY <1>1 DEF Holding
<1>3. /\ q \in Group(b, q) /\ Group(b, q) \subseteq like /\ Closed(Group(b, q), like)
      /\ q \in Group(r, q) /\ Group(r, q) \subseteq like \ D /\ Closed(Group(r, q), like \ D)
  BY <1>2, GroupContains, GroupClosed
<1>4. Group(b, q) \subseteq Group(r, q)
  <2>1. Closed(Group(r, q), like)
    <3>1. SUFFICES ASSUME NEW x \in Group(r, q), NEW y \in Adjacencies(x) \cap like
                   PROVE  y \notin D
      BY <1>3 DEF Closed
    <3>2. x \in like \ D /\ x \in Point /\ b[y] = b[q] /\ b[x] = b[q]
      BY <1>3 DEF Holding
    <3>3. x \in Adjacencies(y)
      BY <3>2, AdjacenciesSymmetric
    <3> QED
      BY <3>2, <3>3 DEF Whole
  <2> QED
    BY <1>3, <2>1, GroupLeast
<1>5. Group(r, q) \subseteq Group(b, q)
  <2>1. Group(b, q) \subseteq like \ D
    BY <1>3, <1>4
  <2>2. Closed(Group(b, q), like \ D)
    BY <1>3 DEF Closed
  <2> QED
    BY <1>2, <1>3, <2>1, <2>2, GroupLeast
<1>6. ASSUME HasLiberty(b, Group(b, q))
      PROVE  HasLiberty(r, Group(b, q))
  BY <1>1, <1>6 DEF HasLiberty, Adjacencies
<1> QED
  BY <1>4, <1>5, <1>6 DEF r

\* Taking whole groups off a board leaves the others their liberties.
LEMMA RemovalIsSafe ==
    ASSUME NEW b \in Board, NEW D, Whole(b, D), Safe(b)
    PROVE  Safe(Remove(b, D))
<1>1. SUFFICES ASSUME NEW q \in Point, Remove(b, D)[q] # Empty
               PROVE  HasLiberty(Remove(b, D), Group(Remove(b, D), q))
  BY DEF Safe
<1>2. q \notin D /\ b[q] # Empty
  BY <1>1 DEF Remove
<1> QED
  BY <1>2, GroupSurvives DEF Safe

\* A group that the new stone does not join, and that has no liberty once it
\* is placed, had its last liberty there.
LEMMA LastLiberty ==
    ASSUME NEW b \in Board, Safe(b), NEW p \in Point, NEW c \in Color, b[p] = Empty,
           NEW q \in Point, Put(b, p, c)[q] # Empty, p \notin Group(Put(b, p, c), q),
           ~HasLiberty(Put(b, p, c), Group(Put(b, p, c), q))
    PROVE  /\ Put(b, p, c)[q] = inverse(c)
           /\ \E x \in Adjacencies(p) : x \in Group(Put(b, p, c), q)
<1> DEFINE nb == Put(b, p, c)
<1>1. /\ nb \in Board
      /\ \A x \in Point : nb[x] = IF x = p THEN c ELSE b[x]
  BY PutChanges, CoordinatesName
<1> HIDE DEF nb
<1>2. nb[q] # Empty /\ p \notin Group(nb, q) /\ ~HasLiberty(nb, Group(nb, q))
  BY DEF nb
<1>3. /\ q \in Group(nb, q) /\ Group(nb, q) \subseteq Holding(nb, nb[q])
      /\ Closed(Group(nb, q), Holding(nb, nb[q]))
  BY GroupContains, GroupClosed
<1>4. q # p /\ b[q] = nb[q]
  BY <1>1, <1>2, <1>3
<1>5. Group(nb, q) \subseteq Holding(b, b[q]) /\ Closed(Group(nb, q), Holding(b, b[q]))
  <2>1. Holding(b, b[q]) \subseteq Holding(nb, nb[q])
    BY <1>1, <1>2, <1>4 DEF Holding
  <2>2. Group(nb, q) \subseteq Holding(b, b[q])
    BY <1>1, <1>2, <1>3, <1>4 DEF Holding
  <2> QED
    BY <1>3, <2>1, <2>2 DEF Closed
<1>6. Group(b, q) \subseteq Group(nb, q)
  BY <1>3, <1>5, GroupLeast
<1>7. PICK x \in Group(b, q) : \E y \in Adjacencies(x) : b[y] = Empty
  BY <1>2, <1>4 DEF Safe, HasLiberty
<1>8. PICK y \in Adjacencies(x) : b[y] = Empty
  BY <1>7
<1>9. x \in Group(nb, q) /\ x \in Point /\ nb[x] = nb[q] /\ y \in Point
  BY <1>3, <1>6, <1>7, <1>8 DEF Holding, Adjacencies
<1>10. y = p
  BY <1>1, <1>2, <1>7, <1>8, <1>9 DEF HasLiberty
<1>11. x \in Adjacencies(p)
  BY <1>7, <1>8, <1>9, <1>10, AdjacenciesSymmetric
<1>12. nb[q] # c
  BY <1>1, <1>2, <1>3, <1>7, <1>8, <1>9, <1>10 DEF Closed, Holding
<1>13. nb[q] = inverse(c)
  <2>1. nb[q] \in Color
    BY <1>1, <1>2 DEF Board
  <2> QED
    BY <1>12, <2>1, Colors
<1> QED
  BY <1>9, <1>11, <1>13 DEF nb

\* A placement that is not suicide leaves every group a liberty, although the
\* code looks at the groups next to the new stone only.
LEMMA PlacingIsSafe ==
    ASSUME NEW b \in Board, Safe(b), NEW p \in Point, NEW c \in Color, b[p] = Empty,
           ~Suicide(b, p, c)
    PROVE  Safe(AfterPlacing(b, p, c))
<1> DEFINE nb == Put(b, p, c)
           D == Captured(b, p, c)
           dead == {q \in Adjacencies(p) : /\ nb[q] = inverse(c)
                                           /\ ~HasLiberty(nb, Group(nb, q))}
<1>1. /\ nb \in Board
      /\ \A x \in Point : nb[x] = IF x = p THEN c ELSE b[x]
  BY PutChanges, CoordinatesName
<1>2. D = UNION {Group(nb, q) : q \in dead}
  BY DEF Captured
<1>3. Whole(nb, D) /\ p \notin D
  BY CapturedWhole, CapturedHolds, CoordinatesName
<1>4. AfterPlacing(b, p, c) = Remove(nb, D)
  BY DEF AfterPlacing
<1>5. D = {} => HasLiberty(nb, Group(nb, p))
  BY GatheredAtPoint DEF Suicide
<1>6. ASSUME NEW q \in Point, nb[q] # Empty, p \notin Group(nb, q),
             ~HasLiberty(nb, Group(nb, q))
      PROVE  /\ nb[q] = inverse(c)
             /\ \E x \in Adjacencies(p) : x \in Group(nb, q)
  BY <1>6, LastLiberty
<1> HIDE DEF nb, D
<1>7. SUFFICES ASSUME NEW q \in Point, Remove(nb, D)[q] # Empty
               PROVE  HasLiberty(Remove(nb, D), Group(Remove(nb, D), q))
  BY <1>4 DEF Safe
<1>8. q \notin D /\ nb[q] # Empty
  BY <1>7 DEF Remove
<1>9. /\ Group(Remove(nb, D), q) = Group(nb, q)
      /\ HasLiberty(nb, Group(nb, q)) => HasLiberty(Remove(nb, D), Group(nb, q))
  BY <1>1, <1>3, <1>8, GroupSurvives
<1>10. CASE p \in Group(nb, q)
  <2>1. Group(nb, p) = Group(nb, q)
    BY <1>10, GroupSame
  <2>2. CASE D = {}
    BY <1>5, <1>9, <2>1, <2>2
  <2>3. CASE D # {}
    <3>1. PICK x \in Adjacencies(p) : x \in D
      BY <1>2, <2>3, GroupContains DEF Adjacencies
    <3>2. Remove(nb, D)[x] = Empty
      BY <3>1 DEF Remove, Adjacencies
    <3> QED
      BY <1>9, <1>10, <3>1, <3>2 DEF HasLiberty
  <2> QED
    BY <2>2, <2>3
<1>11. CASE p \notin Group(nb, q)
  <2>1. SUFFICES ASSUME ~HasLiberty(nb, Group(nb, q)) PROVE FALSE
    BY <1>9
  <2>2. PICK x \in Adjacencies(p) : x \in Group(nb, q)
    BY <1>6, <1>8, <1>11, <2>1
  <2>3. nb[x] = inverse(c) /\ Group(nb, x) = Group(nb, q)
    BY <1>6, <1>8, <1>11, <2>1, <2>2, GroupSame
  <2>4. q \in D
    BY <1>2, <2>1, <2>2, <2>3, GroupContains
  <2> QED
    BY <1>8, <2>4
<1> QED
  BY <1>10, <1>11
=============================================================================
