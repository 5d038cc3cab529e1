---------------------------- MODULE Game_proofs ----------------------------
(***************************************************************************)
(* Proofs about Game, for a board of any size, any komi and any number of  *)
(* actions.                                                                *)
(*                                                                         *)
(* First how placements and removals count; then the inductive invariant,  *)
(* of the types, the requests, the parity of the turn and the number of    *)
(* stones; and on it the liberties of groups, what the comparison of whole *)
(* boards refuses, the result, and what a single step may do.              *)
(***************************************************************************)
EXTENDS Game, GoBoard_proofs

-----------------------------------------------------------------------------
(***************************************************************************)
(* Counting stones.                                                        *)
(***************************************************************************)
\* Taking a set of stones of colour d off the board leaves the others.
LEMMA RemoveCounts ==
    ASSUME NEW b \in Board, NEW d \in Color, NEW S, S \subseteq Holding(b, d)
    PROVE  /\ Cardinality(Holding(Remove(b, S), d)) = Cardinality(Holding(b, d)) - Cardinality(S)
           /\ Holding(Remove(b, S), inverse(d)) = Holding(b, inverse(d))
           /\ Cardinality(Holding(b, d)) \in Nat /\ Cardinality(S) \in Nat
<1>1. Holding(Remove(b, S), d) = Holding(b, d) \ S
  BY Colors DEF Holding, Remove
<1>2. Holding(Remove(b, S), inverse(d)) = Holding(b, inverse(d))
  BY Colors DEF Holding, Remove
<1>3. IsFiniteSet(Holding(b, d)) /\ Cardinality(Holding(b, d)) \in Nat /\ Cardinality(S) \in Nat
  BY PointsFinite DEF Holding
<1>4. Holding(b, d) \cap S = S
  OBVIOUS
<1> QED
  BY <1>1, <1>2, <1>3, <1>4, FS_Difference

\* A placement adds a stone of its colour, and takes the captured ones away.
LEMMA PlacingCounts ==
    ASSUME NEW b \in Board, NEW co \in Coordinate, NEW c \in Color, b[At(co)] = Empty
    PROVE  /\ Cardinality(Holding(AfterPlacing(b, co, c), c)) = Cardinality(Holding(b, c)) + 1
           /\ Cardinality(Holding(AfterPlacing(b, co, c), inverse(c)))
                = Cardinality(Holding(b, inverse(c))) - Cardinality(Captured(b, co, c))
           /\ Cardinality(Captured(b, co, c)) \in Nat
           /\ \A d \in Color : Cardinality(Holding(b, d)) \in Nat
<1> DEFINE nb == Put(b, co, c)
           p == At(co)
<1>1. nb \in Board /\ p \in Point /\ \A q \in Point : nb[q] = IF q = p THEN c ELSE b[q]
  BY PutChanges, CoordinatesName
<1>2. b[p] = Empty
  OBVIOUS
<1> HIDE DEF nb, p
<1>3. Holding(nb, c) = Holding(b, c) \cup {p} /\ p \notin Holding(b, c)
  BY <1>1, <1>2, Colors DEF Holding
<1>4. Holding(nb, inverse(c)) = Holding(b, inverse(c))
  BY <1>1, <1>2, Colors DEF Holding
<1>5. \A d \in Color : IsFiniteSet(Holding(b, d)) /\ Cardinality(Holding(b, d)) \in Nat
  BY PointsFinite DEF Holding
<1>6. Cardinality(Holding(nb, c)) = Cardinality(Holding(b, c)) + 1
  BY <1>3, <1>5, FS_AddElement
<1>7. Captured(b, co, c) \subseteq Holding(nb, inverse(c))
  BY <1>4, CapturedHolds
<1>8. inverse(c) \in Color /\ inverse(inverse(c)) = c
  BY Colors
<1> QED
  BY <1>1, <1>4, <1>5, <1>6, <1>7, <1>8, RemoveCounts DEF AfterPlacing, nb

-----------------------------------------------------------------------------
(***************************************************************************)
(* The inductive invariant.                                                *)
(***************************************************************************)
MarksAreStones == \A p \in marked_dead : board[p] # Empty
IInv == TypeOK /\ RequestsConsistent /\ MarksAreStones /\ TurnsAlternate /\ StonesConserved

\* By how much the stones of colour d that are on the board or taken exceed
\* those placed.
Surplus(d) == Cardinality(Holding(board, d)) + prisoners[inverse(d)] - action_stack.placed[d]

\* Placements and passes so far.
Moves == action_stack.placed["black"] + action_stack.placed["white"] + action_stack.passes

\* The successor of a number is even exactly when the number is odd.
LEMMA Parity == \A n \in Nat : (n + 1) % 2 = 0 <=> n % 2 # 0
OBVIOUS

\* A new game: an empty board, no prisoners, nobody has moved.
LEMMA InitIInv == Init => IInv
<1> SUFFICES ASSUME Init PROVE IInv
  OBVIOUS
<1>1. TypeOK
  BY DEF Init, TypeOK, EmptyBoard, Board, Color, GameStatus, Empty
<1>2. RequestsConsistent /\ MarksAreStones
  BY DEF Init, RequestsConsistent, NoRequest, MarksAreStones
<1>3. TurnsAlternate
  BY DEF Init, TurnsAlternate, Color
<1>4. StonesConserved
  <2>1. \A c \in Color : Holding(board, c) = {}
    BY Colors DEF Init, Holding, EmptyBoard
  <2> QED
    BY <2>1, Colors, FS_EmptySet DEF Init, StonesConserved
<1> QED
  BY <1>1, <1>2, <1>3, <1>4 DEF IInv

\* What an action on the stack does to the counts.
LEMMA PushCounts ==
    ASSUME IInv, NEW type \in ActionType, NEW c \in Color, Push(type, c)
    PROVE  /\ action_stack' \in [version : Nat, last : ActionType \cup {"none"},
                                  placed : [Color -> Nat], passes : Nat]
           /\ action_stack'.last = type
           /\ \A d \in Color : action_stack'.placed[d] = action_stack.placed[d]
                                + (IF type = "place_stone" /\ d = c THEN 1 ELSE 0)
           /\ Moves \in Nat
           /\ Moves' = Moves + (IF type \in {"place_stone", "pass_turn"} THEN 1 ELSE 0)
<1>1. action_stack \in [version : Nat, last : ActionType \cup {"none"},
                        placed : [Color -> Nat], passes : Nat]
  BY DEF IInv, TypeOK
<1>2. /\ action_stack' \in [version : Nat, last : ActionType \cup {"none"},
                              placed : [Color -> Nat], passes : Nat]
      /\ action_stack'.last = type
      /\ action_stack'.passes = action_stack.passes + (IF type = "pass_turn" THEN 1 ELSE 0)
  BY <1>1 DEF Push
<1>3. \A d \in Color : action_stack'.placed[d] = action_stack.placed[d]
                        + (IF type = "place_stone" /\ d = c THEN 1 ELSE 0)
  BY <1>1 DEF Push
<1>4. /\ Moves \in Nat
      /\ Moves' = Moves + (IF type \in {"place_stone", "pass_turn"} THEN 1 ELSE 0)
  <2>1. action_stack.placed["black"] \in Nat /\ action_stack.placed["white"] \in Nat
        /\ action_stack.passes \in Nat
    BY <1>1 DEF Color
  <2> QED
    BY <1>2, <1>3, <2>1 DEF Moves, Color
<1> QED
  BY <1>2, <1>3, <1>4

\* All that the counts are made of are integers.
LEMMA SurplusType ==
    TypeOK => \A d \in Color : /\ Cardinality(Holding(board, d)) \in Nat
                               /\ prisoners[inverse(d)] \in Nat
                               /\ action_stack.placed[d] \in Nat
                               /\ Surplus(d) \in Int
<1> SUFFICES ASSUME TypeOK, NEW d \in Color
             PROVE  /\ Cardinality(Holding(board, d)) \in Nat
                    /\ prisoners[inverse(d)] \in Nat
                    /\ action_stack.placed[d] \in Nat
                    /\ Surplus(d) \in Int
  OBVIOUS
<1>1. Cardinality(Holding(board, d)) \in Nat
  BY PointsFinite DEF Holding
<1>2. inverse(d) \in Color
  BY Colors
<1>3. prisoners[inverse(d)] \in Nat /\ action_stack.placed[d] \in Nat
  BY <1>2 DEF TypeOK
<1> QED
  BY <1>1, <1>3 DEF Surplus

\* StonesConserved says that there is no surplus, and none is missing unless an
\* exception lost it.
LEMMA NoSurplus ==
    TypeOK => (StonesConserved <=>
                \A d \in Color : Surplus(d) <= 0 /\ (~torn => Surplus(d) = 0))
BY SurplusType DEF StonesConserved, Surplus

\* A step that keeps the surplus of both colours conserves the stones, and so
\* does one that loses some and records it.
LEMMA SurplusKept ==
    ASSUME IInv, TypeOK',
           \/ torn' = torn /\ \A d \in Color : Surplus(d)' = Surplus(d)
           \/ torn' /\ \A d \in Color : Surplus(d)' <= Surplus(d)
    PROVE  StonesConserved'
<1>1. \A d \in Color : Surplus(d) <= 0 /\ (~torn => Surplus(d) = 0) /\ Surplus(d) \in Int
  BY NoSurplus, SurplusType DEF IInv
<1>2. \A d \in Color : /\ Cardinality(Holding(board', d)) \in Nat
                        /\ prisoners'[inverse(d)] \in Nat
                        /\ action_stack'.placed[d] \in Nat
  <2> TAKE d \in Color
  <2>1. Cardinality(Holding(board', d)) \in Nat
    BY PointsFinite DEF Holding
  <2>2. inverse(d) \in Color
    BY Colors
  <2> QED
    BY <2>1, <2>2 DEF TypeOK
<1>3. \A d \in Color : Surplus(d)' \in Int
  BY <1>2 DEF Surplus
<1>4. \A d \in Color : Surplus(d)' <= 0 /\ (~torn' => Surplus(d)' = 0)
  BY <1>1, <1>3
<1> QED
  BY <1>2, <1>4 DEF StonesConserved, Surplus

\* An action that is no placement, moves no stone and is no pass keeps the
\* stones and the parity.
LEMMA QuietAction ==
    ASSUME IInv, NEW type \in ActionType \ {"place_stone", "pass_turn"}, NEW c \in Color,
           Push(type, c), UNCHANGED <<turn, board, prisoners, torn>>
    PROVE  TurnsAlternate' /\ StonesConserved'
<1>1. Moves' = Moves /\ \A d \in Color : action_stack'.placed[d] = action_stack.placed[d]
  <2>1. \A d \in Color : action_stack.placed[d] \in Nat
    BY DEF IInv, TypeOK
  <2> QED
    BY <2>1, PushCounts
<1> QED
  BY <1>1 DEF IInv, TurnsAlternate, StonesConserved, Moves

\* While the coordinates are points of the board nothing is left half done, and
\* all marked stones are of one colour.
LEMMA InBoundsOneColor ==
    ASSUME RequestsConsistent, in_bounds
    PROVE  ~torn /\ OneColor
<1>1. CASE marked_dead = {}
  BY <1>1 DEF RequestsConsistent, OneColor
<1>2. CASE marked_dead # {}
  BY <1>2 DEF RequestsConsistent
<1> QED
  BY <1>1, <1>2

\* What _mark_dead gets to: points with stones of one colour, the named one
\* among them; from a point of the board, its group, and nothing twice.
LEMMA ReachedStones ==
    ASSUME board \in Board, NEW co \in Coordinate
    PROVE  /\ Reached(co) \subseteq Point /\ At(co) \in Reached(co)
           /\ \A p \in Reached(co) : board[p] = board[At(co)]
           /\ co \in Point => Reached(co) = Group(board, co) /\ ~ReachedTwice(co)
<1>1. \A q \in Gathered(board, co) : q = co \/ (q \in Point /\ board[q] = board[At(co)])
  <2>1. ASSUME NEW r \in Adjacencies(co), board[r] = board[At(co)], NEW q \in Group(board, r)
        PROVE  q \in Point /\ board[q] = board[At(co)]
    <3>1. r \in Point
      BY DEF Adjacencies
    <3> QED
      BY <2>1, <3>1, GroupContains DEF Holding
  <2> QED
    BY <2>1 DEF Gathered
<1>2. \A q \in Gathered(board, co) : At(q) \in Point /\ board[At(q)] = board[At(co)]
  BY <1>1, CoordinatesName
<1>3. co \in Gathered(board, co)
  BY DEF Gathered
<1>4. ASSUME co \in Point PROVE Reached(co) = Group(board, co) /\ ~ReachedTwice(co)
  <2>1. Gathered(board, co) = Group(board, co)
    BY <1>4, GatheredAtPoint
  <2>2. Group(board, co) \subseteq Point
    BY GroupContains DEF Holding, Group
  <2>3. \A q \in Group(board, co) : At(q) = q
    BY <2>2, CoordinatesName
  <2> QED
    BY <1>4, <2>1, <2>3 DEF Reached, ReachedTwice
<1> QED
  BY <1>2, <1>3, <1>4 DEF Reached

-----------------------------------------------------------------------------

\* One lemma per action, or for the answers that change no stone.
LEMMA PlaceStoneIInv ==
    ASSUME IInv, NEW c \in Color, NEW co \in Coordinate, PlaceStone(c, co)
    PROVE  IInv'
<1>0. board \in Board /\ board[At(co)] = Empty /\ "place_stone" \in ActionType
      /\ prisoners \in [Color -> Nat]
  BY DEF IInv, TypeOK, PlaceStone, LegalPlacement, ActionType
<1>1. TypeOK'
  <2>1. AfterPlacing(board, co, c) \in Board /\ Cardinality(Captured(board, co, c)) \in Nat
    BY <1>0, AfterPlacingType, PlacingCounts
  <2>2. prisoners' \in [Color -> Nat]
    BY <1>0, <2>1 DEF PlaceStone
  <2>3. last_placement' \in Placement
    <3>1. Captured(board, co, c) \subseteq Point
      BY <1>0, CapturedHolds DEF Holding
    <3> QED
      BY <3>1, CoordinatesName DEF PlaceStone, Placement
  <2>4. in_bounds' \in BOOLEAN
    BY DEF PlaceStone, Given
  <2> QED
    BY <1>0, <2>1, <2>2, <2>3, <2>4, PushCounts, Colors DEF IInv, TypeOK, PlaceStone, CycleBoards
<1>2. RequestsConsistent' /\ MarksAreStones'
  <2>1. status # "request_pending" /\ pending_request = NoRequest /\ marked_dead = {}
    BY DEF IInv, RequestsConsistent, PlaceStone, NoRequest
  <2> QED
    BY <2>1 DEF IInv, RequestsConsistent, PlaceStone, NoRequest, Given, MarksAreStones
<1>3. TurnsAlternate'
  <2>1. Moves \in Nat /\ Moves' = Moves + 1
    BY <1>0, PushCounts DEF PlaceStone
  <2>2. turn \in Color /\ turn' = inverse(turn)
    BY DEF PlaceStone, IInv, TypeOK
  <2>3. turn = "black" <=> Moves % 2 = 0
    BY DEF IInv, TurnsAlternate, Moves
  <2>4. turn' = "black" <=> Moves' % 2 = 0
    BY <2>1, <2>2, <2>3, Parity DEF Color, inverse
  <2> QED
    BY <2>4 DEF TurnsAlternate, Moves
<1>4. StonesConserved'
  <2>1. /\ prisoners'[c] = prisoners[c] + Cardinality(Captured(board, co, c))
        /\ prisoners'[inverse(c)] = prisoners[inverse(c)]
    BY <1>0, Colors DEF PlaceStone
  <2>2. \A d \in Color : action_stack'.placed[d]
                            = action_stack.placed[d] + (IF d = c THEN 1 ELSE 0)
    BY <1>0, PushCounts DEF PlaceStone
  <2>3. board' = AfterPlacing(board, co, c)
    BY DEF PlaceStone, CycleBoards
  <2>4. \A d \in Color : prisoners[d] \in Nat /\ action_stack.placed[d] \in Nat
    BY DEF IInv, TypeOK
  <2>5. Surplus(c)' = Surplus(c)
    BY <1>0, <2>1, <2>2, <2>3, <2>4, PlacingCounts, Colors DEF Surplus
  <2>6. Surplus(inverse(c))' = Surplus(inverse(c))
    <3>1. inverse(c) \in Color /\ inverse(c) # c /\ inverse(inverse(c)) = c
      BY Colors
    <3> QED
      BY <1>0, <2>1, <2>2, <2>3, <2>4, <3>1, PlacingCounts DEF Surplus
  <2>7. \A d \in Color : Surplus(d)' = Surplus(d)
    BY <2>5, <2>6, Colors
  <2> QED
    BY <1>1, <2>7, SurplusKept DEF PlaceStone
<1> QED
  BY <1>1, <1>2, <1>3, <1>4 DEF IInv

\* Passing changes the turn, or starts the endgame.
LEMMA PassTurnIInv ==
    ASSUME IInv, NEW c \in Color, PassTurn(c)
    PROVE  IInv'
<1>0. "pass_turn" \in ActionType
  BY DEF ActionType
<1>1. TypeOK'
  BY <1>0, PushCounts, Colors DEF IInv, TypeOK, PassTurn, NextTurn, GameStatus, history
<1>2. RequestsConsistent' /\ MarksAreStones'
  <2>1. status # "request_pending" /\ pending_request = NoRequest /\ marked_dead = {}
    BY DEF IInv, RequestsConsistent, PassTurn, NoRequest
  <2> QED
    BY <2>1 DEF IInv, RequestsConsistent, PassTurn, NoRequest, history, MarksAreStones
<1>3. TurnsAlternate'
  <2>1. Moves \in Nat /\ Moves' = Moves + 1
    BY <1>0, PushCounts DEF PassTurn
  <2>2. turn \in Color /\ turn' = inverse(turn)
    BY DEF PassTurn, NextTurn, IInv, TypeOK
  <2>3. turn = "black" <=> Moves % 2 = 0
    BY DEF IInv, TurnsAlternate, Moves
  <2>4. turn' = "black" <=> Moves' % 2 = 0
    BY <2>1, <2>2, <2>3, Parity DEF Color, inverse
  <2> QED
    BY <2>4 DEF TurnsAlternate, Moves
<1>4. StonesConserved'
  <2>1. \A d \in Color : action_stack.placed[d] \in Nat
    BY DEF IInv, TypeOK
  <2>2. \A d \in Color : action_stack'.placed[d] = action_stack.placed[d]
    BY <1>0, <2>1, PushCounts DEF PassTurn
  <2> QED
    BY <2>2 DEF PassTurn, IInv, StonesConserved, history
<1> QED
  BY <1>1, <1>2, <1>3, <1>4 DEF IInv

\* Resigning ends the game and moves no stone.
LEMMA ResignIInv ==
    ASSUME IInv, NEW c \in Color, Resign(c)
    PROVE  IInv'
<1>0. "resign" \in ActionType \ {"place_stone", "pass_turn"}
  BY DEF ActionType
<1>1. TypeOK'
  BY <1>0, PushCounts, Colors DEF IInv, TypeOK, Resign, GameStatus, Result, ResultType, history
<1>2. RequestsConsistent' /\ MarksAreStones'
  BY DEF IInv, RequestsConsistent, Resign, MayResign, NoRequest, history, MarksAreStones, OneColor
<1> QED
  BY <1>0, <1>1, <1>2, QuietAction DEF IInv, Resign, history

\* A request waits for its answer and moves no stone.
LEMMA RequestDrawIInv ==
    ASSUME IInv, NEW c \in Color, RequestDraw(c)
    PROVE  IInv'
<1>0. "request_draw" \in ActionType \ {"place_stone", "pass_turn"}
  BY DEF ActionType
<1>1. TypeOK'
  BY <1>0, PushCounts DEF IInv, TypeOK, RequestDraw, Ask, GameStatus, Request, RequestType
<1>2. RequestsConsistent' /\ MarksAreStones'
  BY DEF IInv, RequestsConsistent, RequestDraw, Ask, NoRequest, MarksAreStones, OneColor
<1> QED
  BY <1>0, <1>1, <1>2, QuietAction DEF IInv, RequestDraw, Ask

\* A request to count waits for its answer.
LEMMA RequestTallyScoreIInv ==
    ASSUME IInv, NEW c \in Color, RequestTallyScore(c)
    PROVE  IInv'
<1>0. "request_tally_score" \in ActionType \ {"place_stone", "pass_turn"}
  BY DEF ActionType
<1>1. TypeOK'
  BY <1>0, PushCounts DEF IInv, TypeOK, RequestTallyScore, Ask, GameStatus, Request, RequestType
<1>2. RequestsConsistent' /\ MarksAreStones'
  BY DEF IInv, RequestsConsistent, RequestTallyScore, Ask, NoRequest, MarksAreStones, OneColor
<1> QED
  BY <1>0, <1>1, <1>2, QuietAction DEF IInv, RequestTallyScore, Ask

\* Marking stones dead takes none off yet.
LEMMA MarkDeadIInv ==
    ASSUME IInv, NEW c \in Color, NEW co \in Coordinate, MarkDead(c, co)
    PROVE  IInv'
<1>0. "mark_dead" \in ActionType \ {"place_stone", "pass_turn"} /\ board \in Board
  BY DEF ActionType, IInv, TypeOK
<1>1. /\ ~torn => marked_dead = {}
      /\ pending_request = NoRequest /\ marked_dead' = marked_dead \cup Reached(co)
      /\ board' = board /\ torn' = torn /\ board[At(co)] # Empty
  BY DEF IInv, RequestsConsistent, MarkDead, Ask, NoRequest
<1>2. /\ Reached(co) \subseteq Point /\ At(co) \in Reached(co)
      /\ \A p \in Reached(co) : board[p] = board[At(co)]
      /\ co \in Point => Reached(co) = Group(board, co)
  BY <1>0, ReachedStones
<1>3. TypeOK'
  BY <1>0, <1>1, <1>2, PushCounts
     DEF IInv, TypeOK, MarkDead, Ask, GameStatus, Request, RequestType, Given
<1>4. RequestsConsistent'
  <2>1. ~torn' => OneColor'
    BY <1>1, <1>2 DEF OneColor
  <2>2. in_bounds' => /\ ~torn'
                      /\ \E p \in Point : board'[p] # Empty /\ marked_dead' = Group(board', p)
    <3> SUFFICES ASSUME in_bounds'
                 PROVE  /\ ~torn'
                        /\ \E p \in Point : board'[p] # Empty /\ marked_dead' = Group(board', p)
      OBVIOUS
    <3>1. in_bounds /\ co \in Point
      BY DEF MarkDead, Given
    <3>2. ~torn
      BY <3>1 DEF IInv, RequestsConsistent
    <3>3. board'[co] # Empty /\ marked_dead' = Group(board', co)
      BY <1>1, <1>2, <3>1, <3>2, CoordinatesName
    <3> QED
      BY <1>1, <3>1, <3>2, <3>3
  <2>3. /\ status' = "request_pending" /\ marked_dead' # {}
        /\ pending_request' = [type |-> "mark_dead", initiator |-> c]
    BY <1>1, <1>2 DEF MarkDead, Ask
  <2> QED
    BY <2>1, <2>2, <2>3 DEF RequestsConsistent, NoRequest
<1>5. MarksAreStones'
  BY <1>1, <1>2 DEF IInv, MarksAreStones
<1>6. UNCHANGED <<turn, board, prisoners, torn>>
  BY DEF MarkDead, Ask
<1> QED
  BY <1>0, <1>3, <1>4, <1>5, <1>6, QuietAction DEF IInv, MarkDead

\* The assertion of _mark_dead fails only for a coordinate that is no point of
\* the board, or after one was given.
LEMMA MarkDeadHalfIInv ==
    ASSUME IInv, NEW co \in Coordinate, MarkDeadHalf(co)
    PROVE  IInv'
<1>0. board \in Board
  BY DEF IInv, TypeOK
<1>1. /\ Reached(co) \subseteq Point
      /\ \A p \in Reached(co) : board[p] = board[At(co)]
      /\ co \in Point => ~ReachedTwice(co)
  BY <1>0, ReachedStones
<1>2. /\ status = "endgame" /\ board[At(co)] # Empty /\ torn'
      /\ Reached(co) \cap marked_dead # {} \/ ReachedTwice(co)
      /\ in_bounds' = (in_bounds /\ co \in Point)
      /\ UNCHANGED <<status, turn, action_stack, board, counts_for, prisoners, territory,
                     pending_request, result, prev_board, last_placement>>
  BY DEF MarkDeadHalf, Given
<1>3. PICK M \in SUBSET (Reached(co) \ marked_dead) : marked_dead' = marked_dead \cup M
  BY DEF MarkDeadHalf
<1>4. pending_request = NoRequest /\ (~torn => marked_dead = {}) /\ (in_bounds => ~torn)
  BY <1>2 DEF IInv, RequestsConsistent, NoRequest
<1>5. ~in_bounds'
  BY <1>1, <1>2, <1>4
<1>6. TypeOK'
  BY <1>1, <1>2, <1>3, <1>5 DEF IInv, TypeOK, MarkDeadHalf
<1>7. RequestsConsistent'
  BY <1>2, <1>4, <1>5 DEF RequestsConsistent, NoRequest
<1>8. MarksAreStones'
  BY <1>1, <1>2, <1>3 DEF IInv, MarksAreStones
<1>9. TurnsAlternate'
  BY <1>2 DEF IInv, TurnsAlternate
<1>10. StonesConserved'
  BY <1>2 DEF IInv, StonesConserved
<1> QED
  BY <1>6, <1>7, <1>8, <1>9, <1>10 DEF IInv

\* Whatever count_and_clear has done when it raises, it has not been over all
\* marked stones.
LEMMA ScannedNotAll ==
    ASSUME IInv, ~OneColor
    PROVE  marked_dead \ Scanned # {} /\ Scanned \subseteq marked_dead
<1>1. PICK p \in marked_dead, q \in marked_dead : board[p] # board[q]
  BY DEF OneColor
<1>2. p \in Point /\ q \in Point
  BY DEF IInv, TypeOK
<1>3. ~(Before(p, q) /\ Before(q, p))
  <2>1. p[1] \in Int /\ p[2] \in Int /\ q[1] \in Int /\ q[2] \in Int
    BY <1>2, SizeAssumption DEF Point
  <2> QED
    BY <2>1 DEF Before
<1>4. p \notin Scanned \/ q \notin Scanned
  BY <1>1, <1>3 DEF Scanned
<1> QED
  BY <1>1, <1>4 DEF Scanned

\* The exception of count_and_clear leaves the request pending, with stones
\* marked, and is out of reach while all coordinates are points of the board.
LEMMA AnswerRaisesIInv ==
    ASSUME IInv, NEW c \in Color, NEW type, AnswerRaises(c, type)
    PROVE  IInv'
<1>1. /\ ~OneColor /\ status = "request_pending" /\ pending_request.type = "mark_dead"
      /\ marked_dead' = marked_dead \ Scanned /\ torn'
      /\ UNCHANGED <<status, turn, action_stack, counts_for, prisoners, territory,
                     pending_request, result, prev_board, in_bounds>>
  BY DEF AnswerRaises
<1>2. \/ board' = Remove(board, Scanned) /\ last_placement' = NoPlacement
      \/ UNCHANGED <<board, last_placement>>
  BY DEF AnswerRaises
<1>3. ~in_bounds'
  BY <1>1, InBoundsOneColor DEF IInv
<1>4. board \in Board /\ board' \in Board
  BY <1>2, RemoveType DEF IInv, TypeOK
<1>5. TypeOK'
  BY <1>1, <1>2, <1>3, <1>4 DEF IInv, TypeOK
<1>6. RequestsConsistent'
  BY <1>1, <1>3, ScannedNotAll DEF IInv, RequestsConsistent, NoRequest
<1>7. MarksAreStones'
  <2>1. ASSUME NEW p \in marked_dead \ Scanned PROVE board'[p] = board[p]
    BY <1>2, <2>1 DEF IInv, TypeOK, Remove
  <2> QED
    BY <1>1, <2>1 DEF IInv, MarksAreStones
<1>8. TurnsAlternate'
  BY <1>1 DEF IInv, TurnsAlternate
<1>9. StonesConserved'
  <2>1. ASSUME NEW d \in Color PROVE Surplus(d)' <= Surplus(d)
    <3>1. Holding(board', d) \subseteq Holding(board, d)
      BY <1>2, Colors DEF Holding, Remove
    <3>2. IsFiniteSet(Holding(board, d))
      BY PointsFinite DEF Holding
    <3>3. Cardinality(Holding(board', d)) <= Cardinality(Holding(board, d))
      BY <3>1, <3>2, FS_Subset
    <3>4. Cardinality(Holding(board', d)) \in Nat /\ Cardinality(Holding(board, d)) \in Nat
      BY PointsFinite DEF Holding
    <3>5. prisoners[inverse(d)] \in Nat /\ action_stack.placed[d] \in Nat
      BY SurplusType DEF IInv
    <3> QED
      BY <1>1, <3>3, <3>4, <3>5 DEF Surplus
  <2> QED
    BY <1>1, <1>5, <2>1, SurplusKept
<1> QED
  BY <1>5, <1>6, <1>7, <1>8, <1>9 DEF IInv

\* The four answers after which the stones are where they were.
LEMMA QuietAnswerIInv ==
    ASSUME IInv, NEW c \in Color,
           RejectMarkDead(c) \/ AcceptDraw(c) \/ RejectDraw(c) \/ RejectTallyScore(c)
    PROVE  IInv'
<1>1. PICK type \in {"accept", "reject"} : Push(type, c)
  BY DEF RejectMarkDead, AcceptDraw, RejectDraw, RejectTallyScore, Respond
<1>2. type \in ActionType \ {"place_stone", "pass_turn"}
  BY DEF ActionType
<1>3. UNCHANGED <<turn, board, prisoners, prev_board, counts_for, territory, history>>
      /\ pending_request' = NoRequest
  BY DEF RejectMarkDead, AcceptDraw, RejectDraw, RejectTallyScore, Respond, ClearRequest, history
<1>4. /\ status' \in GameStatus \ {"request_pending"} /\ result' \in Result \cup {NoResult}
      /\ marked_dead' \subseteq marked_dead
      /\ marked_dead' = {} \/ status' = "endgame"
      /\ ~torn => marked_dead' = {}
  <2>1. /\ pending_request.type = "draw" => marked_dead = {}
        /\ pending_request.type # "mark_dead" /\ ~torn => marked_dead = {}
    BY DEF IInv, RequestsConsistent
  <2>2. result \in Result \cup {NoResult}
    BY DEF IInv, TypeOK
  <2> QED
    BY <2>1, <2>2 DEF RejectMarkDead, AcceptDraw, RejectDraw, RejectTallyScore, Respond,
        GameStatus, Result, ResultType
<1>5. TypeOK'
  BY <1>1, <1>2, <1>3, <1>4, PushCounts DEF IInv, TypeOK, history
<1>6. RequestsConsistent' /\ MarksAreStones'
  <2>1. in_bounds => ~torn
    BY DEF IInv, RequestsConsistent
  <2> QED
    BY <1>3, <1>4, <2>1 DEF IInv, RequestsConsistent, NoRequest, MarksAreStones, history
<1> QED
  BY <1>1, <1>2, <1>3, <1>5, <1>6, QuietAction DEF IInv, history

\* Agreeing to count ends the game.
LEMMA AcceptTallyScoreIInv ==
    ASSUME IInv, NEW c \in Color, AcceptTallyScore(c)
    PROVE  IInv'
<1>0. "accept" \in ActionType \ {"place_stone", "pass_turn"}
  BY DEF ActionType
<1>1. (~torn => marked_dead = {}) /\ (in_bounds => ~torn)
  BY DEF IInv, RequestsConsistent, AcceptTallyScore, Respond
<1>2. counts_for' \in [Point -> Color \cup {Empty}]
  BY CountsForType DEF AcceptTallyScore, IInv, TypeOK
<1>3. territory' \in [Color -> Nat]
  <2>1. \A k \in Color : Cardinality(Holding(counts_for', k)) \in Nat
    BY PointsFinite DEF Holding
  <2> QED
    BY <2>1 DEF AcceptTallyScore, IInv, TypeOK
<1>4. result' \in Result
  <2>1. \A w, b : Winner(w, b) \in Color \cup {"none"}
    BY DEF Winner, Color
  <2> QED
    BY <2>1 DEF AcceptTallyScore, Result, ResultType
<1>5. UNCHANGED <<turn, board, prisoners, prev_board, marked_dead, history>>
      /\ status' = "complete" /\ pending_request' = NoRequest /\ Push("accept", c)
  BY DEF AcceptTallyScore, Respond, ClearRequest, history
<1>6. TypeOK'
  BY <1>0, <1>2, <1>3, <1>4, <1>5, PushCounts DEF IInv, TypeOK, GameStatus, history
<1>7. RequestsConsistent' /\ MarksAreStones'
  BY <1>1, <1>5 DEF IInv, RequestsConsistent, NoRequest, MarksAreStones, history
<1> QED
  BY <1>0, <1>5, <1>6, <1>7, QuietAction DEF IInv, history

\* The marked stones are all of one colour, and its opponent takes them.
LEMMA AcceptMarkDeadIInv ==
    ASSUME IInv, NEW c \in Color, AcceptMarkDead(c)
    PROVE  IInv'
<1>0. "accept" \in ActionType
  BY DEF ActionType
<1>d. PICK d \in Color : d = MarkedColor /\ marked_dead \subseteq Holding(board, d)
  <2>1. marked_dead # {} /\ OneColor /\ marked_dead \subseteq Point
    BY DEF IInv, TypeOK, RequestsConsistent, AcceptMarkDead, Respond
  <2>2. PICK p \in marked_dead : p = CHOOSE q \in marked_dead : TRUE
    BY <2>1
  <2>3. MarkedColor = board[p] /\ board[p] \in Color
    BY <2>1, <2>2 DEF MarkedColor, IInv, TypeOK, Board, MarksAreStones
  <2> QED
    BY <2>1, <2>3 DEF OneColor, Holding
<1>1. d \in Color /\ marked_dead \subseteq Holding(board, d)
  BY <1>d
<1>2. prisoners' = [prisoners EXCEPT ![inverse(d)] = @ + Cardinality(marked_dead)]
      /\ board' = Remove(board, marked_dead)
  BY <1>d DEF AcceptMarkDead, TakerOf
<1>3. board \in Board /\ prisoners \in [Color -> Nat]
  BY DEF IInv, TypeOK
<1>4. board' \in Board /\ prisoners' \in [Color -> Nat]
  <2>1. Cardinality(marked_dead) \in Nat
    BY <1>1, <1>3, RemoveCounts
  <2>2. board' \in Board
    BY <1>2, <1>3, RemoveType
  <2>3. inverse(d) \in Color
    BY <1>1, Colors
  <2>4. prisoners[inverse(d)] + Cardinality(marked_dead) \in Nat
    BY <1>3, <2>1, <2>3
  <2>5. prisoners' \in [Color -> Nat]
    BY <1>2, <1>3, <2>4
  <2> QED
    BY <2>2, <2>5
<1>5. /\ UNCHANGED <<turn, prev_board, counts_for, territory, result, in_bounds, torn>>
      /\ status' = "endgame" /\ pending_request' = NoRequest /\ Push("accept", c)
      /\ marked_dead' = {} /\ last_placement' = NoPlacement
  BY DEF AcceptMarkDead, Respond, ClearRequest
<1>6. TypeOK'
  BY <1>0, <1>4, <1>5, PushCounts DEF IInv, TypeOK, GameStatus
<1>7. RequestsConsistent' /\ MarksAreStones'
  BY <1>5 DEF IInv, RequestsConsistent, NoRequest, MarksAreStones
<1>8. Moves' = Moves /\ \A e \in Color : action_stack'.placed[e] = action_stack.placed[e]
  <2>1. \A e \in Color : action_stack.placed[e] \in Nat
    BY DEF IInv, TypeOK
  <2> QED
    BY <1>0, <1>5, <2>1, PushCounts
<1>9. TurnsAlternate'
  BY <1>5, <1>8 DEF IInv, TurnsAlternate, Moves
<1>10. StonesConserved'
  <2>1. inverse(d) \in Color /\ inverse(d) # d /\ inverse(inverse(d)) = d
        /\ \A e \in Color : e = d \/ e = inverse(d)
    BY <1>1, Colors
  <2>2. /\ prisoners'[inverse(d)] = prisoners[inverse(d)] + Cardinality(marked_dead)
        /\ prisoners'[d] = prisoners[d]
        /\ prisoners[inverse(d)] \in Nat /\ prisoners[d] \in Nat
    BY <1>1, <1>2, <1>3, <2>1
  <2>3. \A e \in Color : action_stack.placed[e] \in Nat
    BY DEF IInv, TypeOK
  <2>4. Surplus(d)' = Surplus(d)
    BY <1>1, <1>2, <1>3, <1>8, <2>2, <2>3, RemoveCounts DEF Surplus
  <2>5. Surplus(inverse(d))' = Surplus(inverse(d))
    BY <1>1, <1>2, <1>3, <1>8, <2>1, <2>2, <2>3, RemoveCounts DEF Surplus
  <2>6. \A e \in Color : Surplus(e)' = Surplus(e)
    BY <2>1, <2>4, <2>5
  <2> QED
    BY <1>5, <1>6, <2>6, SurplusKept
<1> QED
  BY <1>6, <1>7, <1>9, <1>10 DEF IInv

\* Every step keeps the inductive invariant.
LEMMA NextIInv == IInv /\ [Next]_vars => IInv'
<1> SUFFICES ASSUME IInv, [Next]_vars PROVE IInv'
  OBVIOUS
<1>1. ASSUME NEW c \in Color, NEW co \in Coordinate, PlaceStone(c, co) PROVE IInv'
  BY <1>1, PlaceStoneIInv
<1>2. ASSUME NEW c \in Color, NEW co \in Coordinate, MarkDead(c, co) PROVE IInv'
  BY <1>2, MarkDeadIInv
<1>3. ASSUME NEW co \in Coordinate, MarkDeadHalf(co) PROVE IInv'
  BY <1>3, MarkDeadHalfIInv
<1>4. ASSUME NEW c \in Color, PassTurn(c) PROVE IInv'
  BY <1>4, PassTurnIInv
<1>5. ASSUME NEW c \in Color, Resign(c) PROVE IInv'
  BY <1>5, ResignIInv
<1>6. ASSUME NEW c \in Color, RequestDraw(c) PROVE IInv'
  BY <1>6, RequestDrawIInv
<1>7. ASSUME NEW c \in Color, RequestTallyScore(c) PROVE IInv'
  BY <1>7, RequestTallyScoreIInv
<1>8. ASSUME NEW c \in Color, AcceptMarkDead(c) PROVE IInv'
  BY <1>8, AcceptMarkDeadIInv
<1>9. ASSUME NEW c \in Color, AcceptTallyScore(c) PROVE IInv'
  BY <1>9, AcceptTallyScoreIInv
<1>10. ASSUME NEW c \in Color,
              RejectMarkDead(c) \/ AcceptDraw(c) \/ RejectDraw(c) \/ RejectTallyScore(c)
       PROVE IInv'
  BY <1>10, QuietAnswerIInv
<1>11. ASSUME NEW c \in Color, AnswerRaises(c, "accept") \/ AnswerRaises(c, "reject")
       PROVE IInv'
  BY <1>11, AnswerRaisesIInv
<1>12. CASE UNCHANGED vars
  BY <1>12 DEF vars, history, IInv, TypeOK, RequestsConsistent, MarksAreStones, OneColor,
               TurnsAlternate, StonesConserved
<1> QED
  BY <1>1, <1>2, <1>3, <1>4, <1>5, <1>6, <1>7, <1>8, <1>9, <1>10, <1>11, <1>12
     DEF Next, NextOver

\* The inductive invariant holds in every game.
LEMMA Inductive == Spec => []IInv
BY InitIInv, NextIInv, PTL DEF Spec

\* The attributes of a game keep their ranges, on a board of any size.
THEOREM TypeCorrect == Spec => []TypeOK
BY Inductive, PTL DEF IInv

\* The status, the pending request and the marked stones agree; as long as the
\* coordinates are points of the board _respond_mark_dead never raises, and
\* with any coordinates at all it never finds no stone to remove.
THEOREM RequestsAreConsistent == Spec => []RequestsConsistent
BY Inductive, PTL DEF IInv

\* Black and white alternate, whatever requests come in between.
THEOREM TurnsDoAlternate == Spec => []TurnsAlternate
BY Inductive, PTL DEF IInv

\* Every stone placed is on the board or one prisoner of the opponent.
THEOREM StonesAreConserved == Spec => []StonesConserved
BY Inductive, PTL DEF IInv

-----------------------------------------------------------------------------

\* What EndsByAgreement says of one step.
LEMMA StepEnds ==
    ASSUME IInv, Next
    PROVE  /\ status # "complete"
           /\ status' = "complete" =>
                \/ status = "play" /\ result'.type = "resignation"
                \/ /\ pending_request.type \in {"draw", "tally_score"}
                   /\ action_stack'.last = "accept"
<1> DEFINE Ends == /\ status # "complete"
                   /\ status' = "complete" =>
                        \/ status = "play" /\ result'.type = "resignation"
                        \/ /\ pending_request.type \in {"draw", "tally_score"}
                           /\ action_stack'.last = "accept"
<1>1. ASSUME NEW c \in Color, NEW co \in Coordinate,
             PlaceStone(c, co) \/ MarkDead(c, co) \/ MarkDeadHalf(co) PROVE Ends
  BY <1>1 DEF PlaceStone, MarkDead, MarkDeadHalf, Ask
<1>2. ASSUME NEW c \in Color, PassTurn(c) \/ RequestDraw(c) \/ RequestTallyScore(c) PROVE Ends
  BY <1>2 DEF PassTurn, RequestDraw, RequestTallyScore, Ask
<1>3. ASSUME NEW c \in Color, Resign(c) PROVE Ends
  BY <1>3 DEF Resign, MayResign
<1>4. ASSUME NEW c \in Color, AcceptDraw(c) \/ AcceptTallyScore(c) PROVE Ends
  BY <1>4 DEF AcceptDraw, AcceptTallyScore, Respond, Push
<1>5. ASSUME NEW c \in Color, AcceptMarkDead(c) \/ RejectMarkDead(c) \/ RejectDraw(c)
                                \/ RejectTallyScore(c) PROVE Ends
  BY <1>5 DEF AcceptMarkDead, RejectMarkDead, RejectDraw, RejectTallyScore, Respond
<1>6. ASSUME NEW c \in Color, AnswerRaises(c, "accept") \/ AnswerRaises(c, "reject") PROVE Ends
  BY <1>6 DEF AnswerRaises
<1> QED
  BY <1>1, <1>2, <1>3, <1>4, <1>5, <1>6 DEF Next, NextOver

\* A game that is over stays as it is, and ends by resignation or agreement.
THEOREM GamesEndByAgreement == Spec => EndsByAgreement
<1>1. IInv /\ [Next]_vars =>
        [/\ status # "complete"
         /\ status' = "complete" =>
                \/ status = "play" /\ result'.type = "resignation"
                \/ /\ pending_request.type \in {"draw", "tally_score"}
                   /\ action_stack'.last = "accept"]_vars
  BY StepEnds
<1> QED
  BY <1>1, Inductive, PTL DEF Spec, EndsByAgreement

\* What PhasesInOrder says of one step.
LEMMA StepPhases ==
    ASSUME IInv, Next
    PROVE  /\ board' # board => \/ action_stack'.last = "place_stone"
                                \/ /\ action_stack'.last = "accept"
                                   /\ board' = Remove(board, marked_dead)
                                \/ status = "request_pending" /\ torn'
           /\ status = "play" /\ status' = "endgame" =>
                action_stack.last = "pass_turn" /\ action_stack'.last = "pass_turn"
           /\ status = "request_pending" /\ action_stack' # action_stack =>
                status' = IF action_stack'.last = "accept"
                          THEN IF pending_request.type = "mark_dead" THEN "endgame" ELSE "complete"
                          ELSE IF pending_request.type = "tally_score" THEN "endgame" ELSE "play"
<1> DEFINE Moved == board' # board =>
                        \/ action_stack'.last = "place_stone"
                        \/ /\ action_stack'.last = "accept"
                           /\ board' = Remove(board, marked_dead)
                        \/ status = "request_pending" /\ torn'
           Passed == status = "play" /\ status' = "endgame" =>
                        action_stack.last = "pass_turn" /\ action_stack'.last = "pass_turn"
           Answered == status = "request_pending" /\ action_stack' # action_stack =>
                status' = IF action_stack'.last = "accept"
                          THEN IF pending_request.type = "mark_dead" THEN "endgame" ELSE "complete"
                          ELSE IF pending_request.type = "tally_score" THEN "endgame" ELSE "play"
<1>1. ASSUME NEW c \in Color, NEW co \in Coordinate,
             PlaceStone(c, co) \/ MarkDead(c, co) \/ MarkDeadHalf(co)
      PROVE  Moved /\ Passed /\ Answered
  BY <1>1 DEF PlaceStone, MarkDead, MarkDeadHalf, Ask, Push
<1>2. ASSUME NEW c \in Color, PassTurn(c)
      PROVE  Moved /\ Passed /\ Answered
  BY <1>2 DEF PassTurn, SecondPass, Push
<1>3. ASSUME NEW c \in Color, Resign(c) \/ RequestDraw(c) \/ RequestTallyScore(c)
      PROVE  Moved /\ Passed /\ Answered
  BY <1>3 DEF Resign, MayResign, RequestDraw, RequestTallyScore, Ask
<1>4. ASSUME NEW c \in Color, AcceptMarkDead(c) \/ AcceptDraw(c) \/ AcceptTallyScore(c)
      PROVE  Moved /\ Passed /\ Answered
  BY <1>4 DEF AcceptMarkDead, AcceptDraw, AcceptTallyScore, Respond, Push
<1>5. ASSUME NEW c \in Color, RejectMarkDead(c) \/ RejectDraw(c) \/ RejectTallyScore(c)
      PROVE  Moved /\ Passed /\ Answered
  BY <1>5 DEF RejectMarkDead, RejectDraw, RejectTallyScore, Respond, Push
<1>6. ASSUME NEW c \in Color, AnswerRaises(c, "accept") \/ AnswerRaises(c, "reject")
      PROVE  Moved /\ Passed /\ Answered
  BY <1>6 DEF AnswerRaises
<1> QED
  BY <1>1, <1>2, <1>3, <1>4, <1>5, <1>6 DEF Next, NextOver

\* Stones leave the board by placements and agreement only, or in the middle of
\* an answer that raises; two passes in a row lead to the endgame, and an answer
\* leads where the request says.
THEOREM PhasesAreInOrder == Spec => PhasesInOrder
<1>1. IInv /\ [Next]_vars =>
        [/\ board' # board => \/ action_stack'.last = "place_stone"
                              \/ /\ action_stack'.last = "accept"
                                 /\ board' = Remove(board, marked_dead)
                              \/ status = "request_pending" /\ torn'
         /\ status = "play" /\ status' = "endgame" =>
                action_stack.last = "pass_turn" /\ action_stack'.last = "pass_turn"
         /\ status = "request_pending" /\ action_stack' # action_stack =>
                status' = IF action_stack'.last = "accept"
                          THEN IF pending_request.type = "mark_dead"
                               THEN "endgame" ELSE "complete"
                          ELSE IF pending_request.type = "tally_score"
                               THEN "endgame" ELSE "play"]_vars
  BY StepPhases
<1> QED
  BY <1>1, Inductive, PTL DEF Spec, PhasesInOrder

-----------------------------------------------------------------------------
(***************************************************************************)
(* The rules of placement.                                                 *)
(***************************************************************************)
\* The actions that change the board keep the liberties of every group while
\* the coordinates are points: a placement that is not suicide, and the removal
\* of the one marked group.
LEMMA NextLiberties ==
    ASSUME IInv, GroupsHaveLiberties, [Next]_vars
    PROVE  GroupsHaveLiberties'
<1>1. SUFFICES ASSUME in_bounds' PROVE Safe(board')
  BY DEF GroupsHaveLiberties, Safe
<1>2. in_bounds
  <2>1. in_bounds' = in_bounds \/ \E co \in Coordinate : Given(co)
    BY DEF Next, NextOver, PlaceStone, PassTurn, Resign, MarkDead, MarkDeadHalf, RequestDraw,
           RequestTallyScore, AcceptMarkDead, RejectMarkDead, AcceptDraw, RejectDraw,
           AcceptTallyScore, RejectTallyScore, AnswerRaises, Respond, history, vars
  <2> QED
    BY <1>1, <2>1 DEF Given
<1>3. board \in Board /\ Safe(board) /\ OneColor
  BY <1>2, InBoundsOneColor DEF IInv, TypeOK, GroupsHaveLiberties, Safe
<1>4. SUFFICES ASSUME board' # board PROVE Safe(board')
  BY <1>3
<1>5. ASSUME NEW c \in Color, NEW co \in Coordinate, PlaceStone(c, co)
      PROVE  Safe(board')
  <2>1. /\ board' = AfterPlacing(board, co, c) /\ board[At(co)] = Empty
        /\ ~Suicide(board, co, c)
    BY <1>5 DEF PlaceStone, CycleBoards, LegalPlacement
  <2>2. co \in Point
    BY <1>1, <1>5 DEF PlaceStone, Given
  <2> QED
    BY <1>3, <2>1, <2>2, PlacingIsSafe, CoordinatesName
<1>6. ASSUME NEW c \in Color, AcceptMarkDead(c)
      PROVE  Safe(board')
  <2>1. board' = Remove(board, marked_dead)
    BY <1>6 DEF AcceptMarkDead
  <2>2. pending_request.type = "mark_dead"
    BY <1>6 DEF AcceptMarkDead, Respond
  <2>3. PICK p \in Point : marked_dead = Group(board, p)
    BY <1>2, <2>2 DEF IInv, RequestsConsistent
  <2> QED
    BY <1>3, <2>1, <2>3, GroupWhole, RemovalIsSafe
<1>7. \A c \in Color : /\ ~PassTurn(c) /\ ~Resign(c) /\ ~RequestDraw(c)
                       /\ ~RequestTallyScore(c) /\ ~RejectMarkDead(c) /\ ~AcceptDraw(c)
                       /\ ~RejectDraw(c) /\ ~AcceptTallyScore(c) /\ ~RejectTallyScore(c)
                       /\ ~AnswerRaises(c, "accept") /\ ~AnswerRaises(c, "reject")
                       /\ \A co \in Coordinate : ~MarkDead(c, co) /\ ~MarkDeadHalf(co)
  BY <1>3, <1>4 DEF PassTurn, Resign, RequestDraw, RequestTallyScore, RejectMarkDead, AcceptDraw,
              RejectDraw, AcceptTallyScore, RejectTallyScore, AnswerRaises, MarkDead,
              MarkDeadHalf, Ask
<1>8. board' = board \/ Next
  BY DEF vars
<1> QED
  BY <1>4, <1>5, <1>6, <1>7, <1>8 DEF Next, NextOver

\* While the coordinates are points of the board no group on it is ever without
\* a liberty, although _place_stone_base looks only at the groups next to the
\* new stone.
THEOREM GroupsKeepLiberties == Spec => []GroupsHaveLiberties
<1>1. Init => GroupsHaveLiberties
  BY DEF Init, GroupsHaveLiberties, EmptyBoard
<1> QED
  BY <1>1, NextLiberties, Inductive, PTL DEF Spec

-----------------------------------------------------------------------------
(***************************************************************************)
(* The comparison of whole boards.                                         *)
(***************************************************************************)
\* The position that a stone at m was placed on, which captured T: the stone
\* is not there yet, and those it took are.
Undone(b, m, T) ==
    [q \in Point |-> IF q = m THEN Empty ELSE IF q \in T THEN inverse(b[m]) ELSE b[q]]

\* The next placement leads back to that position exactly if it is where the one
\* stone was taken, and takes the one that took it.
LEMMA LeadsBack ==
    ASSUME NEW b \in Board, NEW m \in Point, NEW T \in SUBSET Point, b[m] # Empty,
           \A q \in T : b[q] = Empty,
           NEW co \in Coordinate, NEW c \in Color, b[At(co)] = Empty
    PROVE  AfterPlacing(b, co, c) = Undone(b, m, T)
                <=> T = {At(co)} /\ Captured(b, co, c) = {m}
<1> DEFINE p == At(co)
           D == Captured(b, co, c)
           after == AfterPlacing(b, co, c)
           before == Undone(b, m, T)
<1>1. /\ p \in Point /\ p # m /\ b[p] = Empty
      /\ D \subseteq Point /\ p \notin D /\ \A q \in D : b[q] = inverse(c)
      /\ b[m] \in Color
  BY CapturedHolds, CoordinatesName DEF Holding, Board
<1>2. \A q \in Point : after[q] = IF q \in D THEN Empty ELSE IF q = p THEN c ELSE b[q]
  BY PutChanges DEF AfterPlacing, Remove
<1>3. \A q \in Point : before[q] = IF q = m THEN Empty ELSE IF q \in T THEN inverse(b[m]) ELSE b[q]
  BY DEF Undone
<1>4. after = before <=> \A q \in Point : after[q] = before[q]
  <2>1. after \in Board
    BY AfterPlacingType
  <2>2. after = [q \in Point |-> after[q]] /\ before = [q \in Point |-> before[q]]
    BY <2>1 DEF Undone, Board
  <2> QED
    BY <2>2
<1> HIDE DEF p, D, after, before
<1>5. ASSUME \A q \in Point : after[q] = before[q]
      PROVE  T = {p} /\ D = {m}
  <2>1. p \in T
    BY <1>1, <1>2, <1>3, <1>5, Colors
  <2>2. m \in D
    BY <1>1, <1>2, <1>3, <1>5
  <2>3. ASSUME NEW q \in T PROVE q = p
    <3>1. b[q] = Empty /\ q \in Point /\ q # m
      OBVIOUS
    <3>2. q # p => after[q] = Empty
      BY <1>1, <1>2, <3>1
    <3>3. before[q] = inverse(b[m]) /\ inverse(b[m]) \in Color
      BY <1>1, <1>3, <3>1, Colors
    <3> QED
      BY <1>5, <3>1, <3>2, <3>3, Colors
  <2>4. ASSUME NEW q \in D PROVE q = m
    <3>1. q \in Point /\ b[q] = inverse(c) /\ inverse(c) \in Color /\ after[q] = Empty
      BY <1>1, <1>2, Colors
    <3>2. q \notin T
      BY <3>1, Colors
    <3> QED
      BY <1>3, <1>5, <3>1, <3>2, Colors
  <2> QED
    BY <2>1, <2>2, <2>3, <2>4
<1>6. ASSUME T = {p}, D = {m}, NEW q \in Point
      PROVE  after[q] = before[q]
  <2>1. b[m] = inverse(c) /\ inverse(b[m]) = c
    BY <1>1, <1>6, Colors
  <2> QED
    BY <1>1, <1>2, <1>3, <1>6, <2>1
<1>7. after = before <=> T = {p} /\ D = {m}
  BY <1>4, <1>5, <1>6
<1> QED
  BY <1>7 DEF p, D, after, before

\* prev_board is the position that the last placement was made on.
PrevIsUndone ==
    last_placement # NoPlacement =>
        /\ last_placement \in Placement
        /\ board[last_placement.at] # Empty
        /\ \A q \in last_placement.taken : board[q] = Empty
        /\ prev_board = Undone(board, last_placement.at, last_placement.taken)

\* A placement makes it so.
LEMMA PlacementUndone ==
    ASSUME IInv, NEW c \in Color, NEW co \in Coordinate, PlaceStone(c, co)
    PROVE  PrevIsUndone'
<1> DEFINE m == At(co)
           T == Captured(board, co, c)
<1>1. /\ board \in Board /\ board[m] = Empty /\ prev_board' = board
      /\ board' = AfterPlacing(board, co, c)
      /\ last_placement' = [at |-> m, taken |-> T]
  BY DEF IInv, TypeOK, PlaceStone, CycleBoards, LegalPlacement
<1>2. m \in Point /\ T \subseteq Point /\ m \notin T /\ \A q \in T : board[q] = inverse(c)
  BY <1>1, CapturedHolds, CoordinatesName DEF Holding
<1>3. \A q \in Point : board'[q] = IF q \in T THEN Empty ELSE IF q = m THEN c ELSE board[q]
  BY <1>1, PutChanges DEF AfterPlacing, Remove
<1> HIDE DEF m, T
<1>4. board = [q \in Point |-> board[q]]
  BY <1>1 DEF Board
<1>5. board'[m] = c /\ c # Empty /\ \A q \in T : board'[q] = Empty
  BY <1>2, <1>3, Colors
<1>6. Undone(board', m, T) = board
  BY <1>1, <1>2, <1>3, <1>4, <1>5 DEF Undone
<1>7. last_placement' \in Placement /\ last_placement'.at = m /\ last_placement'.taken = T
  BY <1>1, <1>2 DEF Placement
<1> QED
  BY <1>1, <1>5, <1>6, <1>7 DEF PrevIsUndone

\* It stays so until stones are removed by agreement.
LEMMA NextUndone ==
    ASSUME IInv, PrevIsUndone, [Next]_vars
    PROVE  PrevIsUndone'
<1>1. ASSUME UNCHANGED <<board, prev_board, last_placement>> PROVE PrevIsUndone'
  BY <1>1 DEF PrevIsUndone
<1>2. ASSUME last_placement' = NoPlacement PROVE PrevIsUndone'
  BY <1>2 DEF PrevIsUndone
<1>3. ASSUME NEW c \in Color, NEW co \in Coordinate, PlaceStone(c, co) PROVE PrevIsUndone'
  BY <1>3, PlacementUndone
<1>4. ASSUME NEW c \in Color, NEW co \in Coordinate, MarkDead(c, co) \/ MarkDeadHalf(co)
      PROVE  PrevIsUndone'
  BY <1>1, <1>4 DEF MarkDead, MarkDeadHalf, Ask
<1>5. ASSUME NEW c \in Color,
             PassTurn(c) \/ Resign(c) \/ RequestDraw(c) \/ RequestTallyScore(c)
      PROVE  PrevIsUndone'
  BY <1>1, <1>5 DEF PassTurn, Resign, RequestDraw, RequestTallyScore, Ask, history
<1>6. ASSUME NEW c \in Color, \/ RejectMarkDead(c) \/ AcceptDraw(c) \/ RejectDraw(c)
                              \/ AcceptTallyScore(c) \/ RejectTallyScore(c)
      PROVE  PrevIsUndone'
  BY <1>1, <1>6 DEF RejectMarkDead, AcceptDraw, RejectDraw, AcceptTallyScore,
                    RejectTallyScore, Respond
<1>7. ASSUME NEW c \in Color,
             AcceptMarkDead(c) \/ AnswerRaises(c, "accept") \/ AnswerRaises(c, "reject")
      PROVE  PrevIsUndone'
  BY <1>1, <1>2, <1>7 DEF AcceptMarkDead, AnswerRaises
<1>8. CASE UNCHANGED vars
  BY <1>1, <1>8 DEF vars, history
<1> QED
  BY <1>3, <1>4, <1>5, <1>6, <1>7, <1>8 DEF Next, NextOver

\* As long as nothing is removed by agreement, comparing whole boards refuses
\* exactly the placements that take a ko back at once: on a board of any size,
\* and whatever passes and requests come in between.
THEOREM OnlyKoIsRefused == Spec => []KoIsRetaking
<1>1. Init => PrevIsUndone
  BY DEF Init, PrevIsUndone
<1>2. Spec => []PrevIsUndone
  BY <1>1, NextUndone, Inductive, PTL DEF Spec
<1>3. IInv /\ PrevIsUndone => KoIsRetaking
  <2> SUFFICES ASSUME IInv, PrevIsUndone, last_placement # NoPlacement,
                      NEW co \in Coordinate, board[At(co)] = Empty,
                      ~Suicide(board, co, turn)
               PROVE  LegalPlacement(board, prev_board, co, turn) <=> ~Retakes(co)
    BY DEF KoIsRetaking
  <2> DEFINE m == last_placement.at
             T == last_placement.taken
  <2>1. /\ m \in Point /\ T \in SUBSET Point /\ board[m] # Empty
        /\ \A q \in T : board[q] = Empty
        /\ prev_board = Undone(board, m, T)
    BY DEF PrevIsUndone, Placement
  <2>2. board \in Board /\ turn \in Color
    BY DEF IInv, TypeOK
  <2> HIDE DEF m, T
  <2>3. AfterPlacing(board, co, turn) = prev_board
            <=> T = {At(co)} /\ Captured(board, co, turn) = {m}
    BY <2>1, <2>2, LeadsBack
  <2> QED
    BY <2>3 DEF LegalPlacement, Retakes, m, T
<1> QED
  BY <1>2, <1>3, Inductive, PTL

-----------------------------------------------------------------------------
(***************************************************************************)
(* The result.                                                             *)
(***************************************************************************)
\* While the game goes on nothing counts for anybody.
LEMMA NothingCounted ==
    ASSUME ResultConsistent, status # "complete"
    PROVE  /\ result = NoResult
           /\ \A p \in Point : counts_for[p] = Empty
           /\ \A c \in Color : territory[c] = 0
<1>1. result = NoResult /\ \A p \in Point : counts_for[p] = Empty
  BY DEF ResultConsistent
<1>2. \A c \in Color : Holding(counts_for, c) = {}
  BY <1>1, Colors DEF Holding
<1> QED
  BY <1>1, <1>2, FS_EmptySet DEF ResultConsistent

\* The score is tallied from nothing, and the winner has the more of it.
LEMMA TallyResult ==
    ASSUME IInv, ResultConsistent, status # "complete",
           NEW c \in Color, AcceptTallyScore(c)
    PROVE  ResultConsistent'
<1>1. /\ counts_for' = CountsFor(board) /\ board' = board /\ prisoners' = prisoners
      /\ status' = "complete"
      /\ territory' = [k \in Color |->
                        territory[k] + Cardinality(Holding(counts_for', k))]
  BY DEF AcceptTallyScore
<1> DEFINE white == TwiceScore("white", prisoners, territory')
           black == TwiceScore("black", prisoners, territory')
<1>2. result' = [type |-> IF Winner(white, black) = "none" THEN "draw" ELSE "standard_win",
                 winner |-> Winner(white, black)]
  BY DEF AcceptTallyScore
<1>3. \A k \in Color : /\ territory'[k] = Cardinality(Holding(counts_for', k))
                       /\ territory'[k] \in Nat
  <2>1. \A k \in Color : Cardinality(Holding(counts_for', k)) \in Nat
    BY PointsFinite DEF Holding
  <2> QED
    BY <1>1, <2>1, NothingCounted
<1>4. white \in Int /\ black \in Int
  BY <1>3, KomiAssumption DEF TwiceScore, IInv, TypeOK, Color
<1>5. \A p \in Point : counts_for'[p] # Empty => board'[p] = Empty
  BY <1>1 DEF CountsFor
<1>6. result'.type = "standard_win" =>
        TwiceScore(result'.winner, prisoners', territory')
            > TwiceScore(inverse(result'.winner), prisoners', territory')
  <2> HIDE DEF white, black
  <2>1. CASE white > black
    <3>1. result'.winner = "white"
      BY <1>2, <2>1 DEF Winner
    <3> QED
      BY <1>1, <2>1, <3>1 DEF white, black, inverse
  <2>2. CASE black > white
    <3>1. result'.winner = "black"
      BY <1>2, <1>4, <2>2 DEF Winner
    <3> QED
      BY <1>1, <2>2, <3>1 DEF white, black, inverse
  <2>3. CASE ~(white > black) /\ ~(black > white)
    BY <1>2, <2>3 DEF Winner
  <2> QED
    BY <2>1, <2>2, <2>3
<1>7. result'.type \in {"draw", "standard_win"}
  BY <1>2
<1> QED
  BY <1>1, <1>3, <1>5, <1>6, <1>7 DEF ResultConsistent, NoResult

\* Every step keeps the result consistent.
LEMMA NextResult ==
    ASSUME IInv, ResultConsistent, [Next]_vars
    PROVE  ResultConsistent'
<1>1. CASE UNCHANGED vars
  BY <1>1 DEF vars, ResultConsistent
<1>2. CASE Next
  <2>0. status # "complete"
    BY <1>2, StepEnds
  <2>1. ASSUME status' # "complete", UNCHANGED <<counts_for, territory, result>>
        PROVE  ResultConsistent'
    BY <2>0, <2>1, NothingCounted DEF ResultConsistent, NoResult
  <2>2. ASSUME status' = "complete", UNCHANGED <<counts_for, territory>>,
               result'.type \in {"draw", "resignation"}
        PROVE  ResultConsistent'
    BY <2>0, <2>2, NothingCounted DEF ResultConsistent, NoResult
  <2>3. ASSUME NEW c \in Color, NEW co \in Coordinate,
               PlaceStone(c, co) \/ MarkDead(c, co) \/ MarkDeadHalf(co)
        PROVE  ResultConsistent'
    BY <2>0, <2>1, <2>3 DEF PlaceStone, MarkDead, MarkDeadHalf, Ask
  <2>4. ASSUME NEW c \in Color, PassTurn(c) \/ RequestDraw(c) \/ RequestTallyScore(c)
        PROVE  ResultConsistent'
    BY <2>1, <2>4 DEF PassTurn, RequestDraw, RequestTallyScore, Ask
  <2>5. ASSUME NEW c \in Color, Resign(c) \/ AcceptDraw(c)
        PROVE  ResultConsistent'
    BY <2>2, <2>5 DEF Resign, AcceptDraw
  <2>6. ASSUME NEW c \in Color, \/ AcceptMarkDead(c) \/ RejectMarkDead(c)
                                \/ RejectDraw(c) \/ RejectTallyScore(c)
        PROVE  ResultConsistent'
    BY <2>1, <2>6 DEF AcceptMarkDead, RejectMarkDead, RejectDraw, RejectTallyScore
  <2>7. ASSUME NEW c \in Color, AcceptTallyScore(c)
        PROVE  ResultConsistent'
    BY <2>0, <2>7, TallyResult
  <2>8. ASSUME NEW c \in Color, AnswerRaises(c, "accept") \/ AnswerRaises(c, "reject")
        PROVE  ResultConsistent'
    BY <2>0, <2>1, <2>8 DEF AnswerRaises
  <2> QED
    BY <1>2, <2>3, <2>4, <2>5, <2>6, <2>7, <2>8 DEF Next, NextOver
<1> QED
  BY <1>1, <1>2

\* A game has a result exactly when it is over; territory is what
\* counts_for assigns, and the winner of a tally has the higher score, for
\* every komi.
THEOREM ResultIsConsistent == Spec => []ResultConsistent
<1>1. Init => ResultConsistent
  <2> SUFFICES ASSUME Init PROVE ResultConsistent
    OBVIOUS
  <2>1. \A c \in Color : Holding(counts_for, c) = {}
    BY Colors DEF Init, Holding
  <2> QED
    BY <2>1, FS_EmptySet DEF Init, ResultConsistent, NoResult
<1> QED
  BY <1>1, NextResult, Inductive, PTL DEF Spec
=============================================================================
