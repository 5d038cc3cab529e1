-------------------------------- MODULE Game --------------------------------
(***************************************************************************)
(* The state machine of igo/game.py's Game: one action per ActionType that *)
(* Game.take_action dispatches to.  An action that the code refuses, with   *)
(* (False, message) or with an AssertionError, leaves the game as it was    *)
(* and is a stuttering step.  Two exceptions are raised half-way: that of   *)
(* _mark_dead when it gets to a point that is marked already, and that of   *)
(* count_and_clear when marked stones differ in colour.  They are actions   *)
(* of their own.  Only coordinates that are no points of the board lead to  *)
(* them, and nothing in the code keeps such coordinates out.               *)
(*                                                                         *)
(* Of action_stack the rules read only its length (Game.version) and the   *)
(* type of its last action; the numbers of placements by each colour and   *)
(* of passes are kept for the properties.  Timestamps are left out: they    *)
(* can only make take_action refuse.                                       *)
(***************************************************************************)
EXTENDS GoBoard

CONSTANTS
    TwiceKomi,      \* komi is a multiple of one half; scores are doubled
    MaxActions      \* bound on the length of action_stack

ASSUME KomiAssumption == TwiceKomi \in Int
ASSUME MaxActionsAssumption == MaxActions \in Nat

VARIABLES
    status,             \* GameStatus
    turn,               \* whose turn it is
    action_stack,       \* what is kept of the actions taken
    board,              \* the colours on the board
    marked_dead,        \* the points whose marked_dead is set
    counts_for,         \* Point.counts_for, Empty for None
    prisoners,          \* prisoners taken by each colour
    territory,          \* territory of each colour
    pending_request,    \* the pending Request, or NoRequest
    result,             \* the Result, or NoResult
    prev_board          \* the position before the last placement, or NoBoard

\* What has happened so far; only the properties read it.
VARIABLES
    in_bounds,          \* every coordinate given was a point of the board
    torn,               \* an exception left an action half done
    last_placement      \* the last placement while nothing was removed since,
                        \* or NoPlacement

history == <<in_bounds, torn, last_placement>>
vars == <<status, turn, action_stack, board, marked_dead, counts_for,
          prisoners, territory, pending_request, result, prev_board, history>>

GameStatus == {"play", "endgame", "complete", "request_pending"}
RequestType == {"mark_dead", "draw", "tally_score"}
ResultType == {"standard_win", "draw", "resignation"}
ActionType == {"place_stone", "pass_turn", "mark_dead", "request_draw",
               "resign", "request_tally_score", "accept", "reject"}

Request == [type : RequestType, initiator : Color]
NoRequest == [type |-> "none", initiator |-> "none"]
Result == [type : ResultType, winner : Color \cup {"none"}]
NoResult == [type |-> "none", winner |-> "none"]
Placement == [at : Point, taken : SUBSET Point]
NoPlacement == [at |-> << >>, taken |-> {}]

Init ==
    /\ status = "play"
    /\ turn = "black"
    /\ action_stack = [version |-> 0, last |-> "none",
                       placed |-> [c \in Color |-> 0], passes |-> 0]
    /\ board = EmptyBoard
    /\ marked_dead = {}
    /\ counts_for = [p \in Point |-> Empty]
    /\ prisoners = [c \in Color |-> 0]
    /\ territory = [c \in Color |-> 0]
    /\ pending_request = NoRequest
    /\ result = NoResult
    /\ prev_board = NoBoard
    /\ in_bounds = TRUE
    /\ torn = FALSE
    /\ last_placement = NoPlacement

\* The end of take_action: an action that succeeded goes on the stack.
Push(type, c) ==
    /\ action_stack.version < MaxActions
    /\ action_stack' =
        [version |-> action_stack.version + 1,
         last |-> type,
         placed |-> IF type = "place_stone"
                    THEN [action_stack.placed EXCEPT ![c] = @ + 1]
                    ELSE action_stack.placed,
         passes |-> action_stack.passes + (IF type = "pass_turn" THEN 1 ELSE 0)]

Given(co) == in_bounds' = (in_bounds /\ co \in Point)

-----------------------------------------------------------------------------
\* The new position comes in, and the one it replaces is kept for the ko test.
CycleBoardsTwice(new) == prev_board' = new /\ board' = new      \* mutant

CycleBoards(new) == prev_board' = board /\ board' = new

PlaceStone(c, co) ==
    /\ status = "play"
    /\ c = turn
    /\ LegalPlacement(board, prev_board, co, c)
    /\ Push("place_stone", c)
    /\ CycleBoards(AfterPlacing(board, co, c))
    /\ prisoners' = [prisoners EXCEPT ![c] = @ + Cardinality(Captured(board, co, c))]
    /\ turn' = inverse(turn)
    /\ Given(co)
    /\ last_placement' = [at |-> At(co), taken |-> Captured(board, co, c)]
    /\ UNCHANGED <<status, marked_dead, counts_for, territory, pending_request, result, torn>>

\* Both players passed in succession.
SomeonePassed == action_stack.passes > 0                        \* mutant

SecondPass == action_stack.last = "pass_turn"

\* mutant: the turn stays when the endgame commences
TurnAfterPass == IF SecondPass THEN turn ELSE inverse(turn)

NextTurn == inverse(turn)

PassTurn(c) ==
    /\ status = "play"
    /\ c = turn
    /\ Push("pass_turn", c)
    /\ status' = IF SecondPass THEN "endgame" ELSE status
    /\ turn' = NextTurn
    /\ UNCHANGED <<board, marked_dead, counts_for, prisoners, territory,
                   pending_request, result, prev_board, history>>

MayResignUntilOver == status # "complete"                       \* mutant

MayResign == status = "play"

Resign(c) ==
    /\ MayResign
    /\ Push("resign", c)
    /\ status' = "complete"
    /\ result' = [type |-> "resignation", winner |-> inverse(c)]
    /\ UNCHANGED <<turn, board, marked_dead, counts_for, prisoners, territory,
                   pending_request, prev_board, history>>

\* What the three kinds of request have in common.
Ask(type, c) ==
    /\ status' = "request_pending"
    /\ pending_request' = [type |-> type, initiator |-> c]
    /\ UNCHANGED <<turn, board, counts_for, prisoners, territory, result,
                   prev_board, torn, last_placement>>

\* The points that the loop of _mark_dead gets to, and whether it gets to one
\* by two names.
Reached(co) == {At(q) : q \in Gathered(board, co)}
ReachedTwice(co) == co \notin Point /\ At(co) \in Gathered(board, co)

MarkDead(c, co) ==
    /\ status = "endgame"
    /\ board[At(co)] # Empty
    /\ Reached(co) \cap marked_dead = {} /\ ~ReachedTwice(co)
    /\ Push("mark_dead", c)
    /\ marked_dead' = marked_dead \cup Reached(co)
    /\ Given(co)
    /\ Ask("mark_dead", c)

\* The assertion that a point is not marked yet fails after some were marked:
\* they stay marked and nothing is requested.
MarkDeadHalf(co) ==
    LET reached == Reached(co)
    IN  /\ status = "endgame"
        /\ board[At(co)] # Empty
        /\ reached \cap marked_dead # {} \/ ReachedTwice(co)
        /\ \E M \in SUBSET (reached \ marked_dead) \ {{}} :
               /\ At(co) \in M \/ reached \cap marked_dead # {}
               /\ marked_dead' = marked_dead \cup M
        /\ Given(co)
        /\ torn' = TRUE
        /\ UNCHANGED <<status, turn, action_stack, board, counts_for, prisoners, territory,
                       pending_request, result, prev_board, last_placement>>

RequestDraw(c) ==
    /\ status = "play"
    /\ c = turn
    /\ Push("request_draw", c)
    /\ Ask("draw", c)
    /\ UNCHANGED <<marked_dead, in_bounds>>

RequestTallyScore(c) ==
    /\ status = "endgame"
    /\ Push("request_tally_score", c)
    /\ Ask("tally_score", c)
    /\ UNCHANGED <<marked_dead, in_bounds>>

-----------------------------------------------------------------------------
\* Game._respond: only the other player may answer, and the answer clears
\* the request.
KeepRequest == pending_request' = pending_request               \* mutant

ClearRequest == pending_request' = NoRequest

Respond(type, c, request) ==
    /\ status = "request_pending"
    /\ pending_request.type = request
    /\ pending_request.initiator # c
    /\ Push(type, c)
    /\ ClearRequest
    /\ UNCHANGED <<turn, prev_board, in_bounds, torn>>

\* count_and_clear finds the colour of the marked stones by scanning for them.
OwnPrisoners(color) == color                                    \* mutant

TakerOf(color) == inverse(color)

MarkedColor == board[CHOOSE p \in marked_dead : TRUE]
OneColor == \A p, q \in marked_dead : board[p] = board[q]

AcceptMarkDead(c) ==
    /\ OneColor
    /\ Respond("accept", c, "mark_dead")
    /\ prisoners' = [prisoners EXCEPT ![TakerOf(MarkedColor)] = @ + Cardinality(marked_dead)]
    /\ board' = Remove(board, marked_dead)
    /\ marked_dead' = {}
    /\ status' = "endgame"
    /\ last_placement' = NoPlacement
    /\ UNCHANGED <<counts_for, territory, result>>

RejectMarkDead(c) ==
    /\ OneColor
    /\ Respond("reject", c, "mark_dead")
    /\ marked_dead' = {}
    /\ status' = "play"
    /\ UNCHANGED <<board, counts_for, prisoners, territory, result, last_placement>>

\* The stones that count_and_clear has been over, row by row, when it comes to
\* one of another colour.
Before(p, q) == p[1] < q[1] \/ (p[1] = q[1] /\ p[2] < q[2])
Scanned == {p \in marked_dead : \A q \in marked_dead : board[q] # board[p] => Before(p, q)}

\* count_and_clear raises a RuntimeError: the stones it has been over are no
\* longer marked, and with an accept they are off the board and credited to
\* nobody; the request is still pending.
AnswerRaises(c, type) ==
    /\ ~OneColor
    /\ status = "request_pending"
    /\ pending_request.type = "mark_dead"
    /\ pending_request.initiator # c
    /\ marked_dead' = marked_dead \ Scanned
    /\ IF type = "accept"
       THEN board' = Remove(board, Scanned) /\ last_placement' = NoPlacement
       ELSE UNCHANGED <<board, last_placement>>
    /\ torn' = TRUE
    /\ UNCHANGED <<status, turn, action_stack, counts_for, prisoners, territory,
                   pending_request, result, prev_board, in_bounds>>

AcceptDraw(c) ==
    /\ Respond("accept", c, "draw")
    /\ status' = "complete"
    /\ result' = [type |-> "draw", winner |-> "none"]
    /\ UNCHANGED <<board, marked_dead, counts_for, prisoners, territory, last_placement>>

RejectDraw(c) ==
    /\ Respond("reject", c, "draw")
    /\ status' = "play"
    /\ UNCHANGED <<board, marked_dead, counts_for, prisoners, territory, result,
                   last_placement>>

\* Twice the score of c, so that a komi with a half point is an integer.
TwiceScore(c, prisonersTaken, points) ==
    2 * (prisonersTaken[c] + points[c]) + (IF c = "white" THEN TwiceKomi ELSE 0)

WinnerReversed(white, black) ==                                 \* mutant
    IF white > black THEN "black" ELSE IF black > white THEN "white" ELSE "none"

WinnerOrDraw(white, black) ==                                   \* mutant
    IF white > black THEN "white" ELSE IF black > white THEN "black" ELSE "draw"

Winner(white, black) ==
    IF white > black THEN "white" ELSE IF black > white THEN "black" ELSE "none"

AcceptTallyScore(c) ==
    /\ Respond("accept", c, "tally_score")
    /\ counts_for' = CountsFor(board)
    /\ territory' = [k \in Color |->
                        territory[k] + Cardinality(Holding(counts_for', k))]
    /\ LET winner == Winner(TwiceScore("white", prisoners, territory'),
                            TwiceScore("black", prisoners, territory'))
       IN  result' = [type |-> IF winner = "none" THEN "draw" ELSE "standard_win",
                      winner |-> winner]
    /\ status' = "complete"
    /\ UNCHANGED <<board, marked_dead, prisoners, last_placement>>

RejectTallyScore(c) ==
    /\ Respond("reject", c, "tally_score")
    /\ status' = "endgame"
    /\ UNCHANGED <<board, marked_dead, counts_for, prisoners, territory, result,
                   last_placement>>

\* The steps when the coordinates are of some set.
NextOver(coordinates) ==
    \E c \in Color :
        \/ \E co \in coordinates : PlaceStone(c, co) \/ MarkDead(c, co) \/ MarkDeadHalf(co)
        \/ PassTurn(c)
        \/ Resign(c)
        \/ RequestDraw(c)
        \/ RequestTallyScore(c)
        \/ AcceptMarkDead(c)
        \/ RejectMarkDead(c)
        \/ AcceptDraw(c)
        \/ RejectDraw(c)
        \/ AcceptTallyScore(c)
        \/ RejectTallyScore(c)
        \/ AnswerRaises(c, "accept")
        \/ AnswerRaises(c, "reject")

Next == NextOver(Coordinate)

Spec == Init /\ [][Next]_vars

-----------------------------------------------------------------------------
(***************************************************************************)
(* Properties.                                                             *)
(***************************************************************************)
\* The ranges of the attributes, as the class declares them.
TypeOK ==
    /\ status \in GameStatus
    /\ turn \in Color
    /\ action_stack \in [version : Nat, last : ActionType \cup {"none"},
                         placed : [Color -> Nat], passes : Nat]
    /\ board \in Board
    /\ marked_dead \subseteq Point
    /\ counts_for \in [Point -> Color \cup {Empty}]
    /\ prisoners \in [Color -> Nat]
    /\ territory \in [Color -> Nat]
    /\ pending_request \in Request \cup {NoRequest}
    /\ result \in Result \cup {NoResult}
    /\ prev_board \in Board \cup {NoBoard}
    /\ in_bounds \in BOOLEAN /\ torn \in BOOLEAN
    /\ last_placement \in Placement \cup {NoPlacement}

\* While the coordinates are points of the board every group on it has a
\* liberty, whatever was captured or removed: _place_stone_base looks only at
\* the neighbours of the new stone, and tests for suicide only when nothing
\* was captured.
GroupsHaveLiberties ==
    in_bounds => \A p \in Point : board[p] # Empty => HasLiberty(board, Group(board, p))

\* Every stone ever placed is on the board or a prisoner of the opponent:
\* captures and accepted mark_dead requests credit the right player, once,
\* also where a coordinate is another name of a point.  An exception of
\* count_and_clear may lose stones, and never makes one count twice.
StonesConserved ==
    \A c \in Color :
        LET counted == Cardinality(Holding(board, c)) + prisoners[inverse(c)]
        IN  /\ counted <= action_stack.placed[c]
            /\ ~torn => counted = action_stack.placed[c]

\* A request is pending exactly while the status says so, one to remove stones
\* has stones to remove, and no stone is marked while the game is played.  While
\* nothing was left half done, stones are marked only while their request is
\* pending and they are of one colour, as count_and_clear requires; with points
\* of the board for coordinates nothing is ever left half done, and the marked
\* stones are one whole group.  A draw can be pending only on the turn of the
\* player who asked.
RequestsConsistent ==
    /\ status = "request_pending" <=> pending_request # NoRequest
    /\ pending_request.type = "mark_dead" => marked_dead # {}
    /\ marked_dead # {} => status # "play" /\ pending_request.type # "draw"
    /\ marked_dead # {} /\ ~torn => pending_request.type = "mark_dead" /\ OneColor
    /\ in_bounds => ~torn
    /\ marked_dead # {} /\ in_bounds =>
        \E p \in Point : board[p] # Empty /\ marked_dead = Group(board, p)
    /\ pending_request.type = "draw" => pending_request.initiator = turn

\* Turns alternate over the placements and passes of the whole game, also
\* across the requests, endgames and resumed play in between.
TurnsAlternate ==
    turn = "black" <=> (action_stack.placed["black"] + action_stack.placed["white"]
                        + action_stack.passes) % 2 = 0

\* The placement at co takes back the stone that the last placement put down
\* and that took one stone, at co.
Retakes(co) ==
    /\ last_placement.taken = {At(co)}
    /\ Captured(board, co, turn) = {last_placement.at}

\* Of the placements that are no suicide, the comparison of whole boards refuses
\* exactly the one that takes a ko back at once.  That holds after any passes,
\* requests and answers since the last placement, until stones are removed by
\* agreement.
KoIsRetaking ==
    last_placement # NoPlacement =>
        \A co \in Coordinate :
            board[At(co)] = Empty /\ ~Suicide(board, co, turn) =>
                (LegalPlacement(board, prev_board, co, turn) <=> ~Retakes(co))

\* The result is set exactly when the game is complete, territory is zero
\* until the score is tallied, it is what counts_for assigns, it is never
\* under a stone, and the winner of a tally has the higher score.
ResultConsistent ==
    /\ status = "complete" <=> result # NoResult
    /\ \A c \in Color : territory[c] = Cardinality(Holding(counts_for, c))
    /\ \A p \in Point : counts_for[p] # Empty =>
        status = "complete" /\ result.type # "resignation" /\ board[p] = Empty
    /\ result.type = "standard_win" =>
        TwiceScore(result.winner, prisoners, territory)
            > TwiceScore(inverse(result.winner), prisoners, territory)

\* A finished game never changes again, and a game ends only by resignation
\* during play or by one player accepting what the other asked for.
EndsByAgreement ==
    [][/\ status # "complete"
       /\ status' = "complete" =>
            \/ status = "play" /\ result'.type = "resignation"
            \/ /\ pending_request.type \in {"draw", "tally_score"}
               /\ action_stack'.last = "accept"]_vars

\* Stones leave the board only by a placement, or when both players agreed
\* that they are dead (or count_and_clear raised on the way); two passes in
\* succession are the only way from play to the endgame, and what was pending
\* decides where an answer leads.
PhasesInOrder ==
    [][/\ board' # board => \/ action_stack'.last = "place_stone"
                            \/ /\ action_stack'.last = "accept"
                               /\ board' = Remove(board, marked_dead)
                            \/ status = "request_pending" /\ torn'
       /\ status = "play" /\ status' = "endgame" =>
            action_stack.last = "pass_turn" /\ action_stack'.last = "pass_turn"
       /\ status = "request_pending" /\ action_stack' # action_stack =>
            status' = IF action_stack'.last = "accept"
                      THEN IF pending_request.type = "mark_dead" THEN "endgame" ELSE "complete"
                      ELSE IF pending_request.type = "tally_score" THEN "endgame" ELSE "play"]_vars
=============================================================================
