------------------------------- MODULE MCGame -------------------------------
(* Model checking of Game on the 3x3 board: the players open with a script *)
(* that leads to a ko, and go on as they like.  Besides the points they may *)
(* give one coordinate below zero: it is another name of <<1, 2>>, and next *)
(* to <<1, 0>>.                                                            *)
EXTENDS Game, Sequences

Opening == << <<1, 0>>, <<1, 1>>, <<2, 2>>, <<0, 2>>, <<2, 0>>, <<0, 0>> >>

OpeningNext ==
    IF action_stack.version < Len(Opening)
    THEN PlaceStone(turn, Opening[action_stack.version + 1])
    ELSE NextOver(Point \cup {<<1, -1>>})

OpeningSpec == Init /\ [][OpeningNext]_vars
=============================================================================
