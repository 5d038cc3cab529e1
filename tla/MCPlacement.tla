---------------------------- MODULE MCPlacement ----------------------------
(* Model checking of Placement: every board of a small size, up to the      *)
(* symmetries of the 3x3 board and the exchange of the colours.  They leave *)
(* one colour and three points for the stone, and for each of them the      *)
(* boards that its remaining symmetries do not take to another one.  Three  *)
(* coordinates below zero stand for the others: one next to a corner, one   *)
(* next to an edge point, one next to no point.                            *)
EXTENDS Placement

Corner == <<0, 0>>
Edge == <<0, 1>>
Center == <<1, 1>>
Outside == {<<-1, 0>>, <<-1, 1>>, <<-1, -1>>}

Rank(s) == CASE s = Empty -> 0 [] s = "white" -> 1 [] s = "black" -> 2

\* A corner is left in place by the reflection in its diagonal, an edge point
\* by the one in its column, and the center by every symmetry: a rotation
\* takes a corner of least rank to <<0, 0>>, and a reflection orders the rest.
Canonical(b, co) ==
    CASE co = Corner -> Rank(b[<<0, 1>>]) <= Rank(b[<<1, 0>>])
      [] co = Edge -> Rank(b[<<0, 0>>]) <= Rank(b[<<0, 2>>])
      [] co = Center ->
            /\ \A q \in {<<0, 2>>, <<2, 0>>, <<2, 2>>} : Rank(b[Corner]) <= Rank(b[q])
            /\ Rank(b[<<0, 2>>]) <= Rank(b[<<2, 0>>])
      [] OTHER -> TRUE

\* A ko needs a capture that leads back to the position before.
PositionsBefore(b, co) ==
    {NoBoard} \cup (IF b[At(co)] = Empty /\ Captured(b, co, "black") # {}
                    THEN {AfterPlacing(b, co, "black")} ELSE {})

MCInit ==
    \E b \in Board, co \in {Corner, Edge, Center} \cup Outside :
        /\ Canonical(b, co)
        /\ \E prev \in PositionsBefore(b, co) :
               StartWith(b, prev, co, "black")

MCSpec == MCInit /\ [][Next]_vars
MCFairSpec == MCSpec /\ WF_vars(Next)
=============================================================================
