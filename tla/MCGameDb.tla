------------------------------ MODULE MCGameDb ------------------------------
(* Model checking of GameDb: two games, so that a client can leave one for  *)
(* the other, and two servers.                                             *)
EXTENDS GameDb, TLC

Symmetry == Permutations(GameId) \cup Permutations(Manager)
=============================================================================
