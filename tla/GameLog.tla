------------------------------ MODULE GameLog ------------------------------
(***************************************************************************)
(* What players expect of a game: one list of actions that only grows, one  *)
(* action at a time, and a set of actions that their authors were told     *)
(* succeeded, which the list keeps for good.                               *)
(***************************************************************************)
EXTENDS Naturals, Sequences

CONSTANT Action

VARIABLES
    log,            \* the actions of the game, in order
    acknowledged    \* the actions whose author was told of success

vars == <<log, acknowledged>>

Entries == {log[i] : i \in 1 .. Len(log)}

Init == log = <<>> /\ acknowledged = {}

\* An action is added at the end.
Extend(a) ==
    /\ log' = Append(log, a)
    /\ UNCHANGED acknowledged

\* Its author is told that it succeeded.
Acknowledge(a) ==
    /\ a \in Entries
    /\ acknowledged' = acknowledged \cup {a}
    /\ UNCHANGED log

Next == \E a \in Action : Extend(a) \/ Acknowledge(a)

Spec == Init /\ [][Next]_vars
=============================================================================
