------------------------------ MODULE KeyLease ------------------------------
(***************************************************************************)
(* What the player_key table promises the game servers: a key is a lease.  *)
(* A server acquires a free key, and only the server that holds a key can   *)
(* give it up; keys move one server at a time, possibly several at once.    *)
(***************************************************************************)
CONSTANTS Key, Manager, Free

VARIABLE holder         \* who manages each key, Free when nobody does

Init == holder = [k \in Key |-> Free]

\* Server m gives up the keys of gone and takes those of got.
Exchange(m, gone, got) ==
    /\ \A k \in gone : holder[k] = m
    /\ \A k \in got : holder[k] = Free
    /\ holder' = [k \in Key |-> IF k \in got THEN m
                                ELSE IF k \in gone THEN Free ELSE holder[k]]

Next == \E m \in Manager, gone, got \in SUBSET Key : Exchange(m, gone, got)

Spec == Init /\ [][Next]_holder
=============================================================================
