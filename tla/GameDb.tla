------------------------------- MODULE GameDb -------------------------------
(***************************************************************************)
(* The store of sql/: the tables game and player_key and the functions and  *)
(* procedures that the game servers call on them.  A call runs in one       *)
(* transaction (db_manager.py) and takes effect at its commit; a call that  *)
(* raises, or returns dne, in_use, ai_only, false or null, changes nothing  *)
(* and is a stuttering step.                                               *)
(*                                                                         *)
(* Of the columns of game, data is the subject of GameCopies, and           *)
(* write_load_timestamp is kept only as set or null.                       *)
(***************************************************************************)
EXTENDS Integers, FiniteSets

CONSTANTS
    GameId,         \* rows of game; a game that is not there yet has no keys
    Manager,        \* machine ids of the game servers
    Free,           \* managed_by is null
    MaxVersion      \* bound on a game's version

ASSUME FreeAssumption == Free \notin Manager
ASSUME MaxVersionAssumption == MaxVersion \in Nat

VARIABLES
    created,                \* the games that have been created
    managed_by,             \* player_key.managed_by
    ai_secret,              \* the keys that have an AI secret
    players_connected,      \* game.players_connected
    write_load_timestamp,   \* game.write_load_timestamp: "null" or "set"
    version                 \* game.version

vars == <<created, managed_by, ai_secret, players_connected,
          write_load_timestamp, version>>

Color == {"white", "black"}
inverse(c) == IF c = "white" THEN "black" ELSE "white"
Key == GameId \X Color
game_id(k) == k[1]
opponent_key(k) == <<k[1], inverse(k[2])>>

Init ==
    /\ created = {}
    /\ managed_by = [k \in Key |-> Free]
    /\ ai_secret = {}
    /\ players_connected = [g \in GameId |-> 0]
    /\ write_load_timestamp = [g \in GameId |-> "null"]
    /\ version = [g \in GameId |-> 0]

-----------------------------------------------------------------------------
(***************************************************************************)
(* The updates that the functions share, as functions of the columns.      *)
(***************************************************************************)
\* A key of each game of gs is no longer connected.
Disconnect(connected, gs) ==
    [g \in GameId |-> IF g \in gs THEN connected[g] - 1 ELSE connected[g]]

UnloadAtZero(stamp, connected, gs) ==                           \* mutant
    [g \in GameId |-> IF g \in gs /\ connected[g] = 0 THEN "null" ELSE stamp[g]]

\* The timestamp is cleared when the only player leaves.
Unload(stamp, connected, gs) ==
    [g \in GameId |-> IF g \in gs /\ connected[g] = 1 THEN "null" ELSE stamp[g]]

\* The optional unsubscribe inside join_game and new_game: it must find the
\* key managed by the caller, or the whole call raises.
MayLeaveUnchecked(m, leaving) == m \in Manager                  \* mutant

MayLeave(m, leaving) == \A k \in leaving : managed_by[k] = m

GamesOf(ks) == {game_id(k) : k \in ks}

\* The row's managed_by is null, or join_game returns in_use.
FreeOrTaken(m, k) == managed_by[k] \in Manager \cup {Free}       \* mutant

FreeFor(m, k) == managed_by[k] = Free

\* Server m creates game g and plays it as c; keys with colour in ais are for
\* computer players, and leaving is empty or the key the client had before.
NewGame(m, g, c, ais, leaving) ==
    /\ g \notin created
    /\ c \notin ais
    /\ MayLeave(m, leaving)
    /\ created' = created \cup {g}
    /\ managed_by' = [k \in Key |-> IF k = <<g, c>> THEN m
                                    ELSE IF k \in leaving THEN Free ELSE managed_by[k]]
    /\ ai_secret' = ai_secret \cup {<<g, a>> : a \in ais}
    /\ players_connected' =
        [Disconnect(players_connected, GamesOf(leaving)) EXCEPT ![g] = 1]
    /\ write_load_timestamp' =
        [Unload(write_load_timestamp, players_connected, GamesOf(leaving)) EXCEPT ![g] = "set"]
    /\ UNCHANGED version

\* write_new_game without a player_color: nobody is connected yet.
NewGameForNobody(g, ais) ==
    /\ g \notin created
    /\ created' = created \cup {g}
    /\ ai_secret' = ai_secret \cup {<<g, a>> : a \in ais}
    /\ UNCHANGED <<managed_by, players_connected, write_load_timestamp, version>>

\* The unsubscribe comes first, so leaving the same game for its other key
\* clears the timestamp and sets it again.
JoinGame(m, k, hasSecret, leaving) ==
    LET left == Disconnect(players_connected, GamesOf(leaving))
    IN  /\ game_id(k) \in created
        /\ FreeFor(m, k)
        /\ hasSecret <=> k \in ai_secret
        /\ MayLeave(m, leaving)
        /\ managed_by' = [j \in Key |-> IF j = k THEN m
                                        ELSE IF j \in leaving THEN Free ELSE managed_by[j]]
        /\ players_connected' = [left EXCEPT ![game_id(k)] = @ + 1]
        /\ write_load_timestamp' =
            [Unload(write_load_timestamp, players_connected, GamesOf(leaving))
                EXCEPT ![game_id(k)] = "set"]
        /\ UNCHANGED <<created, ai_secret, version>>

\* Only the row's manager can unsubscribe its key.
Unsubscribe(m, k) ==
    /\ managed_by[k] = m
    /\ managed_by' = [managed_by EXCEPT ![k] = Free]
    /\ players_connected' = Disconnect(players_connected, {game_id(k)})
    /\ write_load_timestamp' =
        Unload(write_load_timestamp, players_connected, {game_id(k)})
    /\ UNCHANGED <<created, ai_secret, version>>

\* WHERE version = version_to_write - 1
BehindVersion(g, v) == version[g] < v                           \* mutant

PreviousVersion(g, v) == version[g] = v - 1

\* write_game compares and sets the version.  It asks nothing of managed_by;
\* with a null timestamp time_played becomes null, which the column refuses.
WriteGame(k, v) ==
    /\ game_id(k) \in created
    /\ PreviousVersion(game_id(k), v)
    /\ write_load_timestamp[game_id(k)] = "set"
    /\ v <= MaxVersion
    /\ version' = [version EXCEPT ![game_id(k)] = v]
    /\ UNCHANGED <<created, managed_by, ai_secret, players_connected, write_load_timestamp>>

\* The keys of game g that m manages: the loop of do_cleanup visits each.
OneManaged(m, g) ==                                             \* mutant
    IF \E c \in Color : managed_by[<<g, c>>] = m THEN {"white"} ELSE {}

Managed(m, g) == {c \in Color : managed_by[<<g, c>>] = m}

\* do_cleanup, by a server that restarts: one turn of the loop per key.
Cleanup(m) ==
    /\ managed_by' = [k \in Key |-> IF managed_by[k] = m THEN Free ELSE managed_by[k]]
    /\ players_connected' =
        [g \in GameId |-> players_connected[g] - Cardinality(Managed(m, g))]
    /\ write_load_timestamp' =
        [g \in GameId |->
            IF players_connected[g] \in 1 .. Cardinality(Managed(m, g))
            THEN "null" ELSE write_load_timestamp[g]]
    /\ UNCHANGED <<created, ai_secret, version>>

\* What a client that asks for another game leaves: nothing, or its key.
Leavings == {{}} \cup {{k} : k \in Key}

Next ==
    \/ \E m \in Manager, g \in GameId, c \in Color, ais \in SUBSET Color, l \in Leavings :
            NewGame(m, g, c, ais, l)
    \/ \E g \in GameId, ais \in SUBSET Color : NewGameForNobody(g, ais)
    \/ \E m \in Manager, k \in Key, hasSecret \in BOOLEAN, l \in Leavings :
            JoinGame(m, k, hasSecret, l)
    \/ \E m \in Manager, k \in Key : Unsubscribe(m, k)
    \/ \E k \in Key, v \in 1 .. MaxVersion : WriteGame(k, v)
    \/ \E m \in Manager : Cleanup(m)

Spec == Init /\ [][Next]_vars

-----------------------------------------------------------------------------
(***************************************************************************)
(* Properties.                                                             *)
(***************************************************************************)
\* The ranges of the columns.
TypeOK ==
    /\ created \subseteq GameId
    /\ managed_by \in [Key -> Manager \cup {Free}]
    /\ ai_secret \subseteq Key
    /\ players_connected \in [GameId -> 0 .. 2]
    /\ write_load_timestamp \in [GameId -> {"null", "set"}]
    /\ version \in [GameId -> 0 .. MaxVersion]

Connected(g) == {c \in Color : managed_by[<<g, c>>] # Free}

\* players_connected is maintained by increments and decrements in four
\* functions; it always counts the keys of the game that are managed.
PlayersConnectedCounts ==
    \A g \in GameId : players_connected[g] = Cardinality(Connected(g))

\* tables.sql: the timestamp is "set when loaded if not already loaded
\* elsewhere and whenever written, unset when last client unsubs".
LoadedWhileConnected ==
    \A g \in GameId : write_load_timestamp[g] = "set" <=> Connected(g) # {}

\* A key that a server manages is not taken over: it is given up first.  A
\* game's version grows by one at a time, while a player is connected.
LeaseAndVersionSteps ==
    [][/\ \A k \in Key : managed_by[k] # Free =>
            managed_by'[k] \in {managed_by[k], Free}
       /\ \A g \in GameId : version'[g] # version[g] =>
            version'[g] = version[g] + 1 /\ Connected(g) # {}]_vars

Lease == INSTANCE KeyLease WITH holder <- managed_by

\* The store implements a lease on every key.
ImplementsLease == Lease!Spec
=============================================================================
