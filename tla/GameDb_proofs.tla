--------------------------- MODULE GameDb_proofs ---------------------------
(***************************************************************************)
(* Proofs about GameDb: its types, the counter and the timestamp that it    *)
(* keeps beside managed_by, and that it implements KeyLease, for any        *)
(* numbers of games and servers.                                            *)
(*                                                                         *)
(* The counter and the timestamp are inductive only together: whether a     *)
(* call clears the timestamp depends on the counter, and the counter is     *)
(* right only if each decrement meets a managed key.                        *)
(***************************************************************************)
EXTENDS GameDb, FiniteSetTheorems, TLAPS

\* The colours of a game, counted without Cardinality.
One(S, c) == IF c \in S THEN 1 ELSE 0

\* A set of colours has as many elements as bits.
LEMMA CardinalityOfColors ==
    ASSUME NEW S \in SUBSET Color
    PROVE  Cardinality(S) = One(S, "white") + One(S, "black")
<1>1. CASE S = {}
  BY <1>1, FS_EmptySet DEF One
<1>2. CASE S = {"white"}
  BY <1>2, FS_Singleton DEF One
<1>3. CASE S = {"black"}
  BY <1>3, FS_Singleton DEF One
<1>4. CASE S = {"white", "black"}
  <2>1. IsFiniteSet({"white"}) /\ Cardinality({"white"}) = 1
    BY FS_Singleton
  <2>2. Cardinality({"white"} \cup {"black"}) = 2
    BY <2>1, FS_AddElement
  <2> QED
    BY <1>4, <2>2 DEF One
<1> QED
  BY <1>1, <1>2, <1>3, <1>4 DEF Color

Taken(k) == IF managed_by[k] = Free THEN 0 ELSE 1

Count(g) == Taken(<<g, "white">>) + Taken(<<g, "black">>)

\* The number of keys of g that server m manages.
TakenBy(m, k) == IF managed_by[k] = m THEN 1 ELSE 0

CountOf(m, g) == TakenBy(m, <<g, "white">>) + TakenBy(m, <<g, "black">>)

\* The managed keys of a game, counted without Cardinality.
LEMMA ConnectedCount ==
    ASSUME NEW g \in GameId
    PROVE  Cardinality(Connected(g)) = Count(g)
<1>1. Connected(g) \in SUBSET Color
  BY DEF Connected
<1>2. Cardinality(Connected(g)) = One(Connected(g), "white") + One(Connected(g), "black")
  BY <1>1, CardinalityOfColors
<1>3. One(Connected(g), "white") = Taken(<<g, "white">>)
  BY DEF One, Connected, Taken, Color
<1>4. One(Connected(g), "black") = Taken(<<g, "black">>)
  BY DEF One, Connected, Taken, Color
<1> QED
  BY <1>2, <1>3, <1>4 DEF Count

\* So are the keys of a game that one server manages.
LEMMA ManagedCount ==
    ASSUME NEW m \in Manager, NEW g \in GameId
    PROVE  Cardinality(Managed(m, g)) = CountOf(m, g)
<1>1. Managed(m, g) \in SUBSET Color
  BY DEF Managed
<1>2. Cardinality(Managed(m, g)) = One(Managed(m, g), "white") + One(Managed(m, g), "black")
  BY <1>1, CardinalityOfColors
<1>3. One(Managed(m, g), "white") = TakenBy(m, <<g, "white">>)
  BY DEF One, Managed, TakenBy, Color
<1>4. One(Managed(m, g), "black") = TakenBy(m, <<g, "black">>)
  BY DEF One, Managed, TakenBy, Color
<1> QED
  BY <1>2, <1>3, <1>4 DEF CountOf

-----------------------------------------------------------------------------
\* The types, but for the range of players_connected, which Counts implies.
Types ==
    /\ created \subseteq GameId
    /\ managed_by \in [Key -> Manager \cup {Free}]
    /\ ai_secret \subseteq Key
    /\ players_connected \in [GameId -> Int]
    /\ write_load_timestamp \in [GameId -> {"null", "set"}]
    /\ version \in [GameId -> 0 .. MaxVersion]

Counts == \A g \in GameId : players_connected[g] = Count(g)

Loaded == \A g \in GameId : write_load_timestamp[g] = "set" <=> players_connected[g] # 0

\* Nobody manages a key of a game that was not created.
CreatedFirst == \A k \in Key : managed_by[k] # Free => game_id(k) \in created

IInv == Types /\ Counts /\ Loaded /\ CreatedFirst

\* The inductive invariant says what the runs check, and more.
LEMMA IInvImplies == IInv => TypeOK /\ PlayersConnectedCounts /\ LoadedWhileConnected
<1> SUFFICES ASSUME IInv PROVE TypeOK /\ PlayersConnectedCounts /\ LoadedWhileConnected
  OBVIOUS
<1>1. \A g \in GameId : players_connected[g] = Cardinality(Connected(g))
  BY ConnectedCount DEF IInv, Counts
<1>2. \A g \in GameId : Count(g) \in 0 .. 2 /\ (Count(g) # 0 <=> Connected(g) # {})
  <2> SUFFICES ASSUME NEW g \in GameId
               PROVE  Count(g) \in 0 .. 2 /\ (Count(g) # 0 <=> Connected(g) # {})
    OBVIOUS
  <2>1. CASE managed_by[<<g, "white">>] = Free /\ managed_by[<<g, "black">>] = Free
    <3>1. Connected(g) = {}
      BY <2>1 DEF Connected, Color
    <3>2. Count(g) = 0
      BY <2>1 DEF Count, Taken
    <3> QED
      BY <3>1, <3>2
  <2>2. CASE managed_by[<<g, "white">>] # Free
    <3>1. "white" \in Connected(g)
      BY <2>2 DEF Connected, Color
    <3>2. Count(g) \in {1, 2}
      BY <2>2 DEF Count, Taken
    <3> QED
      BY <3>1, <3>2
  <2>3. CASE managed_by[<<g, "black">>] # Free
    <3>1. "black" \in Connected(g)
      BY <2>3 DEF Connected, Color
    <3>2. Count(g) \in {1, 2}
      BY <2>3 DEF Count, Taken
    <3> QED
      BY <3>1, <3>2
  <2> QED
    BY <2>1, <2>2, <2>3
<1>3. \A g \in GameId : players_connected[g] = Count(g)
  BY DEF IInv, Counts
<1> QED
  BY <1>1, <1>2, <1>3 DEF IInv, Types, Loaded, TypeOK, PlayersConnectedCounts, LoadedWhileConnected

\* A new database: no game, no key managed.
LEMMA InitIInv == Init => IInv
BY MaxVersionAssumption DEF Init, IInv, Types, Counts, Count, Taken, Loaded, CreatedFirst, Key, Color, game_id

-----------------------------------------------------------------------------
\* One lemma per action.
LEMMA NewGameIInv ==
    ASSUME IInv, NEW m \in Manager, NEW g \in GameId, NEW c \in Color,
           NEW ais \in SUBSET Color, NEW leaving \in Leavings,
           NewGame(m, g, c, ais, leaving)
    PROVE  IInv'
<1> USE FreeAssumption DEF IInv
<1>1. leaving = {} \/ \E j \in Key : leaving = {j} /\ managed_by[j] = m
  BY DEF NewGame, MayLeave, Leavings
<1>2. Types'
  BY DEF NewGame, Types, Disconnect, Unload, Key, game_id
<1>3. \A h \in GameId : players_connected'[h] = Count(h)' /\
            (write_load_timestamp'[h] = "set" <=> players_connected'[h] # 0)
  <2> SUFFICES ASSUME NEW h \in GameId
               PROVE  players_connected'[h] = Count(h)' /\
                        (write_load_timestamp'[h] = "set" <=> players_connected'[h] # 0)
    OBVIOUS
  <2>0. \A d \in Color : managed_by[<<g, d>>] = Free
    BY DEF NewGame, CreatedFirst, Key, game_id
  <2>1. CASE h = g
    <3>1. \A d \in Color : managed_by'[<<g, d>>] = IF d = c THEN m ELSE Free
      BY <1>1, <2>0 DEF NewGame, Key
    <3> QED
      BY <2>1, <3>1 DEF NewGame, Count, Taken, Color, Types, Disconnect, Unload
  <2>2. CASE h # g /\ leaving = {}
    BY <2>2 DEF NewGame, Count, Taken, Color, Types, Disconnect, Unload, GamesOf, Counts, Loaded, Key
  <2>3. ASSUME h # g, NEW j \in Key, leaving = {j}, managed_by[j] = m
        PROVE  players_connected'[h] = Count(h)' /\
                        (write_load_timestamp'[h] = "set" <=> players_connected'[h] # 0)
    <3>1. GamesOf(leaving) = {game_id(j)}
      BY <2>3 DEF GamesOf
    <3>2. players_connected'[h] = IF h = game_id(j) THEN players_connected[h] - 1 ELSE players_connected[h]
      BY <2>3, <3>1 DEF NewGame, Disconnect, Types
    <3>3. write_load_timestamp'[h] = IF h = game_id(j) /\ players_connected[h] = 1 THEN "null"
                                     ELSE write_load_timestamp[h]
      BY <2>3, <3>1 DEF NewGame, Unload, Types
    <3>4. \A d \in Color : managed_by'[<<h, d>>] = IF <<h, d>> = j THEN Free ELSE managed_by[<<h, d>>]
      BY <2>3 DEF NewGame, Key
    <3>5. m # Free
      OBVIOUS
    <3> QED
      BY <2>3, <3>2, <3>3, <3>4, <3>5 DEF Count, Taken, Color, Counts, Loaded, Key, game_id
  <2> QED
    BY <1>1, <2>1, <2>2, <2>3
<1>4. CreatedFirst'
  BY DEF NewGame, CreatedFirst, Key, game_id
<1> QED
  BY <1>2, <1>3, <1>4 DEF Counts, Loaded

\* A game created without a player starts with no key managed.
LEMMA NewGameForNobodyIInv ==
    ASSUME IInv, NEW g \in GameId, NEW ais \in SUBSET Color, NewGameForNobody(g, ais)
    PROVE  IInv'
BY DEF NewGameForNobody, IInv, Types, Counts, Count, Taken, Loaded, CreatedFirst, Key

\* What leaving does to the columns, for one game: used for a call that also
\* joins (JoinGame) and for one that does not (Unsubscribe).
LEMMA JoinGameIInv ==
    ASSUME IInv, NEW m \in Manager, NEW k \in Key, NEW hasSecret \in BOOLEAN,
           NEW leaving \in Leavings, JoinGame(m, k, hasSecret, leaving)
    PROVE  IInv'
<1> USE FreeAssumption DEF IInv
<1>0. PICK g \in GameId, c \in Color : k = <<g, c>>
  BY DEF Key
<1>1. leaving = {} \/ \E j \in Key : leaving = {j} /\ managed_by[j] = m
  BY DEF JoinGame, MayLeave, Leavings
<1>2. Types'
  BY <1>0 DEF JoinGame, Types, Disconnect, Unload, Key, game_id
<1>3. \A h \in GameId : players_connected'[h] = Count(h)' /\
            (write_load_timestamp'[h] = "set" <=> players_connected'[h] # 0)
  <2> SUFFICES ASSUME NEW h \in GameId
               PROVE  players_connected'[h] = Count(h)' /\
                        (write_load_timestamp'[h] = "set" <=> players_connected'[h] # 0)
    OBVIOUS
  <2> DEFINE gone(d) == <<h, d>> \in leaving
             left == Disconnect(players_connected, GamesOf(leaving))[h]
  <2>1. managed_by[k] = Free /\ k \notin leaving /\ m # Free
    BY <1>1 DEF JoinGame, FreeFor
  <2>2. /\ left \in Nat
        /\ left = (IF gone("white") THEN 0 ELSE Taken(<<h, "white">>))
                   + (IF gone("black") THEN 0 ELSE Taken(<<h, "black">>))
    <3>1. CASE leaving = {}
      BY <3>1 DEF Disconnect, GamesOf, Counts, Count, Taken
    <3>2. ASSUME NEW j \in Key, leaving = {j}, managed_by[j] = m
          PROVE  /\ left \in Nat
                 /\ left = (IF gone("white") THEN 0 ELSE Taken(<<h, "white">>))
                            + (IF gone("black") THEN 0 ELSE Taken(<<h, "black">>))
      <4>1. GamesOf(leaving) = {game_id(j)}
        BY <3>2 DEF GamesOf
      <4>2. left = IF h = game_id(j) THEN players_connected[h] - 1 ELSE players_connected[h]
        BY <4>1 DEF Disconnect
      <4>3. players_connected[h] = Taken(<<h, "white">>) + Taken(<<h, "black">>)
        BY DEF Counts, Count
      <4> QED
        BY <3>2, <4>2, <4>3, <2>1 DEF Taken, Key, Color, game_id
    <3> QED
      BY <1>1, <3>1, <3>2
  <2>3. players_connected'[h] = IF h = g THEN left + 1 ELSE left
    BY <1>0 DEF JoinGame, game_id, Disconnect
  <2>4. \A d \in Color : managed_by'[<<h, d>>] = IF <<h, d>> = k THEN m
                            ELSE IF gone(d) THEN Free ELSE managed_by[<<h, d>>]
    BY DEF JoinGame, Key
  <2>5. players_connected'[h] = Count(h)'
    BY <1>0, <2>1, <2>2, <2>3, <2>4 DEF Count, Taken, Color
  <2>6. write_load_timestamp'[h] = "set" <=> players_connected'[h] # 0
    <3>1. CASE h = g
      <4>1. write_load_timestamp'[h] = "set"
        BY <1>0, <3>1 DEF JoinGame, game_id, Unload
      <4> QED
        BY <3>1, <4>1, <2>2, <2>3
    <3>2. CASE h # g
      <4>1. write_load_timestamp'[h]
                = IF h \in GamesOf(leaving) /\ players_connected[h] = 1 THEN "null"
                  ELSE write_load_timestamp[h]
        BY <1>0, <3>2 DEF JoinGame, game_id, Unload
      <4>2. players_connected'[h]
                = IF h \in GamesOf(leaving) THEN players_connected[h] - 1
                  ELSE players_connected[h]
        BY <3>2, <2>3 DEF Disconnect
      <4>3. players_connected'[h] \in Nat /\ players_connected[h] \in Int
        BY <3>2, <2>2, <2>3 DEF Types
      <4> QED
        BY <4>1, <4>2, <4>3 DEF Loaded
    <3> QED
      BY <3>1, <3>2
  <2> QED
    BY <2>5, <2>6
<1>4. CreatedFirst'
  BY <1>0 DEF JoinGame, CreatedFirst, Key, game_id
<1> QED
  BY <1>2, <1>3, <1>4 DEF Counts, Loaded

\* unsubscribe frees one key and counts one player down.
LEMMA UnsubscribeIInv ==
    ASSUME IInv, NEW m \in Manager, NEW k \in Key, Unsubscribe(m, k)
    PROVE  IInv'
<1> USE FreeAssumption DEF IInv
<1>0. PICK g \in GameId, c \in Color : k = <<g, c>>
  BY DEF Key
<1>1. Types'
  BY <1>0 DEF Unsubscribe, Types, Disconnect, Unload, Key, game_id
<1>2. \A h \in GameId : players_connected'[h] = Count(h)'
  <2> SUFFICES ASSUME NEW h \in GameId PROVE players_connected'[h] = Count(h)'
    OBVIOUS
  <2>1. players_connected'[h] = IF h = g THEN players_connected[h] - 1 ELSE players_connected[h]
    BY <1>0 DEF Unsubscribe, Disconnect, game_id
  <2>2. players_connected[h] = Taken(<<h, "white">>) + Taken(<<h, "black">>)
    BY DEF Counts, Count
  <2>3. \A d \in Color : Taken(<<h, d>>)' = IF h = g /\ d = c THEN 0 ELSE Taken(<<h, d>>)
    <3>1. \A d \in Color : managed_by'[<<h, d>>] = IF h = g /\ d = c THEN Free
                                                  ELSE managed_by[<<h, d>>]
      BY <1>0 DEF Unsubscribe, Key, Types
    <3> QED
      BY <3>1 DEF Taken
  <2>4. Taken(<<g, c>>) = 1
    BY <1>0 DEF Unsubscribe, Taken
  <2>5. \A d \in Color : Taken(<<h, d>>) \in Nat
    BY DEF Taken
  <2> QED
    BY <2>1, <2>2, <2>3, <2>4, <2>5 DEF Count, Color
<1>3. \A h \in GameId : write_load_timestamp'[h] = "set" <=> players_connected'[h] # 0
  <2>1. players_connected[g] # 0
    <3>1. players_connected[g] = Taken(<<g, "white">>) + Taken(<<g, "black">>)
      BY DEF Counts, Count
    <3>2. Taken(<<g, c>>) = 1
      BY <1>0 DEF Unsubscribe, Taken
    <3>3. \A d \in Color : Taken(<<g, d>>) \in Nat
      BY DEF Taken
    <3> QED
      BY <3>1, <3>2, <3>3 DEF Color
  <2> QED
    BY <1>0, <2>1 DEF Unsubscribe, Disconnect, Unload, game_id, Loaded, Types
<1>4. CreatedFirst'
  BY <1>0 DEF Unsubscribe, CreatedFirst, Key, game_id
<1> QED
  BY <1>1, <1>2, <1>3, <1>4 DEF Counts, Loaded

\* write_game leaves leases and counters alone.
LEMMA WriteGameIInv ==
    ASSUME IInv, NEW k \in Key, NEW v \in 1 .. MaxVersion, WriteGame(k, v)
    PROVE  IInv'
<1>1. Types'
  BY MaxVersionAssumption DEF WriteGame, IInv, Types, Key, game_id
<1> QED
  BY <1>1 DEF WriteGame, IInv, Counts, Count, Taken, Loaded, CreatedFirst

\* do_cleanup frees every key of the server that calls it.
LEMMA CleanupIInv ==
    ASSUME IInv, NEW m \in Manager, Cleanup(m)
    PROVE  IInv'
<1> USE FreeAssumption DEF IInv
<1>1. \A h \in GameId :
        /\ players_connected'[h] = players_connected[h] - CountOf(m, h)
        /\ write_load_timestamp'[h] = IF players_connected[h] \in 1 .. CountOf(m, h)
                                      THEN "null" ELSE write_load_timestamp[h]
  BY ManagedCount DEF Cleanup
<1>2. \A h \in GameId : /\ players_connected'[h] = Count(h)'
                         /\ CountOf(m, h) \in Nat
                         /\ Count(h)' \in Nat
  <2> SUFFICES ASSUME NEW h \in GameId
               PROVE  /\ players_connected'[h] = Count(h)'
                      /\ CountOf(m, h) \in Nat
                      /\ Count(h)' \in Nat
    OBVIOUS
  <2>1. players_connected[h] = Taken(<<h, "white">>) + Taken(<<h, "black">>)
    BY DEF Counts, Count
  <2>2. \A d \in Color : /\ Taken(<<h, d>>)' = Taken(<<h, d>>) - TakenBy(m, <<h, d>>)
                         /\ TakenBy(m, <<h, d>>) \in Nat
                         /\ Taken(<<h, d>>)' \in Nat
                         /\ Taken(<<h, d>>) \in Nat
    BY DEF Cleanup, Taken, TakenBy, Key
  <2> HIDE DEF IInv
  <2> QED
    BY <1>1, <2>1, <2>2 DEF Count, CountOf, Color
<1>3. Types'
  BY <1>1, <1>2 DEF Cleanup, Types
<1>4. \A h \in GameId : write_load_timestamp'[h] = "set" <=> players_connected'[h] # 0
  <2> SUFFICES ASSUME NEW h \in GameId
               PROVE  write_load_timestamp'[h] = "set" <=> players_connected'[h] # 0
    OBVIOUS
  <2>1. players_connected'[h] = players_connected[h] - CountOf(m, h)
        /\ players_connected'[h] \in Nat /\ CountOf(m, h) \in Nat
    BY <1>1, <1>2
  <2>2. players_connected[h] \in Int /\ (write_load_timestamp[h] = "set" <=> players_connected[h] # 0)
    BY DEF Loaded, Types
  <2>3. write_load_timestamp'[h] = IF players_connected[h] \in 1 .. CountOf(m, h)
                                   THEN "null" ELSE write_load_timestamp[h]
    BY <1>1
  <2>4. players_connected[h] \in 1 .. CountOf(m, h) <=> players_connected[h] # 0 /\ players_connected'[h] = 0
    BY <2>1, <2>2
  <2> QED
    BY <2>1, <2>2, <2>3, <2>4
<1>5. CreatedFirst'
  BY DEF Cleanup, CreatedFirst
<1> QED
  BY <1>2, <1>3, <1>4, <1>5 DEF Counts, Loaded

\* Every step keeps the inductive invariant.
LEMMA NextIInv == IInv /\ [Next]_vars => IInv'
<1> SUFFICES ASSUME IInv, [Next]_vars PROVE IInv'
  OBVIOUS
<1>1. ASSUME NEW m \in Manager, NEW g \in GameId, NEW c \in Color,
             NEW ais \in SUBSET Color, NEW l \in Leavings, NewGame(m, g, c, ais, l)
      PROVE  IInv'
  BY <1>1, NewGameIInv
<1>2. ASSUME NEW g \in GameId, NEW ais \in SUBSET Color, NewGameForNobody(g, ais)
      PROVE  IInv'
  BY <1>2, NewGameForNobodyIInv
<1>3. ASSUME NEW m \in Manager, NEW k \in Key, NEW hasSecret \in BOOLEAN,
             NEW l \in Leavings, JoinGame(m, k, hasSecret, l)
      PROVE  IInv'
  BY <1>3, JoinGameIInv
<1>4. ASSUME NEW m \in Manager, NEW k \in Key, Unsubscribe(m, k)
      PROVE  IInv'
  BY <1>4, UnsubscribeIInv
<1>5. ASSUME NEW k \in Key, NEW v \in 1 .. MaxVersion, WriteGame(k, v)
      PROVE  IInv'
  BY <1>5, WriteGameIInv
<1>6. ASSUME NEW m \in Manager, Cleanup(m)
      PROVE  IInv'
  BY <1>6, CleanupIInv
<1>7. CASE UNCHANGED vars
  BY <1>7 DEF vars, IInv, Types, Counts, Count, Taken, Loaded, CreatedFirst
<1> QED
  BY <1>1, <1>2, <1>3, <1>4, <1>5, <1>6, <1>7 DEF Next

-----------------------------------------------------------------------------
(***************************************************************************)
(* The theorems.                                                           *)
(***************************************************************************)
LEMMA Inductive == Spec => []IInv
BY InitIInv, NextIInv, PTL DEF Spec

\* The columns keep their ranges; players_connected stays within 0 .. 2
\* whatever games and keys the clients of all servers change between.
THEOREM TypeCorrect == Spec => []TypeOK
BY Inductive, IInvImplies, PTL

\* players_connected is the number of managed keys of the game (join_game,
\* new_game, unsubscribe and do_cleanup keep it by counting up and down).
THEOREM CountersCorrect == Spec => []PlayersConnectedCounts
BY Inductive, IInvImplies, PTL

\* The load timestamp is set exactly while some key of the game is managed.
THEOREM TimestampCorrect == Spec => []LoadedWhileConnected
BY Inductive, IInvImplies, PTL

\* One step keeps managed keys from being taken over, and raises a version
\* by one, of a game with a player connected.
LEMMA StepOfLeaseAndVersion ==
    ASSUME IInv, [Next]_vars
    PROVE  /\ \A k \in Key : managed_by[k] # Free =>
                managed_by'[k] \in {managed_by[k], Free}
           /\ \A g \in GameId : version'[g] # version[g] =>
                version'[g] = version[g] + 1 /\ Connected(g) # {}
<1> DEFINE KeepsKeys == \A k \in Key : managed_by[k] # Free =>
                            managed_by'[k] \in {managed_by[k], Free}
           KeepsVersions == \A g \in GameId : version'[g] # version[g] =>
                                version'[g] = version[g] + 1 /\ Connected(g) # {}
<1>1. ASSUME NEW m \in Manager, NEW g \in GameId, NEW c \in Color,
             NEW ais \in SUBSET Color, NEW l \in Leavings, NewGame(m, g, c, ais, l)
      PROVE  KeepsKeys /\ KeepsVersions
  BY <1>1 DEF NewGame, IInv, CreatedFirst, game_id, Key
<1>2. ASSUME NEW g \in GameId, NEW ais \in SUBSET Color, NewGameForNobody(g, ais)
      PROVE  KeepsKeys /\ KeepsVersions
  BY <1>2 DEF NewGameForNobody
<1>3. ASSUME NEW m \in Manager, NEW k \in Key, NEW hasSecret \in BOOLEAN,
             NEW l \in Leavings, JoinGame(m, k, hasSecret, l)
      PROVE  KeepsKeys /\ KeepsVersions
  BY <1>3 DEF JoinGame, FreeFor
<1>4. ASSUME NEW m \in Manager, NEW k \in Key, Unsubscribe(m, k)
      PROVE  KeepsKeys /\ KeepsVersions
  BY <1>4 DEF Unsubscribe, IInv, Types
<1>5. ASSUME NEW k \in Key, NEW v \in 1 .. MaxVersion, WriteGame(k, v)
      PROVE  KeepsKeys /\ KeepsVersions
  <2>1. KeepsKeys
    BY <1>5 DEF WriteGame
  <2>2. game_id(k) \in GameId
    BY DEF Key, game_id
  <2>3. Connected(game_id(k)) # {}
    BY <1>5, <2>2, IInvImplies DEF WriteGame, LoadedWhileConnected
  <2>4. version'[game_id(k)] = version[game_id(k)] + 1
    BY <1>5, <2>2, MaxVersionAssumption DEF WriteGame, PreviousVersion, IInv, Types
  <2>5. \A g \in GameId : g # game_id(k) => version'[g] = version[g]
    BY <1>5 DEF WriteGame, IInv, Types
  <2> QED
    BY <2>1, <2>3, <2>4, <2>5
<1>6. ASSUME NEW m \in Manager, Cleanup(m)
      PROVE  KeepsKeys /\ KeepsVersions
  BY <1>6 DEF Cleanup
<1>7. CASE UNCHANGED vars
  BY <1>7 DEF vars
<1> QED
  BY <1>1, <1>2, <1>3, <1>4, <1>5, <1>6, <1>7 DEF Next

\* No server takes over a key another one manages, and stored versions grow
\* one at a time while somebody is connected.
THEOREM LeaseAndVersions == Spec => LeaseAndVersionSteps
<1>1. IInv /\ [Next]_vars =>
        [/\ \A k \in Key : managed_by[k] # Free =>
                managed_by'[k] \in {managed_by[k], Free}
         /\ \A g \in GameId : version'[g] # version[g] =>
                version'[g] = version[g] + 1 /\ Connected(g) # {}]_vars
  BY StepOfLeaseAndVersion
<1> QED
  BY <1>1, Inductive, PTL DEF Spec, LeaseAndVersionSteps

\* Every step of the store exchanges leases of one server, or none.
LEMMA StepOfLease ==
    ASSUME IInv, Next
    PROVE  Lease!Next \/ UNCHANGED managed_by
<1>1. ASSUME NEW m \in Manager, NEW g \in GameId, NEW c \in Color,
             NEW ais \in SUBSET Color, NEW l \in Leavings, NewGame(m, g, c, ais, l)
      PROVE  Lease!Next
  <2>1. l \in SUBSET Key /\ {<<g, c>>} \in SUBSET Key
    BY DEF Leavings, Key
  <2>2. managed_by[<<g, c>>] = Free
    BY <1>1 DEF NewGame, IInv, CreatedFirst, game_id, Key
  <2>3. Lease!Exchange(m, l, {<<g, c>>})
    BY <1>1, <2>2 DEF Lease!Exchange, NewGame, MayLeave
  <2> QED
    BY <2>1, <2>3 DEF Lease!Next
<1>2. ASSUME NEW g \in GameId, NEW ais \in SUBSET Color, NewGameForNobody(g, ais)
      PROVE  UNCHANGED managed_by
  BY <1>2 DEF NewGameForNobody
<1>3. ASSUME NEW m \in Manager, NEW k \in Key, NEW hasSecret \in BOOLEAN,
             NEW l \in Leavings, JoinGame(m, k, hasSecret, l)
      PROVE  Lease!Next
  <2>1. l \in SUBSET Key /\ {k} \in SUBSET Key
    BY DEF Leavings
  <2>2. Lease!Exchange(m, l, {k})
    BY <1>3 DEF Lease!Exchange, JoinGame, MayLeave, FreeFor
  <2> QED
    BY <2>1, <2>2 DEF Lease!Next
<1>4. ASSUME NEW m \in Manager, NEW k \in Key, Unsubscribe(m, k)
      PROVE  Lease!Next
  <2>1. {k} \in SUBSET Key /\ {} \in SUBSET Key
    OBVIOUS
  <2>2. Lease!Exchange(m, {k}, {})
    BY <1>4 DEF Lease!Exchange, Unsubscribe, IInv, Types
  <2> QED
    BY <2>1, <2>2 DEF Lease!Next
<1>5. ASSUME NEW k \in Key, NEW v \in 1 .. MaxVersion, WriteGame(k, v)
      PROVE  UNCHANGED managed_by
  BY <1>5 DEF WriteGame
<1>6. ASSUME NEW m \in Manager, Cleanup(m)
      PROVE  Lease!Next
  <2> DEFINE gone == {k \in Key : managed_by[k] = m}
  <2>1. gone \in SUBSET Key /\ {} \in SUBSET Key
    OBVIOUS
  <2>2. Lease!Exchange(m, gone, {})
    BY <1>6 DEF Lease!Exchange, Cleanup
  <2> HIDE DEF gone
  <2> QED
    BY <2>1, <2>2 DEF Lease!Next
<1> QED
  BY <1>1, <1>2, <1>3, <1>4, <1>5, <1>6 DEF Next

\* The table player_key, under all the calls of the game servers, is a lease
\* on each key.
THEOREM LeaseImplemented == Spec => ImplementsLease
<1>1. Init => Lease!Init
  BY DEF Init, Lease!Init
<1>2. IInv /\ [Next]_vars => [Lease!Next]_managed_by
  BY StepOfLease DEF vars
<1> QED
  BY <1>1, <1>2, Inductive, PTL DEF Spec, ImplementsLease, Lease!Spec
=============================================================================
