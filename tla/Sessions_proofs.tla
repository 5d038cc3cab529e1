-------------------------- MODULE Sessions_proofs ---------------------------
(***************************************************************************)
(* Proofs about Sessions, for any number of sockets and keys: the types of *)
(* its state; that the server is subscribed to the updates of every key    *)
(* that it manages; and whom it serves, the maps _clients and _player_keys *)
(* of the GameManager against each other and against the managed_by column *)
(* of the table.                                                           *)
(***************************************************************************)
EXTENDS Sessions, TLAPS

-----------------------------------------------------------------------------
(***************************************************************************)
(* The coroutines and the types.                                           *)
(***************************************************************************)
\* A coroutine of a join or a new game, and one of a departure.
Join == [at : {"done", "select", "insert", "subscribe", "commit", "drop", "remove", "register"},
         key : Key \cup {None}, old : Key \cup {None}]
Leave == [at : {"done", "start", "unsubscribe", "remove"}, key : Key \cup {None}]

\* A coroutine that is under way is for some key.
Types ==
    /\ TypeOK
    /\ \A s \in Socket : Joining(s) => joining[s].key \in Key

\* After the step, the coroutine of s for a join is at a, for the key k and
\* the old key o; the other sockets' coroutines have not moved.
JoinAt(s, a, k, o) ==
    /\ joining' \in [Socket -> Join]
    /\ joining'[s].at = a
    /\ joining'[s].key = k
    /\ joining'[s].old = o
    /\ \A t \in Socket \ {s} : joining'[t] = joining[t]

\* After the step, the coroutine of s for a departure is at a, for the key k.
LeaveAt(s, a, k) ==
    /\ leaving' \in [Socket -> Leave]
    /\ leaving'[s].at = a
    /\ leaving'[s].key = k
    /\ \A t \in Socket \ {s} : leaving'[t] = leaving[t]

\* A join that moves to its next statement keeps its key and the old key.
LEMMA JoinMoves ==
    ASSUME TypeOK, NEW s \in Socket,
           NEW a \in {"subscribe", "commit", "drop", "remove", "register"},
           joining' = [joining EXCEPT ![s].at = a]
    PROVE  JoinAt(s, a, joining[s].key, joining[s].old)
<1>1. joining[s] \in Join
  BY DEF TypeOK, Join
<1>2. [joining[s] EXCEPT !.at = a] = [at |-> a, key |-> joining[s].key, old |-> joining[s].old]
  BY <1>1 DEF Join
<1>3. [at |-> a, key |-> joining[s].key, old |-> joining[s].old] \in Join
  BY <1>1 DEF Join
<1>4. joining' = [joining EXCEPT ![s] = [at |-> a, key |-> joining[s].key, old |-> joining[s].old]]
  BY <1>2
<1>5. joining \in [Socket -> Join]
  BY DEF TypeOK, Join
<1> QED
  BY <1>3, <1>4, <1>5 DEF JoinAt

\* A request starts a coroutine with the key that the client has then.
LEMMA JoinStarts ==
    ASSUME TypeOK, NEW s \in Socket, NEW k \in Key, NEW a \in {"select", "insert"},
           joining' = [joining EXCEPT ![s] = [at |-> a, key |-> k, old |-> clients[s]]]
    PROVE  JoinAt(s, a, k, clients[s])
<1>1. [at |-> a, key |-> k, old |-> clients[s]] \in Join
  BY DEF TypeOK, Join
<1>2. joining \in [Socket -> Join]
  BY DEF TypeOK, Join
<1> QED
  BY <1>1, <1>2 DEF JoinAt

\* A refused, failed or answered request is over.
LEMMA JoinEnds ==
    ASSUME TypeOK, NEW s \in Socket,
           joining' = [joining EXCEPT ![s] = NotJoining]
    PROVE  JoinAt(s, "done", None, None)
<1>1. NotJoining \in Join
  BY DEF NotJoining, Join
<1>2. joining \in [Socket -> Join]
  BY DEF TypeOK, Join
<1> QED
  BY <1>1, <1>2 DEF JoinAt, NotJoining

\* How a departure starts, moves on and ends.
LEMMA LeaveMoves ==
    ASSUME TypeOK, NEW s \in Socket
    PROVE  /\ leaving' = [leaving EXCEPT ![s] = NotLeaving] => LeaveAt(s, "done", None)
           /\ \A a \in {"start", "unsubscribe"} : \A k \in Key \cup {None} :
                leaving' = [leaving EXCEPT ![s] = [at |-> a, key |-> k]] => LeaveAt(s, a, k)
           /\ leaving' = [leaving EXCEPT ![s].at = "remove"] => LeaveAt(s, "remove", leaving[s].key)
<1>1. leaving \in [Socket -> Leave]
  BY DEF TypeOK, Leave
<1>2. NotLeaving \in Leave
  BY DEF NotLeaving, Leave
<1>3. ASSUME leaving' = [leaving EXCEPT ![s] = NotLeaving]
      PROVE  LeaveAt(s, "done", None)
  BY <1>1, <1>2, <1>3 DEF LeaveAt, NotLeaving
<1>4. ASSUME NEW a \in {"start", "unsubscribe"}, NEW k \in Key \cup {None},
             leaving' = [leaving EXCEPT ![s] = [at |-> a, key |-> k]]
      PROVE  LeaveAt(s, a, k)
  <2>1. [at |-> a, key |-> k] \in Leave
    BY DEF Leave
  <2> QED
    BY <1>1, <1>4, <2>1 DEF LeaveAt
<1>5. ASSUME leaving' = [leaving EXCEPT ![s].at = "remove"]
      PROVE  LeaveAt(s, "remove", leaving[s].key)
  <2>1. leaving[s] \in Leave
    BY <1>1
  <2>2. [leaving[s] EXCEPT !.at = "remove"] = [at |-> "remove", key |-> leaving[s].key]
    BY <2>1 DEF Leave
  <2>3. [at |-> "remove", key |-> leaving[s].key] \in Leave
    BY <2>1 DEF Leave
  <2>4. leaving' = [leaving EXCEPT ![s] = [at |-> "remove", key |-> leaving[s].key]]
    BY <1>5, <2>2
  <2> QED
    BY <1>1, <2>3, <2>4 DEF LeaveAt
<1> QED
  BY <1>3, <1>4, <1>5

\* What each step makes of the coroutines.
LEMMA Moves ==
    ASSUME TypeOK, NEW s \in Socket
    PROVE  /\ \A k \in Key : RequestJoin(s, k) => JoinAt(s, "select", k, clients[s])
           /\ \A k \in Key : RequestNewGame(s, k) => JoinAt(s, "insert", k, clients[s])
           /\ SelectKey(s) \/ InsertGame(s)
                => JoinAt(s, "subscribe", joining[s].key, joining[s].old)
           /\ Subscribe(s) => JoinAt(s, "commit", joining[s].key, joining[s].old)
           /\ CommitJoin(s) => JoinAt(s, IF joining[s].old = None THEN "register" ELSE "drop",
                                      joining[s].key, joining[s].old)
           /\ DropOldKey(s) => JoinAt(s, IF clients[s] = None THEN "register" ELSE "remove",
                                      joining[s].key, joining[s].old)
           /\ Refuse(s) \/ FailJoin(s) \/ Register(s) => JoinAt(s, "done", None, None)
           /\ RemoveOldKey(s) =>
                IF RaisesKeyError(s, joining[s].old) THEN JoinAt(s, "done", None, None)
                ELSE JoinAt(s, "register", joining[s].key, joining[s].old)
           /\ Close(s) => LeaveAt(s, "start", None)
           /\ StartLeaving(s) =>
                IF clients[s] = None THEN LeaveAt(s, "done", None)
                ELSE LeaveAt(s, "unsubscribe", clients[s])
           /\ UnsubscribeKey(s) => LeaveAt(s, "remove", leaving[s].key)
           /\ FinishLeaving(s) => LeaveAt(s, "done", None)
<1>1. ASSUME NEW k \in Key, RequestJoin(s, k)
      PROVE  JoinAt(s, "select", k, clients[s])
  BY <1>1, JoinStarts DEF RequestJoin
<1>2. ASSUME NEW k \in Key, RequestNewGame(s, k)
      PROVE  JoinAt(s, "insert", k, clients[s])
  BY <1>2, JoinStarts DEF RequestNewGame
<1>3. ASSUME SelectKey(s) \/ InsertGame(s)
      PROVE  JoinAt(s, "subscribe", joining[s].key, joining[s].old)
  BY <1>3, JoinMoves DEF SelectKey, InsertGame
<1>4. ASSUME Subscribe(s)
      PROVE  JoinAt(s, "commit", joining[s].key, joining[s].old)
  BY <1>4, JoinMoves DEF Subscribe
<1>5. ASSUME CommitJoin(s)
      PROVE  JoinAt(s, IF joining[s].old = None THEN "register" ELSE "drop",
                    joining[s].key, joining[s].old)
  BY <1>5, JoinMoves DEF CommitJoin
<1>6. ASSUME DropOldKey(s)
      PROVE  JoinAt(s, IF clients[s] = None THEN "register" ELSE "remove",
                    joining[s].key, joining[s].old)
  BY <1>6, JoinMoves DEF DropOldKey
<1>7. ASSUME Refuse(s) \/ FailJoin(s) \/ Register(s)
      PROVE  JoinAt(s, "done", None, None)
  BY <1>7, JoinEnds DEF Refuse, FailJoin, Register
<1>8. ASSUME RemoveOldKey(s)
      PROVE  IF RaisesKeyError(s, joining[s].old) THEN JoinAt(s, "done", None, None)
             ELSE JoinAt(s, "register", joining[s].key, joining[s].old)
  BY <1>8, JoinEnds, JoinMoves DEF RemoveOldKey
<1>9. ASSUME Close(s)
      PROVE  LeaveAt(s, "start", None)
  BY <1>9, LeaveMoves DEF Close
<1>10. ASSUME StartLeaving(s)
       PROVE  IF clients[s] = None THEN LeaveAt(s, "done", None)
              ELSE LeaveAt(s, "unsubscribe", clients[s])
  BY <1>10, LeaveMoves DEF StartLeaving, TypeOK
<1>11. ASSUME UnsubscribeKey(s)
       PROVE  LeaveAt(s, "remove", leaving[s].key)
  BY <1>11, LeaveMoves DEF UnsubscribeKey
<1>12. ASSUME FinishLeaving(s)
       PROVE  LeaveAt(s, "done", None)
  BY <1>12, LeaveMoves DEF FinishLeaving
<1> QED
  BY <1>1, <1>2, <1>3, <1>4, <1>5, <1>6, <1>7, <1>8, <1>9, <1>10, <1>11, <1>12

\* No step disturbs the types.
LEMMA NextTypes ==
    ASSUME Types, [Next]_vars
    PROVE  Types'
<1> USE DEF Types
<1>1. ASSUME NEW s \in Socket, Connect(s)
      PROVE  Types'
  BY <1>1 DEF TypeOK, Joining, Connect, maps, table, connection
<1>2. ASSUME NEW s \in Socket, NEW k \in Key, RequestJoin(s, k)
      PROVE  Types'
  BY <1>2 DEF TypeOK, Joining, RequestJoin, maps, table, connection
<1>3. ASSUME NEW s \in Socket, NEW k \in Key, RequestNewGame(s, k)
      PROVE  Types'
  BY <1>3 DEF TypeOK, Joining, RequestNewGame, maps, table, connection
<1>4. ASSUME NEW s \in Socket, SelectKey(s)
      PROVE  Types'
  BY <1>4 DEF TypeOK, Joining, SelectKey, maps, table, connection
<1>5. ASSUME NEW s \in Socket, InsertGame(s)
      PROVE  Types'
  BY <1>5 DEF TypeOK, Joining, InsertGame, maps, table, connection
<1>6. ASSUME NEW s \in Socket, Refuse(s)
      PROVE  Types'
  <2>1. JoinAt(s, "done", None, None)
    BY <1>6, Moves
  <2> QED
    BY <1>6, <2>1 DEF TypeOK, Joining, Join, JoinAt, Refuse, maps, table, connection
<1>7. ASSUME NEW s \in Socket, Subscribe(s)
      PROVE  Types'
  <2>1. JoinAt(s, "commit", joining[s].key, joining[s].old)
    BY <1>7, Moves
  <2> QED
    BY <1>7, <2>1 DEF TypeOK, Joining, Join, JoinAt, Subscribe, maps, table
<1>8. ASSUME NEW s \in Socket, CommitJoin(s)
      PROVE  Types'
  <2>1. JoinAt(s, IF joining[s].old = None THEN "register" ELSE "drop",
                   joining[s].key, joining[s].old)
    BY <1>8, Moves
  <2> QED
    BY <1>8, <2>1 DEF TypeOK, Joining, CommitJoin, maps, connection, Exchanged
<1>9. ASSUME NEW s \in Socket, FailJoin(s)
      PROVE  Types'
  <2>1. JoinAt(s, "done", None, None)
    BY <1>9, Moves
  <2> QED
    BY <1>9, <2>1 DEF TypeOK, Joining, Join, JoinAt, FailJoin, maps, table, connection,
       Exchanged
<1>10. ASSUME NEW s \in Socket, DropOldKey(s)
       PROVE  Types'
  <2>1. JoinAt(s, IF clients[s] = None THEN "register" ELSE "remove",
                   joining[s].key, joining[s].old)
    BY <1>10, Moves
  <2> QED
    BY <1>10, <2>1, NoneAssumption DEF TypeOK, Joining, DropOldKey, maps, table,
       connection
<1>11. ASSUME NEW s \in Socket, RemoveOldKey(s)
       PROVE  Types'
  <2>1. \/ JoinAt(s, "done", None, None)
       \/ JoinAt(s, "register", joining[s].key, joining[s].old)
    BY <1>11, Moves
  <2> QED
    BY <1>11, <2>1 DEF TypeOK, Joining, Join, JoinAt, RemoveOldKey, table, Forget,
       DropListeners, DropPlayerKey
<1>12. ASSUME NEW s \in Socket, Register(s)
       PROVE  Types'
  <2>1. JoinAt(s, "done", None, None)
    BY <1>12, Moves
  <2> QED
    BY <1>12, <2>1 DEF TypeOK, Joining, Join, JoinAt, Register, table, connection, TakeKey
<1>13. ASSUME NEW s \in Socket, Close(s)
       PROVE  Types'
  BY <1>13 DEF TypeOK, Joining, Close, maps, table, connection
<1>14. ASSUME NEW s \in Socket, StartLeaving(s)
       PROVE  Types'
  <2>1. IF clients[s] = None THEN LeaveAt(s, "done", None)
       ELSE LeaveAt(s, "unsubscribe", clients[s])
    BY <1>14, Moves
  <2> QED
    BY <1>14, <2>1 DEF TypeOK, Joining, Leave, LeaveAt, StartLeaving, maps, table,
       connection
<1>15. ASSUME NEW s \in Socket, UnsubscribeKey(s)
       PROVE  Types'
  <2>1. LeaveAt(s, "remove", leaving[s].key)
    BY <1>15, Moves
  <2> QED
    BY <1>15, <2>1 DEF TypeOK, Joining, Leave, LeaveAt, UnsubscribeKey, maps, connection
<1>16. ASSUME NEW s \in Socket, FinishLeaving(s)
       PROVE  Types'
  <2>1. LeaveAt(s, "done", None)
    BY <1>16, Moves
  <2> QED
    BY <1>16, <2>1 DEF TypeOK, Joining, Leave, LeaveAt, FinishLeaving, table, Forget,
       DropListeners, DropPlayerKey
<1>17. CASE LoseListener
  BY <1>17 DEF TypeOK, Joining, LoseListener, maps, table
<1>18. CASE Reacquire
  BY <1>18 DEF TypeOK, Joining, Reacquire, maps, table
<1>19. CASE StartResubscribing
  BY <1>19 DEF TypeOK, Joining, StartResubscribing, maps, table, ListenedKeys
<1>20. ASSUME NEW k \in Key, Resubscribe(k)
       PROVE  Types'
  BY <1>20 DEF TypeOK, Joining, Resubscribe, maps, table
<1>21. ASSUME NEW k \in Key, JoinElsewhere(k)
       PROVE  Types'
  BY <1>21 DEF TypeOK, Joining, JoinElsewhere, maps, connection
<1>22. ASSUME NEW k \in Key, LeaveElsewhere(k)
       PROVE  Types'
  BY <1>22 DEF TypeOK, Joining, LeaveElsewhere, maps, connection
<1>23. CASE Restart
  BY <1>23 DEF TypeOK, Joining, Restart, NotJoining, NotLeaving
<1>24. CASE UNCHANGED vars
  BY <1>24 DEF vars, maps, table, connection, TypeOK, Joining
<1> QED
  BY <1>1, <1>2, <1>3, <1>4, <1>5, <1>6, <1>7, <1>8, <1>9, <1>10, <1>11, <1>12, <1>13, <1>14,
     <1>15, <1>16, <1>17, <1>18, <1>19, <1>20, <1>21, <1>22, <1>23, <1>24 DEF Next

-----------------------------------------------------------------------------
(***************************************************************************)
(* The rows of the keys and their locks.                                   *)
(***************************************************************************)
\* The join of s has the row locked: SELECT ... FOR UPDATE until the commit.
Holder(s) == joining[s].at \in {"subscribe", "commit"}

\* The join of s has made this server the manager of its key in the table.
Committed(s) == joining[s].at \in {"drop", "remove", "register"}

\* What refers to a key refers to one that new_game has written.
KeysCreated ==
    /\ \A k \in Key : managed_by[k] # None => k \in created
    /\ \A s \in Socket :
        /\ clients[s] \in created \cup {None}
        /\ leaving[s].at \in {"unsubscribe", "remove"} => leaving[s].key \in created

\* The same of a join, at the statements where its key is in the table.
JoinCreated(j) ==
    /\ j.old \in created \cup {None}
    /\ j.at \in {"select", "drop", "remove", "register"} => j.key \in created
    /\ j.at \in {"drop", "remove"} => j.old # None
    /\ j.at = "insert" => j.key \notin created

\* The same of all joins.
JoinsCreated == \A s \in Socket : JoinCreated(joining[s])

\* A key that new_game has not committed yet is in no other coroutine.
FreshKeysApart ==
    \A s, t \in Socket :
        /\ joining[s].at \in {"insert", "subscribe", "commit"}
        /\ joining[s].key \notin created
        /\ t # s
        => joining[t].key # joining[s].key

\* Two transactions never hold the row of one key.
LocksExclude ==
    \A s, t \in Socket :
        Holder(s) /\ Holder(t) /\ s # t =>
            /\ joining[s].key # joining[t].key
            /\ joining[s].old # None => joining[s].old # joining[t].old

\* A row stays as the SELECT found it until its holder commits.
LockedColumns ==
    \A s \in Socket :
        Holder(s) => /\ managed_by[joining[s].key] = None
                     /\ MayGiveUp(joining[s].old)

\* What the row locks of the transactions give: the columns are only changed
\* by the holder of the lock.
RowsInv ==
    /\ KeysCreated
    /\ JoinsCreated
    /\ FreshKeysApart
    /\ LocksExclude
    /\ LockedColumns

-----------------------------------------------------------------------------
(***************************************************************************)
(* Each action keeps that.                                                 *)
(***************************************************************************)
\* A new socket.
LEMMA ConnectRows ==
    ASSUME Types, RowsInv, NEW s \in Socket, Connect(s)
    PROVE  RowsInv'
<1> USE DEF RowsInv
<1>1. KeysCreated' /\ JoinsCreated' /\ FreshKeysApart' /\ LocksExclude' /\ LockedColumns'
  BY DEF KeysCreated, JoinsCreated, FreshKeysApart, LocksExclude, LockedColumns,
     JoinCreated, MayGiveUp, Holder, Connect, maps, table, connection
<1> QED
  BY <1>1

\* A request to join.
LEMMA RequestJoinRows ==
    ASSUME Types, RowsInv, NEW s \in Socket, NEW k \in Key, RequestJoin(s, k)
    PROVE  RowsInv'
<1> USE DEF RowsInv
<1>1. JoinsCreated'
  BY DEF JoinsCreated, JoinCreated, KeysCreated, RequestJoin, table
<1>2. FreshKeysApart'
  BY DEF FreshKeysApart, RequestJoin, table
<1>3. LocksExclude'
  BY DEF LocksExclude, Holder, RequestJoin
<1>4. LockedColumns'
  BY DEF LockedColumns, Holder, MayGiveUp, RequestJoin, table
<1>5. KeysCreated'
  BY DEF KeysCreated, RequestJoin, maps, table
<1> QED
  BY <1>1, <1>2, <1>3, <1>4, <1>5

\* A request for a new game.
LEMMA RequestNewGameRows ==
    ASSUME Types, RowsInv, NEW s \in Socket, NEW k \in Key, RequestNewGame(s, k)
    PROVE  RowsInv'
<1> USE DEF RowsInv
<1>1. JoinsCreated'
  BY DEF JoinsCreated, JoinCreated, KeysCreated, RequestNewGame, table, Fresh
<1>2. FreshKeysApart'
  BY DEF FreshKeysApart, RequestNewGame, table, Fresh
<1>3. LocksExclude'
  BY DEF LocksExclude, Holder, RequestNewGame
<1>4. LockedColumns'
  BY DEF LockedColumns, Holder, MayGiveUp, RequestNewGame, table
<1>5. KeysCreated'
  BY DEF KeysCreated, RequestNewGame, maps, table
<1> QED
  BY <1>1, <1>2, <1>3, <1>4, <1>5

\* The SELECT of a join.
LEMMA SelectKeyRows ==
    ASSUME Types, RowsInv, NEW s \in Socket, SelectKey(s)
    PROVE  RowsInv'
<1> USE DEF RowsInv
<1>1. JoinsCreated'
  BY DEF JoinsCreated, JoinCreated, SelectKey, table
<1>2. FreshKeysApart'
  BY DEF FreshKeysApart, JoinsCreated, JoinCreated, SelectKey, table
<1>3. LocksExclude'
  BY DEF LocksExclude, Holder, JoinsCreated, JoinCreated, SelectKey, Locked
<1>4. LockedColumns'
  BY DEF LockedColumns, Holder, MayGiveUp, SelectKey, table
<1>5. KeysCreated'
  BY DEF KeysCreated, SelectKey, maps, table
<1> QED
  BY <1>1, <1>2, <1>3, <1>4, <1>5

\* The INSERT of a new game.
LEMMA InsertGameRows ==
    ASSUME Types, RowsInv, NEW s \in Socket, InsertGame(s)
    PROVE  RowsInv'
<1> USE DEF RowsInv
<1>1. JoinAt(s, "subscribe", joining[s].key, joining[s].old)
  BY Moves DEF Types
<1>2. JoinsCreated'
  BY DEF JoinsCreated, JoinCreated, InsertGame, table
<1>3. FreshKeysApart'
  BY DEF FreshKeysApart, InsertGame, table
<1>4. LocksExclude'
  BY DEF LocksExclude, Holder, FreshKeysApart, JoinsCreated, JoinCreated, InsertGame,
     Locked
<1>5. LockedColumns'
  <2>1. managed_by[joining[s].key] = None /\ MayGiveUp(joining[s].old)
    BY DEF InsertGame, JoinsCreated, JoinCreated, KeysCreated, Types, Joining
  <2>2. UNCHANGED managed_by
    BY DEF InsertGame, table
  <2> QED
    BY <1>1, <2>1, <2>2 DEF LockedColumns, Holder, MayGiveUp, JoinAt
<1>6. KeysCreated'
  BY DEF KeysCreated, InsertGame, maps, table
<1> QED
  BY <1>2, <1>3, <1>4, <1>5, <1>6

\* A refusal.
LEMMA RefuseRows ==
    ASSUME Types, RowsInv, NEW s \in Socket, Refuse(s)
    PROVE  RowsInv'
<1> USE DEF RowsInv
<1>1. JoinAt(s, "done", None, None)
  BY Moves DEF Types
<1>2. JoinsCreated'
  BY <1>1 DEF JoinsCreated, JoinCreated, JoinAt, Refuse, table
<1>3. FreshKeysApart'
  BY <1>1, NoneAssumption DEF FreshKeysApart, Types, Joining, JoinAt, Refuse, table
<1>4. LocksExclude'
  BY <1>1 DEF LocksExclude, Holder, JoinAt
<1>5. LockedColumns'
  BY <1>1 DEF LockedColumns, Holder, MayGiveUp, JoinAt, Refuse, table
<1>6. KeysCreated'
  BY DEF KeysCreated, Refuse, maps, table
<1> QED
  BY <1>2, <1>3, <1>4, <1>5, <1>6

\* Subscribing to the channels of the key.
LEMMA SubscribeRows ==
    ASSUME Types, RowsInv, NEW s \in Socket, Subscribe(s)
    PROVE  RowsInv'
<1> USE DEF RowsInv
<1>1. JoinsCreated'
  BY DEF JoinsCreated, JoinCreated, Subscribe, table
<1>2. FreshKeysApart'
  BY DEF FreshKeysApart, Subscribe, table
<1>3. LocksExclude'
  BY DEF LocksExclude, Holder, Subscribe
<1>4. LockedColumns'
  BY DEF LockedColumns, Holder, MayGiveUp, Subscribe, table
<1>5. KeysCreated'
  BY DEF KeysCreated, Subscribe, maps, table
<1> QED
  BY <1>1, <1>2, <1>3, <1>4, <1>5

\* The commit of a join.
LEMMA CommitJoinRows ==
    ASSUME Types, RowsInv, NEW s \in Socket, CommitJoin(s)
    PROVE  RowsInv'
<1> USE DEF RowsInv
<1>1. JoinAt(s, IF joining[s].old = None THEN "register" ELSE "drop",
                 joining[s].key, joining[s].old)
  BY Moves DEF Types
<1>2. KeysCreated'
  BY DEF KeysCreated, CommitJoin, maps, Exchanged
<1>3. JoinsCreated'
  BY DEF JoinsCreated, JoinCreated, FreshKeysApart, CommitJoin
<1>4. FreshKeysApart'
  BY DEF FreshKeysApart, CommitJoin
<1>5. LocksExclude'
  BY DEF LocksExclude, Holder, CommitJoin
<1>6. LockedColumns'
  <2>1. SUFFICES ASSUME NEW t \in Socket, Holder(t)'
               PROVE  /\ managed_by'[joining'[t].key] = None
                      /\ joining'[t].old # None => managed_by'[joining'[t].old] = "here"
    BY DEF LockedColumns, MayGiveUp
  <2>2. t # s /\ joining'[t] = joining[t] /\ Holder(t)
    BY <1>1, <2>1 DEF Holder, JoinAt
  <2>3. Holder(s)
    BY DEF CommitJoin, Holder
  <2>4. /\ joining[t].key # joining[s].key
        /\ joining[s].old # None => joining[s].old # joining[t].old
    BY <2>2, <2>3 DEF LocksExclude
  <2>5. managed_by[joining[t].key] = None /\ MayGiveUp(joining[t].old)
    BY <2>2 DEF LockedColumns
  <2>6. joining[t].key \in Key /\ joining[t].old \in Key \cup {None}
    BY <2>2 DEF Holder, Types, TypeOK, Joining
  <2> QED
    BY <2>4, <2>5, <2>6 DEF CommitJoin, Exchanged, MayGiveUp
<1> QED
  BY <1>2, <1>3, <1>4, <1>5, <1>6

\* A join that raises.
LEMMA FailJoinRows ==
    ASSUME Types, RowsInv, NEW s \in Socket, FailJoin(s)
    PROVE  RowsInv'
<1> USE DEF RowsInv
<1>1. JoinAt(s, "done", None, None)
  BY Moves DEF Types
<1>2. KeysCreated'
  BY DEF KeysCreated, FailJoin, maps, table, Exchanged
<1>3. JoinsCreated'
  BY <1>1 DEF JoinsCreated, JoinCreated, FreshKeysApart, JoinAt, FailJoin, table
<1>4. FreshKeysApart'
  BY <1>1, NoneAssumption DEF FreshKeysApart, Types, Joining, JoinAt, FailJoin, table
<1>5. LocksExclude'
  BY <1>1 DEF LocksExclude, Holder, JoinAt
<1>6. LockedColumns'
  <2>1. CASE joining[s].at = "commit" /\ managed_by' = Exchanged(s)
    <3>1. SUFFICES ASSUME NEW t \in Socket, Holder(t)'
                 PROVE  /\ managed_by'[joining'[t].key] = None
                        /\ joining'[t].old # None => managed_by'[joining'[t].old] = "here"
      BY DEF LockedColumns, MayGiveUp
    <3>2. t # s /\ joining'[t] = joining[t] /\ Holder(t)
      BY <1>1, <3>1 DEF Holder, JoinAt
    <3>3. Holder(s)
      BY <2>1 DEF Holder
    <3>4. /\ joining[t].key # joining[s].key
          /\ joining[s].old # None => joining[s].old # joining[t].old
      BY <3>2, <3>3 DEF LocksExclude
    <3>5. managed_by[joining[t].key] = None /\ MayGiveUp(joining[t].old)
      BY <3>2 DEF LockedColumns
    <3>6. joining[t].key \in Key /\ joining[t].old \in Key \cup {None}
      BY <3>2 DEF Holder, Types, TypeOK, Joining
    <3> QED
      BY <3>2, <3>4, <3>5, <3>6, <2>1 DEF Exchanged, MayGiveUp
  <2>2. CASE UNCHANGED managed_by
    BY <1>1, <2>2 DEF LockedColumns, Holder, MayGiveUp, JoinAt
  <2> QED
    BY <2>1, <2>2 DEF FailJoin, table
<1> QED
  BY <1>2, <1>3, <1>4, <1>5, <1>6

\* The start of giving up the old key.
LEMMA DropOldKeyRows ==
    ASSUME Types, RowsInv, NEW s \in Socket, DropOldKey(s)
    PROVE  RowsInv'
<1> USE DEF RowsInv
<1>1. JoinsCreated'
  BY DEF JoinsCreated, JoinCreated, DropOldKey, table
<1>2. FreshKeysApart'
  BY DEF FreshKeysApart, DropOldKey, table
<1>3. LocksExclude'
  BY DEF LocksExclude, Holder, DropOldKey
<1>4. LockedColumns'
  BY DEF LockedColumns, Holder, MayGiveUp, DropOldKey, table
<1>5. KeysCreated'
  BY DEF KeysCreated, DropOldKey, maps, table
<1> QED
  BY <1>1, <1>2, <1>3, <1>4, <1>5

\* The end of giving up the old key.
LEMMA RemoveOldKeyRows ==
    ASSUME Types, RowsInv, NEW s \in Socket, RemoveOldKey(s)
    PROVE  RowsInv'
<1> USE DEF RowsInv
<1>1. \/ JoinAt(s, "done", None, None)
     \/ JoinAt(s, "register", joining[s].key, joining[s].old)
  BY Moves DEF Types
<1>2. KeysCreated'
  BY DEF KeysCreated, RemoveOldKey, table, Forget
<1>3. JoinsCreated'
  BY <1>1 DEF JoinsCreated, JoinCreated, JoinAt, RemoveOldKey, table
<1>4. FreshKeysApart'
  BY <1>1, NoneAssumption DEF FreshKeysApart, Types, Joining, JoinAt, RemoveOldKey, table
<1>5. LocksExclude'
  BY <1>1 DEF LocksExclude, Holder, JoinAt
<1>6. LockedColumns'
  BY <1>1 DEF LockedColumns, Holder, MayGiveUp, JoinAt, RemoveOldKey, table
<1> QED
  BY <1>2, <1>3, <1>4, <1>5, <1>6

\* Entering the maps.
LEMMA RegisterRows ==
    ASSUME Types, RowsInv, NEW s \in Socket, Register(s)
    PROVE  RowsInv'
<1> USE DEF RowsInv
<1>1. JoinAt(s, "done", None, None)
  BY Moves DEF Types
<1>2. KeysCreated'
  BY DEF KeysCreated, JoinsCreated, JoinCreated, Register, table
<1>3. JoinsCreated'
  BY <1>1 DEF JoinsCreated, JoinCreated, JoinAt, Register, table
<1>4. FreshKeysApart'
  BY <1>1, NoneAssumption DEF FreshKeysApart, Types, Joining, JoinAt, Register, table
<1>5. LocksExclude'
  BY <1>1 DEF LocksExclude, Holder, JoinAt
<1>6. LockedColumns'
  BY <1>1 DEF LockedColumns, Holder, MayGiveUp, JoinAt, Register, table
<1> QED
  BY <1>2, <1>3, <1>4, <1>5, <1>6

\* A disconnect.
LEMMA CloseRows ==
    ASSUME Types, RowsInv, NEW s \in Socket, Close(s)
    PROVE  RowsInv'
<1> USE DEF RowsInv
<1>1. KeysCreated'
  BY DEF KeysCreated, Close, maps, table
<1>2. JoinsCreated' /\ FreshKeysApart' /\ LocksExclude' /\ LockedColumns'
  BY DEF JoinsCreated, FreshKeysApart, LocksExclude, LockedColumns, JoinCreated,
     MayGiveUp, Holder, Close, table, connection
<1> QED
  BY <1>1, <1>2

\* The start of unsubscribe.
LEMMA StartLeavingRows ==
    ASSUME Types, RowsInv, NEW s \in Socket, StartLeaving(s)
    PROVE  RowsInv'
<1> USE DEF RowsInv
<1>1. IF clients[s] = None THEN LeaveAt(s, "done", None)
     ELSE LeaveAt(s, "unsubscribe", clients[s])
  BY Moves DEF Types
<1>2. KeysCreated'
  BY <1>1 DEF KeysCreated, LeaveAt, StartLeaving, maps, table
<1>3. JoinsCreated' /\ FreshKeysApart' /\ LocksExclude' /\ LockedColumns'
  BY DEF JoinsCreated, FreshKeysApart, LocksExclude, LockedColumns, JoinCreated,
     MayGiveUp, Holder, StartLeaving, table, connection
<1> QED
  BY <1>2, <1>3

\* The commit of unsubscribe.
LEMMA UnsubscribeKeyRows ==
    ASSUME Types, RowsInv, NEW s \in Socket, UnsubscribeKey(s)
    PROVE  RowsInv'
<1> USE DEF RowsInv
<1>1. KeysCreated'
  BY DEF KeysCreated, UnsubscribeKey, maps
<1>2. LockedColumns'
  BY DEF LockedColumns, Holder, MayGiveUp, KeysCreated, UnsubscribeKey, Locked
<1>3. JoinsCreated' /\ FreshKeysApart' /\ LocksExclude'
  BY DEF JoinsCreated, FreshKeysApart, LocksExclude, JoinCreated, Holder, UnsubscribeKey
<1> QED
  BY <1>1, <1>2, <1>3

\* The end of unsubscribe.
LEMMA FinishLeavingRows ==
    ASSUME Types, RowsInv, NEW s \in Socket, FinishLeaving(s)
    PROVE  RowsInv'
<1> USE DEF RowsInv
<1>1. LeaveAt(s, "done", None)
  BY Moves DEF Types
<1>2. KeysCreated'
  BY <1>1 DEF KeysCreated, LeaveAt, FinishLeaving, table, Forget
<1>3. JoinsCreated' /\ FreshKeysApart' /\ LocksExclude' /\ LockedColumns'
  BY DEF JoinsCreated, FreshKeysApart, LocksExclude, LockedColumns, JoinCreated,
     MayGiveUp, Holder, FinishLeaving, table
<1> QED
  BY <1>2, <1>3

\* Losing the listener connection.
LEMMA LoseListenerRows ==
    ASSUME Types, RowsInv, LoseListener
    PROVE  RowsInv'
<1> USE DEF RowsInv
<1>1. KeysCreated' /\ JoinsCreated' /\ FreshKeysApart' /\ LocksExclude' /\ LockedColumns'
  BY DEF KeysCreated, JoinsCreated, FreshKeysApart, LocksExclude, LockedColumns,
     JoinCreated, MayGiveUp, Holder, LoseListener, maps, table
<1> QED
  BY <1>1

\* A new listener connection.
LEMMA ReacquireRows ==
    ASSUME Types, RowsInv, Reacquire
    PROVE  RowsInv'
<1> USE DEF RowsInv
<1>1. KeysCreated' /\ JoinsCreated' /\ FreshKeysApart' /\ LocksExclude' /\ LockedColumns'
  BY DEF KeysCreated, JoinsCreated, FreshKeysApart, LocksExclude, LockedColumns,
     JoinCreated, MayGiveUp, Holder, Reacquire, maps, table
<1> QED
  BY <1>1

\* Taking the lock to resubscribe.
LEMMA StartResubscribingRows ==
    ASSUME Types, RowsInv, StartResubscribing
    PROVE  RowsInv'
<1> USE DEF RowsInv
<1>1. KeysCreated' /\ JoinsCreated' /\ FreshKeysApart' /\ LocksExclude' /\ LockedColumns'
  BY DEF KeysCreated, JoinsCreated, FreshKeysApart, LocksExclude, LockedColumns,
     JoinCreated, MayGiveUp, Holder, StartResubscribing, maps, table
<1> QED
  BY <1>1

\* Resubscribing to one key.
LEMMA ResubscribeRows ==
    ASSUME Types, RowsInv, NEW k \in Key, Resubscribe(k)
    PROVE  RowsInv'
<1> USE DEF RowsInv
<1>1. KeysCreated' /\ JoinsCreated' /\ FreshKeysApart' /\ LocksExclude' /\ LockedColumns'
  BY DEF KeysCreated, JoinsCreated, FreshKeysApart, LocksExclude, LockedColumns,
     JoinCreated, MayGiveUp, Holder, Resubscribe, maps, table
<1> QED
  BY <1>1

\* A join on another server.
LEMMA JoinElsewhereRows ==
    ASSUME Types, RowsInv, NEW k \in Key, JoinElsewhere(k)
    PROVE  RowsInv'
<1> USE DEF RowsInv
<1>1. KeysCreated'
  BY DEF KeysCreated, JoinElsewhere, maps
<1>2. LockedColumns'
  BY DEF LockedColumns, Holder, MayGiveUp, JoinElsewhere, Locked
<1>3. JoinsCreated' /\ FreshKeysApart' /\ LocksExclude'
  BY DEF JoinsCreated, FreshKeysApart, LocksExclude, JoinCreated, Holder, JoinElsewhere
<1> QED
  BY <1>1, <1>2, <1>3

\* A departure on another server.
LEMMA LeaveElsewhereRows ==
    ASSUME Types, RowsInv, NEW k \in Key, LeaveElsewhere(k)
    PROVE  RowsInv'
<1> USE DEF RowsInv
<1>1. KeysCreated'
  BY DEF KeysCreated, LeaveElsewhere, maps
<1>2. LockedColumns'
  BY DEF LockedColumns, Holder, MayGiveUp, LeaveElsewhere
<1>3. JoinsCreated' /\ FreshKeysApart' /\ LocksExclude'
  BY DEF JoinsCreated, FreshKeysApart, LocksExclude, JoinCreated, Holder, LeaveElsewhere
<1> QED
  BY <1>1, <1>2, <1>3

\* A restart.
LEMMA RestartRows ==
    ASSUME Types, RowsInv, Restart
    PROVE  RowsInv'
<1> USE DEF RowsInv
<1>1. KeysCreated'
  BY DEF KeysCreated, Restart, NotLeaving
<1>2. JoinsCreated'
  BY DEF JoinsCreated, JoinCreated, Restart, NotJoining
<1>3. FreshKeysApart'
  BY DEF FreshKeysApart, Restart, NotJoining
<1>4. LocksExclude'
  BY DEF LocksExclude, Holder, Restart, NotJoining
<1>5. LockedColumns'
  BY DEF LockedColumns, Holder, Restart, NotJoining
<1> QED
  BY <1>1, <1>2, <1>3, <1>4, <1>5

\* No step disturbs it, however the coroutines overlap and whatever fails.
LEMMA NextRows ==
    ASSUME Types, RowsInv, [Next]_vars
    PROVE  RowsInv'
<1>1. ASSUME NEW s \in Socket, Connect(s)
      PROVE  RowsInv'
  BY <1>1, ConnectRows
<1>2. ASSUME NEW s \in Socket, NEW k \in Key, RequestJoin(s, k)
      PROVE  RowsInv'
  BY <1>2, RequestJoinRows
<1>3. ASSUME NEW s \in Socket, NEW k \in Key, RequestNewGame(s, k)
      PROVE  RowsInv'
  BY <1>3, RequestNewGameRows
<1>4. ASSUME NEW s \in Socket, SelectKey(s)
      PROVE  RowsInv'
  BY <1>4, SelectKeyRows
<1>5. ASSUME NEW s \in Socket, InsertGame(s)
      PROVE  RowsInv'
  BY <1>5, InsertGameRows
<1>6. ASSUME NEW s \in Socket, Refuse(s)
      PROVE  RowsInv'
  BY <1>6, RefuseRows
<1>7. ASSUME NEW s \in Socket, Subscribe(s)
      PROVE  RowsInv'
  BY <1>7, SubscribeRows
<1>8. ASSUME NEW s \in Socket, CommitJoin(s)
      PROVE  RowsInv'
  BY <1>8, CommitJoinRows
<1>9. ASSUME NEW s \in Socket, FailJoin(s)
      PROVE  RowsInv'
  BY <1>9, FailJoinRows
<1>10. ASSUME NEW s \in Socket, DropOldKey(s)
       PROVE  RowsInv'
  BY <1>10, DropOldKeyRows
<1>11. ASSUME NEW s \in Socket, RemoveOldKey(s)
       PROVE  RowsInv'
  BY <1>11, RemoveOldKeyRows
<1>12. ASSUME NEW s \in Socket, Register(s)
       PROVE  RowsInv'
  BY <1>12, RegisterRows
<1>13. ASSUME NEW s \in Socket, Close(s)
       PROVE  RowsInv'
  BY <1>13, CloseRows
<1>14. ASSUME NEW s \in Socket, StartLeaving(s)
       PROVE  RowsInv'
  BY <1>14, StartLeavingRows
<1>15. ASSUME NEW s \in Socket, UnsubscribeKey(s)
       PROVE  RowsInv'
  BY <1>15, UnsubscribeKeyRows
<1>16. ASSUME NEW s \in Socket, FinishLeaving(s)
       PROVE  RowsInv'
  BY <1>16, FinishLeavingRows
<1>17. CASE LoseListener
  BY <1>17, LoseListenerRows
<1>18. CASE Reacquire
  BY <1>18, ReacquireRows
<1>19. CASE StartResubscribing
  BY <1>19, StartResubscribingRows
<1>20. ASSUME NEW k \in Key, Resubscribe(k)
       PROVE  RowsInv'
  BY <1>20, ResubscribeRows
<1>21. ASSUME NEW k \in Key, JoinElsewhere(k)
       PROVE  RowsInv'
  BY <1>21, JoinElsewhereRows
<1>22. ASSUME NEW k \in Key, LeaveElsewhere(k)
       PROVE  RowsInv'
  BY <1>22, LeaveElsewhereRows
<1>23. CASE Restart
  BY <1>23, RestartRows
<1>24. CASE UNCHANGED vars
  BY <1>24 DEF vars, maps, table, connection, RowsInv, KeysCreated, JoinsCreated,
     JoinCreated, FreshKeysApart, LocksExclude, LockedColumns,  MayGiveUp, Holder
<1> QED
  BY <1>1, <1>2, <1>3, <1>4, <1>5, <1>6, <1>7, <1>8, <1>9, <1>10, <1>11, <1>12, <1>13, <1>14,
     <1>15, <1>16, <1>17, <1>18, <1>19, <1>20, <1>21, <1>22, <1>23, <1>24 DEF Next

-----------------------------------------------------------------------------
(***************************************************************************)
(* Keys are leases.                                                        *)
(***************************************************************************)
\* The server starts with no client, on a table without managed keys.
LEMMA InitRows == Init => Types /\ RowsInv
BY NoneAssumption DEF Init, Types, TypeOK, Joining, NotJoining, NotLeaving, RowsInv,
   KeysCreated, JoinsCreated, JoinCreated, FreshKeysApart, LocksExclude, LockedColumns, Holder

\* The maps, the listeners, the columns and the coroutines keep their types,
\* under any of the faults and however the coroutines overlap.
THEOREM TypeCorrect == Spec => []TypeOK
<1>1. Init => Types
  BY InitRows
<1>2. Spec => []Types
  BY <1>1, NextTypes, PTL DEF Spec
<1> QED
  BY <1>2, PTL DEF Types

\* What a transaction commits is an exchange of keys at that moment, although
\* it read the columns awaits ago.
LEMMA ExchangedIsLease ==
    ASSUME Types, RowsInv, NEW s \in Socket, joining[s].at = "commit", managed_by' = Exchanged(s)
    PROVE  Lease!Next
<1> DEFINE j == joining[s]
           gone == {j.old} \ {None}
<1>1. j.key \in Key /\ j.old \in Key \cup {None}
  BY DEF Types, TypeOK, Joining
<1>2. managed_by[j.key] = None /\ \A k \in gone : managed_by[k] = "here"
  BY DEF RowsInv, LockedColumns, Holder, MayGiveUp
<1>3. managed_by' = [k \in Key |-> IF k \in {j.key} THEN "here"
                                  ELSE IF k \in gone THEN None ELSE managed_by[k]]
  BY <1>1, NoneAssumption DEF Exchanged
<1>4. Lease!Exchange("here", gone, {j.key})
  BY <1>2, <1>3 DEF Lease!Exchange
<1>5. gone \in SUBSET Key /\ {j.key} \in SUBSET Key
  BY <1>1
<1> QED
  BY <1>4, <1>5 DEF Lease!Next

\* Each step exchanges keys of one server, or leaves the column alone.
LEMMA StepOfLease ==
    ASSUME Types, RowsInv, [Next]_vars
    PROVE  Lease!Next \/ UNCHANGED managed_by
<1>0. managed_by \in [Key -> {None, "here", "elsewhere"}]
  BY DEF Types, TypeOK
<1>1. ASSUME NEW s \in Socket, CommitJoin(s) \/ FailJoin(s)
      PROVE  Lease!Next \/ UNCHANGED managed_by
  BY <1>1, ExchangedIsLease DEF CommitJoin, FailJoin, table
<1>2. ASSUME NEW s \in Socket, UnsubscribeKey(s)
      PROVE  Lease!Next \/ UNCHANGED managed_by
  <2> DEFINE k == leaving[s].key
  <2>1. k \in Key
    BY <1>2, NoneAssumption DEF UnsubscribeKey, RowsInv, KeysCreated, Types, TypeOK
  <2>2. CASE managed_by[k] = "here"
    <3>1. Lease!Exchange("here", {k}, {})
      BY <1>0, <1>2, <2>1, <2>2 DEF UnsubscribeKey, Lease!Exchange
    <3> QED
      BY <2>1, <3>1 DEF Lease!Next
  <2>3. CASE managed_by[k] # "here"
    BY <1>0, <1>2, <2>1, <2>3 DEF UnsubscribeKey
  <2> QED
    BY <2>2, <2>3
<1>3. ASSUME NEW k \in Key, JoinElsewhere(k)
      PROVE  Lease!Next
  <2>1. Lease!Exchange("elsewhere", {}, {k})
    BY <1>0, <1>3 DEF JoinElsewhere, Lease!Exchange
  <2> QED
    BY <2>1 DEF Lease!Next
<1>4. ASSUME NEW k \in Key, LeaveElsewhere(k)
      PROVE  Lease!Next
  <2>1. Lease!Exchange("elsewhere", {k}, {})
    BY <1>0, <1>4 DEF LeaveElsewhere, Lease!Exchange
  <2> QED
    BY <2>1 DEF Lease!Next
<1>5. CASE Restart
  <2> DEFINE gone == {k \in Key : managed_by[k] = "here"}
  <2>1. Lease!Exchange("here", gone, {})
    BY <1>0, <1>5 DEF Restart, Lease!Exchange
  <2>2. gone \in SUBSET Key /\ {} \in SUBSET Key
    OBVIOUS
  <2> QED
    BY <2>1, <2>2 DEF Lease!Next
<1>6. ASSUME NEW s \in Socket,
             \/ Connect(s)
             \/ \E k \in Key : RequestJoin(s, k) \/ RequestNewGame(s, k)
             \/ SelectKey(s) \/ InsertGame(s) \/ Refuse(s) \/ Subscribe(s) \/ DropOldKey(s)
             \/ RemoveOldKey(s) \/ Register(s) \/ Close(s) \/ StartLeaving(s)
             \/ FinishLeaving(s)
      PROVE  UNCHANGED managed_by
  BY <1>6 DEF table, Connect, RequestJoin, RequestNewGame, SelectKey, InsertGame, Refuse,
     Subscribe, DropOldKey, RemoveOldKey, Register, Close, StartLeaving, FinishLeaving
<1>7. CASE \/ LoseListener \/ Reacquire \/ StartResubscribing \/ (\E k \in Key : Resubscribe(k))
           \/ UNCHANGED vars
  BY <1>7 DEF vars, table, LoseListener, Reacquire, StartResubscribing, Resubscribe
<1> QED
  BY <1>1, <1>2, <1>3, <1>4, <1>5, <1>6, <1>7 DEF Next

\* The coroutines of the server, each of them many awaits long, and the other
\* server's transactions change who manages a key only as the leases of
\* KeyLease do, also where joins, departures and disconnects overlap and
\* replies are lost: what the row locks are for.
THEOREM LeaseImplemented == Spec => ImplementsLease
<1>1. Init => Lease!Init
  BY DEF Init, Lease!Init
<1>2. Types /\ RowsInv /\ [Next]_vars => (Types /\ RowsInv)'
  BY NextTypes, NextRows
<1>3. Types /\ RowsInv /\ [Next]_vars => [Lease!Next]_managed_by
  BY StepOfLease
<1> QED
  BY <1>1, <1>2, <1>3, InitRows, PTL DEF Spec, ImplementsLease, Lease!Spec

-----------------------------------------------------------------------------
(***************************************************************************)
(* What the server listens for.                                            *)
(***************************************************************************)
\* The key k is on its way out: the row is free, and the listeners for it are
\* still to be removed.
GivenUp(k) ==
    \E s \in Socket : \/ leaving[s].at = "remove" /\ leaving[s].key = k
                      \/ joining[s].at \in {"drop", "remove"} /\ joining[s].old = k

\* Nobody takes such a key meanwhile: this is what ~JoinWhileLeaving gives.
GivenUpNotTaken ==
    \A k \in Key : GivenUp(k) =>
        /\ managed_by[k] # "here"
        /\ \A s \in Socket : Holder(s) => joining[s].key # k

\* The manager listens for k, and a connection that is up has its channels or
\* is about to get them back.
Subscribed(k) ==
    /\ listening[k] # {}
    /\ listener = "up" => k \in heard \cup resubscribing

\* _subscribe_to_updates comes before the commit that makes a key managed.
ManagedSubscribed ==
    /\ \A k \in Key : managed_by[k] = "here" => Subscribed(k)
    /\ \A s \in Socket : joining[s].at = "commit" => Subscribed(joining[s].key)

\* The inductive invariant behind ManagedKeysHeard.
ListenInv ==
    /\ RowsInv
    /\ GivenUpNotTaken
    /\ ManagedSubscribed

-----------------------------------------------------------------------------
(***************************************************************************)
(* Each action keeps that.                                                 *)
(***************************************************************************)
\* A new socket.
LEMMA ConnectListen ==
    ASSUME Types, ListenInv, NEW s \in Socket, Connect(s)
    PROVE  GivenUpNotTaken' /\ ManagedSubscribed'
<1> USE DEF ListenInv, RowsInv
<1>1. GivenUpNotTaken' /\ ManagedSubscribed'
  BY DEF KeysCreated, JoinsCreated, FreshKeysApart, LocksExclude, LockedColumns,
     GivenUpNotTaken, ManagedSubscribed, JoinCreated, MayGiveUp, GivenUp, Holder,
     Subscribed, Connect, maps, table, connection
<1> QED
  BY <1>1

\* A request to join.
LEMMA RequestJoinListen ==
    ASSUME Types, ListenInv, NEW s \in Socket, NEW k \in Key, RequestJoin(s, k)
    PROVE  GivenUpNotTaken' /\ ManagedSubscribed'
<1> USE DEF ListenInv, RowsInv
<1>1. GivenUpNotTaken'
  BY DEF GivenUpNotTaken, GivenUp, Holder, RequestJoin, table
<1>2. ManagedSubscribed'
  BY DEF ManagedSubscribed, Subscribed, RequestJoin, table, connection
<1> QED
  BY <1>1, <1>2

\* A request for a new game.
LEMMA RequestNewGameListen ==
    ASSUME Types, ListenInv, NEW s \in Socket, NEW k \in Key, RequestNewGame(s, k)
    PROVE  GivenUpNotTaken' /\ ManagedSubscribed'
<1> USE DEF ListenInv, RowsInv
<1>1. GivenUpNotTaken'
  BY DEF GivenUpNotTaken, GivenUp, Holder, RequestNewGame, table
<1>2. ManagedSubscribed'
  BY NoneAssumption DEF ManagedSubscribed, Subscribed, RequestNewGame, table, connection
<1> QED
  BY <1>1, <1>2

\* The SELECT of a join.
LEMMA SelectKeyListen ==
    ASSUME Types, ListenInv, NEW s \in Socket, SelectKey(s), ~JoinWhileLeaving
    PROVE  GivenUpNotTaken' /\ ManagedSubscribed'
<1> USE DEF ListenInv, RowsInv
<1>1. GivenUpNotTaken'
  BY DEF GivenUpNotTaken, GivenUp, Holder, SelectKey, table, BeingLeft
<1>2. ManagedSubscribed'
  BY DEF ManagedSubscribed, Subscribed, SelectKey, table, connection
<1> QED
  BY <1>1, <1>2

\* The INSERT of a new game.
LEMMA InsertGameListen ==
    ASSUME Types, ListenInv, NEW s \in Socket, InsertGame(s)
    PROVE  GivenUpNotTaken' /\ ManagedSubscribed'
<1> USE DEF ListenInv, RowsInv
<1>1. GivenUpNotTaken'
  BY DEF GivenUpNotTaken, GivenUp, Holder, KeysCreated, JoinsCreated, JoinCreated,
     InsertGame, table
<1>2. ManagedSubscribed'
  BY DEF ManagedSubscribed, Subscribed, InsertGame, table, connection
<1> QED
  BY <1>1, <1>2

\* A refusal.
LEMMA RefuseListen ==
    ASSUME Types, ListenInv, NEW s \in Socket, Refuse(s)
    PROVE  GivenUpNotTaken' /\ ManagedSubscribed'
<1> USE DEF ListenInv, RowsInv
<1>1. JoinAt(s, "done", None, None)
  BY Moves DEF Types
<1>2. GivenUpNotTaken'
  BY <1>1 DEF GivenUpNotTaken, GivenUp, Holder, JoinAt, Refuse, table
<1>3. ManagedSubscribed'
  BY <1>1 DEF ManagedSubscribed, Subscribed, JoinAt, Refuse, table, connection
<1> QED
  BY <1>2, <1>3

\* Subscribing to the channels of the key.
LEMMA SubscribeListen ==
    ASSUME Types, ListenInv, NEW s \in Socket, Subscribe(s)
    PROVE  GivenUpNotTaken' /\ ManagedSubscribed'
<1> USE DEF ListenInv, RowsInv
<1>1. JoinAt(s, "commit", joining[s].key, joining[s].old)
  BY Moves DEF Types
<1>2. GivenUpNotTaken'
  BY DEF GivenUpNotTaken, GivenUp, Holder, Subscribe, table
<1>3. ManagedSubscribed'
  <2>1. joining[s].key \in Key
    BY DEF Subscribe, Types, Joining
  <2>2. Subscribed(joining[s].key)'
    BY <2>1 DEF Subscribe, Subscribed, Types, TypeOK
  <2>3. \A k \in Key : Subscribed(k) => Subscribed(k)'
    BY DEF Subscribe, Subscribed
  <2>4. UNCHANGED managed_by
    BY DEF Subscribe, table
  <2>5. \A t \in Socket : joining[t].at = "commit" => joining[t].key \in Key
    BY DEF Types, Joining
  <2> QED
    BY <1>1, <2>2, <2>3, <2>4, <2>5 DEF ManagedSubscribed, JoinAt
<1> QED
  BY <1>2, <1>3

\* The commit of a join.
LEMMA CommitJoinListen ==
    ASSUME Types, ListenInv, NEW s \in Socket, CommitJoin(s)
    PROVE  GivenUpNotTaken' /\ ManagedSubscribed'
<1> USE DEF ListenInv, RowsInv
<1>1. JoinAt(s, IF joining[s].old = None THEN "register" ELSE "drop",
                 joining[s].key, joining[s].old)
  BY Moves DEF Types
<1>2. GivenUpNotTaken'
  BY NoneAssumption DEF GivenUpNotTaken, GivenUp, Holder, LockedColumns, MayGiveUp,
     CommitJoin, Exchanged
<1>3. ManagedSubscribed'
  <2>1. Subscribed(joining[s].key)
    BY DEF CommitJoin, ManagedSubscribed
  <2>2. \A k \in Key : Subscribed(k)' <=> Subscribed(k)
    BY DEF CommitJoin, Subscribed, connection
  <2>3. \A k \in Key : managed_by'[k] = "here" => k = joining[s].key \/ managed_by[k] = "here"
    BY NoneAssumption DEF CommitJoin, Exchanged
  <2>4. \A t \in Socket : joining'[t].at = "commit" =>
            joining[t].at = "commit" /\ joining'[t].key = joining[t].key /\ joining[t].key \in Key
    BY <1>1 DEF JoinAt, Types, Joining
  <2> QED
    BY <2>1, <2>2, <2>3, <2>4 DEF ManagedSubscribed
<1> QED
  BY <1>2, <1>3

\* A join that raises.
LEMMA FailJoinListen ==
    ASSUME Types, ListenInv, NEW s \in Socket, FailJoin(s)
    PROVE  GivenUpNotTaken' /\ ManagedSubscribed'
<1> USE DEF ListenInv, RowsInv
<1>1. JoinAt(s, "done", None, None)
  BY Moves DEF Types
<1>2. GivenUpNotTaken'
  BY <1>1, NoneAssumption DEF GivenUpNotTaken, GivenUp, Holder, JoinAt, FailJoin, table,
     Exchanged
<1>3. ManagedSubscribed'
  <2>1. \A k \in Key : Subscribed(k)' <=> Subscribed(k)
    BY DEF FailJoin, Subscribed, connection
  <2>2. \A t \in Socket : joining'[t].at = "commit" =>
            joining[t].at = "commit" /\ joining'[t].key = joining[t].key /\ joining[t].key \in Key
    BY <1>1 DEF JoinAt, Types, Joining
  <2>3. \/ UNCHANGED managed_by
        \/ joining[s].at = "commit" /\ managed_by' = Exchanged(s)
    BY DEF FailJoin, table
  <2>4. \A k \in Key : managed_by'[k] = "here" =>
            managed_by[k] = "here" \/ (joining[s].at = "commit" /\ k = joining[s].key)
    <3>1. CASE UNCHANGED managed_by
      BY <3>1
    <3>2. CASE joining[s].at = "commit" /\ managed_by' = Exchanged(s)
      BY <3>2, NoneAssumption DEF Exchanged
    <3> QED
      BY <2>3, <3>2
  <2> QED
    BY <2>1, <2>2, <2>4 DEF ManagedSubscribed
<1> QED
  BY <1>2, <1>3

\* The start of giving up the old key.
LEMMA DropOldKeyListen ==
    ASSUME Types, ListenInv, NEW s \in Socket, DropOldKey(s)
    PROVE  GivenUpNotTaken' /\ ManagedSubscribed'
<1> USE DEF ListenInv, RowsInv
<1>1. GivenUpNotTaken'
  BY DEF GivenUpNotTaken, GivenUp, Holder, DropOldKey, table
<1>2. ManagedSubscribed'
  BY DEF ManagedSubscribed, Subscribed, DropOldKey, table, connection
<1> QED
  BY <1>1, <1>2

\* The end of giving up the old key.
LEMMA RemoveOldKeyListen ==
    ASSUME Types, ListenInv, NEW s \in Socket, RemoveOldKey(s)
    PROVE  GivenUpNotTaken' /\ ManagedSubscribed'
<1> USE DEF ListenInv, RowsInv
<1>1. \/ JoinAt(s, "done", None, None)
     \/ JoinAt(s, "register", joining[s].key, joining[s].old)
  BY Moves DEF Types
<1>2. GivenUpNotTaken'
  BY <1>1 DEF GivenUpNotTaken, GivenUp, Holder, JoinAt, RemoveOldKey, table
<1>3. ManagedSubscribed'
  <2> DEFINE k == joining[s].old
  <2>1. GivenUp(k) /\ k \in Key
    BY DEF RemoveOldKey, GivenUp, JoinsCreated, JoinCreated, Types, TypeOK
  <2>2. managed_by[k] # "here" /\ \A t \in Socket : joining[t].at = "commit" => joining[t].key # k
    BY <2>1 DEF GivenUpNotTaken, Holder
  <2>3. \A j \in Key \ {k} : Subscribed(j) => Subscribed(j)'
    BY DEF RemoveOldKey, Forget, DropListeners, Subscribed
  <2>4. UNCHANGED managed_by
    BY DEF RemoveOldKey, table
  <2>5. \A t \in Socket : joining'[t].at = "commit" => t # s /\ joining'[t] = joining[t]
    BY <1>1 DEF JoinAt
  <2>6. \A t \in Socket : joining[t].at = "commit" => joining[t].key \in Key
    BY DEF Types, Joining
  <2> QED
    BY <2>2, <2>3, <2>4, <2>5, <2>6 DEF ManagedSubscribed
<1> QED
  BY <1>2, <1>3

\* Entering the maps.
LEMMA RegisterListen ==
    ASSUME Types, ListenInv, NEW s \in Socket, Register(s)
    PROVE  GivenUpNotTaken' /\ ManagedSubscribed'
<1> USE DEF ListenInv, RowsInv
<1>1. JoinAt(s, "done", None, None)
  BY Moves DEF Types
<1>2. GivenUpNotTaken'
  BY <1>1 DEF GivenUpNotTaken, GivenUp, Holder, JoinAt, Register, table
<1>3. ManagedSubscribed'
  BY <1>1 DEF ManagedSubscribed, Subscribed, JoinAt, Register, table, connection
<1> QED
  BY <1>2, <1>3

\* A disconnect.
LEMMA CloseListen ==
    ASSUME Types, ListenInv, NEW s \in Socket, Close(s)
    PROVE  GivenUpNotTaken' /\ ManagedSubscribed'
<1> USE DEF ListenInv, RowsInv
<1>1. GivenUpNotTaken'
  BY DEF GivenUpNotTaken, GivenUp, Holder, Close, table
<1>2. ManagedSubscribed'
  BY DEF JoinsCreated, FreshKeysApart, LocksExclude, LockedColumns, ManagedSubscribed,
     JoinCreated, MayGiveUp, Holder, Subscribed, Close, table, connection
<1> QED
  BY <1>1, <1>2

\* The start of unsubscribe.
LEMMA StartLeavingListen ==
    ASSUME Types, ListenInv, NEW s \in Socket, StartLeaving(s)
    PROVE  GivenUpNotTaken' /\ ManagedSubscribed'
<1> USE DEF ListenInv, RowsInv
<1>1. IF clients[s] = None THEN LeaveAt(s, "done", None)
     ELSE LeaveAt(s, "unsubscribe", clients[s])
  BY Moves DEF Types
<1>2. GivenUpNotTaken'
  BY <1>1 DEF GivenUpNotTaken, GivenUp, Holder, LeaveAt, StartLeaving, table
<1>3. ManagedSubscribed'
  BY DEF JoinsCreated, FreshKeysApart, LocksExclude, LockedColumns, ManagedSubscribed,
     JoinCreated, MayGiveUp, Holder, Subscribed, StartLeaving, table, connection
<1> QED
  BY <1>2, <1>3

\* The commit of unsubscribe.
LEMMA UnsubscribeKeyListen ==
    ASSUME Types, ListenInv, NEW s \in Socket, UnsubscribeKey(s)
    PROVE  GivenUpNotTaken' /\ ManagedSubscribed'
<1> USE DEF ListenInv, RowsInv
<1>1. GivenUpNotTaken'
  BY NoneAssumption DEF GivenUpNotTaken, GivenUp, Types, TypeOK, Holder, KeysCreated,
     UnsubscribeKey, Locked
<1>2. ManagedSubscribed'
  BY DEF ManagedSubscribed, Subscribed, UnsubscribeKey, connection
<1> QED
  BY <1>1, <1>2

\* The end of unsubscribe.
LEMMA FinishLeavingListen ==
    ASSUME Types, ListenInv, NEW s \in Socket, FinishLeaving(s)
    PROVE  GivenUpNotTaken' /\ ManagedSubscribed'
<1> USE DEF ListenInv, RowsInv
<1>1. LeaveAt(s, "done", None)
  BY Moves DEF Types
<1>2. GivenUpNotTaken'
  BY <1>1 DEF GivenUpNotTaken, GivenUp, Holder, LeaveAt, FinishLeaving, table
<1>3. ManagedSubscribed'
  <2> DEFINE k == leaving[s].key
  <2>1. GivenUp(k) /\ k \in Key
    BY DEF FinishLeaving, GivenUp, KeysCreated, Types, TypeOK
  <2>2. managed_by[k] # "here" /\ \A t \in Socket : joining[t].at = "commit" => joining[t].key # k
    BY <2>1 DEF GivenUpNotTaken, Holder
  <2>3. \A j \in Key \ {k} : Subscribed(j) => Subscribed(j)'
    BY DEF FinishLeaving, Forget, DropListeners, Subscribed
  <2>4. UNCHANGED <<managed_by, joining>>
    BY DEF FinishLeaving, table
  <2>5. \A t \in Socket : joining[t].at = "commit" => joining[t].key \in Key
    BY DEF Types, Joining
  <2> QED
    BY <2>2, <2>3, <2>4, <2>5 DEF ManagedSubscribed
<1> QED
  BY <1>2, <1>3

\* Losing the listener connection.
LEMMA LoseListenerListen ==
    ASSUME Types, ListenInv, LoseListener
    PROVE  GivenUpNotTaken' /\ ManagedSubscribed'
<1> USE DEF ListenInv, RowsInv
<1>1. ManagedSubscribed'
  BY DEF ManagedSubscribed, Subscribed, LoseListener, table
<1>2. GivenUpNotTaken'
  BY DEF KeysCreated, JoinsCreated, FreshKeysApart, LocksExclude, LockedColumns,
     GivenUpNotTaken, JoinCreated, MayGiveUp, GivenUp, Holder, LoseListener, maps, table
<1> QED
  BY <1>1, <1>2

\* A new listener connection.
LEMMA ReacquireListen ==
    ASSUME Types, ListenInv, Reacquire
    PROVE  GivenUpNotTaken' /\ ManagedSubscribed'
<1> USE DEF ListenInv, RowsInv
<1>1. ManagedSubscribed'
  BY DEF ManagedSubscribed, Subscribed, Reacquire, table
<1>2. GivenUpNotTaken'
  BY DEF KeysCreated, JoinsCreated, FreshKeysApart, LocksExclude, LockedColumns,
     GivenUpNotTaken, JoinCreated, MayGiveUp, GivenUp, Holder, Reacquire, maps, table
<1> QED
  BY <1>1, <1>2

\* Taking the lock to resubscribe.
LEMMA StartResubscribingListen ==
    ASSUME Types, ListenInv, StartResubscribing
    PROVE  GivenUpNotTaken' /\ ManagedSubscribed'
<1> USE DEF ListenInv, RowsInv
<1>1. ManagedSubscribed'
  BY DEF ManagedSubscribed, Subscribed, StartResubscribing, ListenedKeys, table, Types,
     Joining
<1>2. GivenUpNotTaken'
  BY DEF KeysCreated, JoinsCreated, FreshKeysApart, LocksExclude, LockedColumns,
     GivenUpNotTaken, JoinCreated, MayGiveUp, GivenUp, Holder, StartResubscribing, maps,
     table
<1> QED
  BY <1>1, <1>2

\* Resubscribing to one key.
LEMMA ResubscribeListen ==
    ASSUME Types, ListenInv, NEW k \in Key, Resubscribe(k)
    PROVE  GivenUpNotTaken' /\ ManagedSubscribed'
<1> USE DEF ListenInv, RowsInv
<1>1. ManagedSubscribed'
  BY DEF ManagedSubscribed, Subscribed, Resubscribe, table
<1>2. GivenUpNotTaken'
  BY DEF KeysCreated, JoinsCreated, FreshKeysApart, LocksExclude, LockedColumns,
     GivenUpNotTaken, JoinCreated, MayGiveUp, GivenUp, Holder, Resubscribe, maps, table
<1> QED
  BY <1>1, <1>2

\* A join on another server.
LEMMA JoinElsewhereListen ==
    ASSUME Types, ListenInv, NEW k \in Key, JoinElsewhere(k)
    PROVE  GivenUpNotTaken' /\ ManagedSubscribed'
<1> USE DEF ListenInv, RowsInv
<1>1. GivenUpNotTaken'
  BY DEF GivenUpNotTaken, GivenUp, Holder, JoinElsewhere
<1>2. ManagedSubscribed'
  BY DEF ManagedSubscribed, Subscribed, JoinElsewhere, connection
<1> QED
  BY <1>1, <1>2

\* A departure on another server.
LEMMA LeaveElsewhereListen ==
    ASSUME Types, ListenInv, NEW k \in Key, LeaveElsewhere(k)
    PROVE  GivenUpNotTaken' /\ ManagedSubscribed'
<1> USE DEF ListenInv, RowsInv
<1>1. GivenUpNotTaken'
  BY NoneAssumption DEF GivenUpNotTaken, GivenUp, Holder, LeaveElsewhere
<1>2. ManagedSubscribed'
  BY NoneAssumption DEF ManagedSubscribed, Subscribed, LeaveElsewhere, connection
<1> QED
  BY <1>1, <1>2

\* A restart.
LEMMA RestartListen ==
    ASSUME Types, ListenInv, Restart
    PROVE  GivenUpNotTaken' /\ ManagedSubscribed'
<1> USE DEF ListenInv, RowsInv
<1>1. GivenUpNotTaken'
  BY NoneAssumption DEF GivenUpNotTaken, Restart, NotJoining
<1>2. ManagedSubscribed'
  BY NoneAssumption DEF ManagedSubscribed, Restart, NotJoining
<1> QED
  BY <1>1, <1>2

\* No step disturbs it, while no key is joined before its departure is handled.
LEMMA NextListen ==
    ASSUME Types, ListenInv, ~JoinWhileLeaving, [Next]_vars
    PROVE  ListenInv'
<1>0. SUFFICES GivenUpNotTaken' /\ ManagedSubscribed'
  BY NextRows DEF ListenInv
<1>1. ASSUME NEW s \in Socket, Connect(s)
      PROVE  GivenUpNotTaken' /\ ManagedSubscribed'
  BY <1>1, ConnectListen
<1>2. ASSUME NEW s \in Socket, NEW k \in Key, RequestJoin(s, k)
      PROVE  GivenUpNotTaken' /\ ManagedSubscribed'
  BY <1>2, RequestJoinListen
<1>3. ASSUME NEW s \in Socket, NEW k \in Key, RequestNewGame(s, k)
      PROVE  GivenUpNotTaken' /\ ManagedSubscribed'
  BY <1>3, RequestNewGameListen
<1>4. ASSUME NEW s \in Socket, SelectKey(s)
      PROVE  GivenUpNotTaken' /\ ManagedSubscribed'
  BY <1>4, SelectKeyListen
<1>5. ASSUME NEW s \in Socket, InsertGame(s)
      PROVE  GivenUpNotTaken' /\ ManagedSubscribed'
  BY <1>5, InsertGameListen
<1>6. ASSUME NEW s \in Socket, Refuse(s)
      PROVE  GivenUpNotTaken' /\ ManagedSubscribed'
  BY <1>6, RefuseListen
<1>7. ASSUME NEW s \in Socket, Subscribe(s)
      PROVE  GivenUpNotTaken' /\ ManagedSubscribed'
  BY <1>7, SubscribeListen
<1>8. ASSUME NEW s \in Socket, CommitJoin(s)
      PROVE  GivenUpNotTaken' /\ ManagedSubscribed'
  BY <1>8, CommitJoinListen
<1>9. ASSUME NEW s \in Socket, FailJoin(s)
      PROVE  GivenUpNotTaken' /\ ManagedSubscribed'
  BY <1>9, FailJoinListen
<1>10. ASSUME NEW s \in Socket, DropOldKey(s)
       PROVE  GivenUpNotTaken' /\ ManagedSubscribed'
  BY <1>10, DropOldKeyListen
<1>11. ASSUME NEW s \in Socket, RemoveOldKey(s)
       PROVE  GivenUpNotTaken' /\ ManagedSubscribed'
  BY <1>11, RemoveOldKeyListen
<1>12. ASSUME NEW s \in Socket, Register(s)
       PROVE  GivenUpNotTaken' /\ ManagedSubscribed'
  BY <1>12, RegisterListen
<1>13. ASSUME NEW s \in Socket, Close(s)
       PROVE  GivenUpNotTaken' /\ ManagedSubscribed'
  BY <1>13, CloseListen
<1>14. ASSUME NEW s \in Socket, StartLeaving(s)
       PROVE  GivenUpNotTaken' /\ ManagedSubscribed'
  BY <1>14, StartLeavingListen
<1>15. ASSUME NEW s \in Socket, UnsubscribeKey(s)
       PROVE  GivenUpNotTaken' /\ ManagedSubscribed'
  BY <1>15, UnsubscribeKeyListen
<1>16. ASSUME NEW s \in Socket, FinishLeaving(s)
       PROVE  GivenUpNotTaken' /\ ManagedSubscribed'
  BY <1>16, FinishLeavingListen
<1>17. CASE LoseListener
  BY <1>17, LoseListenerListen
<1>18. CASE Reacquire
  BY <1>18, ReacquireListen
<1>19. CASE StartResubscribing
  BY <1>19, StartResubscribingListen
<1>20. ASSUME NEW k \in Key, Resubscribe(k)
       PROVE  GivenUpNotTaken' /\ ManagedSubscribed'
  BY <1>20, ResubscribeListen
<1>21. ASSUME NEW k \in Key, JoinElsewhere(k)
       PROVE  GivenUpNotTaken' /\ ManagedSubscribed'
  BY <1>21, JoinElsewhereListen
<1>22. ASSUME NEW k \in Key, LeaveElsewhere(k)
       PROVE  GivenUpNotTaken' /\ ManagedSubscribed'
  BY <1>22, LeaveElsewhereListen
<1>23. CASE Restart
  BY <1>23, RestartListen
<1>24. CASE UNCHANGED vars
  BY <1>24 DEF vars, maps, table, connection, ListenInv, KeysCreated, JoinsCreated,
     JoinCreated, FreshKeysApart, LocksExclude, LockedColumns, GivenUpNotTaken, GivenUp,
     ManagedSubscribed, Subscribed, MayGiveUp, Holder
<1> QED
  BY <1>1, <1>2, <1>3, <1>4, <1>5, <1>6, <1>7, <1>8, <1>9, <1>10, <1>11, <1>12, <1>13, <1>14,
     <1>15, <1>16, <1>17, <1>18, <1>19, <1>20, <1>21, <1>22, <1>23, <1>24 DEF Next

-----------------------------------------------------------------------------
(***************************************************************************)
(* The theorems.                                                           *)
(***************************************************************************)
\* At first there is nothing to listen for.
LEMMA InitListen == Init => Types /\ ListenInv
<1>1. Init => GivenUpNotTaken /\ ManagedSubscribed
  BY NoneAssumption DEF Init, NotJoining, NotLeaving, GivenUpNotTaken, GivenUp,
     ManagedSubscribed, Holder
<1> QED
  BY <1>1, InitRows DEF ListenInv

\* So it holds in every state.
LEMMA ListenInductive ==
    ASSUME ~JoinWhileLeaving
    PROVE  Spec => [](Types /\ ListenInv)
<1>1. Types /\ ListenInv /\ [Next]_vars => (Types /\ ListenInv)'
  BY NextTypes, NextListen
<1> QED
  BY <1>1, InitListen, PTL DEF Spec

\* While no key is joined before its last player's departure is handled, the
\* server listens for every key it manages, on every connection that
\* _reconnect_listener has set up to its end: _subscribe_to_updates before the
\* commit, unsubscribe after it, and what a disconnect, a failed commit, a
\* lost reply or the loss of the listener leaves half done cannot undo that.
THEOREM ManagedKeysAreHeard ==
    ASSUME ~JoinWhileLeaving
    PROVE  Spec => []ManagedKeysHeard
<1>1. Types /\ ListenInv => ManagedKeysHeard
  BY DEF ListenInv, ManagedSubscribed, Subscribed, ManagedKeysHeard
<1> QED
  BY <1>1, ListenInductive, PTL

-----------------------------------------------------------------------------
(***************************************************************************)
(* The maps forget the sockets that are gone.                              *)
(***************************************************************************)

\* Only an open socket joins, and only a closed one leaves.
OneAtATime ==
    \A s \in Socket :
        /\ Joining(s) => s \in open
        /\ Leaving(s) => s \notin open

\* What a coroutine read of _clients before an await is still true after it,
\* and a socket with a key is open or its departure is still to come.
KeyRemembered ==
    \A s \in Socket :
        /\ joining[s].at \in {"select", "insert", "subscribe", "commit", "drop", "remove"}
            => joining[s].old = clients[s]
        /\ joining[s].at = "register" => clients[s] = None
        /\ leaving[s].at \in {"unsubscribe", "remove"} => leaving[s].key = clients[s]
        /\ clients[s] # None => s \in open \/ Leaving(s)

\* _player_keys leads only to the socket that has the key.
FoundHoldsKey == \A k \in Key : player_keys[k] # None => clients[player_keys[k]] = k

\* The inductive invariant behind NothingLeftBehind.
MapsInv == OneAtATime /\ KeyRemembered /\ FoundHoldsKey

\* A new socket.
LEMMA ConnectMaps ==
    ASSUME Types, MapsInv, NEW s \in Socket, Connect(s)
    PROVE  MapsInv'
<1> USE DEF MapsInv
<1>1. OneAtATime'
  BY DEF OneAtATime, Joining, Leaving, Connect
<1>2. KeyRemembered'
  BY DEF KeyRemembered, Leaving, Connect, maps
<1>3. FoundHoldsKey'
  BY DEF FoundHoldsKey, Connect, maps
<1> QED
  BY <1>1, <1>2, <1>3

\* A request to join.
LEMMA RequestJoinMaps ==
    ASSUME Types, MapsInv, NEW s \in Socket, NEW k \in Key, RequestJoin(s, k)
    PROVE  MapsInv'
<1> USE DEF MapsInv
<1>1. OneAtATime'
  BY DEF OneAtATime, Joining, Leaving, RequestJoin
<1>2. KeyRemembered'
  BY DEF KeyRemembered, Leaving, RequestJoin, maps
<1>3. FoundHoldsKey'
  BY DEF FoundHoldsKey, RequestJoin, maps
<1> QED
  BY <1>1, <1>2, <1>3

\* A request for a new game.
LEMMA RequestNewGameMaps ==
    ASSUME Types, MapsInv, NEW s \in Socket, NEW k \in Key, RequestNewGame(s, k)
    PROVE  MapsInv'
<1> USE DEF MapsInv
<1>1. OneAtATime'
  BY DEF OneAtATime, Joining, Leaving, RequestNewGame
<1>2. KeyRemembered'
  BY DEF KeyRemembered, Leaving, RequestNewGame, maps
<1>3. FoundHoldsKey'
  BY DEF FoundHoldsKey, RequestNewGame, maps
<1> QED
  BY <1>1, <1>2, <1>3

\* The SELECT of a join.
LEMMA SelectKeyMaps ==
    ASSUME Types, MapsInv, NEW s \in Socket, SelectKey(s)
    PROVE  MapsInv'
<1> USE DEF MapsInv
<1>1. OneAtATime'
  BY DEF OneAtATime, Joining, Leaving, SelectKey
<1>2. KeyRemembered'
  BY DEF KeyRemembered, Leaving, SelectKey, maps
<1>3. FoundHoldsKey'
  BY DEF FoundHoldsKey, SelectKey, maps
<1> QED
  BY <1>1, <1>2, <1>3

\* The INSERT of a new game.
LEMMA InsertGameMaps ==
    ASSUME Types, MapsInv, NEW s \in Socket, InsertGame(s)
    PROVE  MapsInv'
<1> USE DEF MapsInv
<1>1. OneAtATime'
  BY DEF OneAtATime, Joining, Leaving, InsertGame
<1>2. KeyRemembered'
  BY DEF KeyRemembered, Leaving, InsertGame, maps
<1>3. FoundHoldsKey'
  BY DEF FoundHoldsKey, InsertGame, maps
<1> QED
  BY <1>1, <1>2, <1>3

\* A refusal.
LEMMA RefuseMaps ==
    ASSUME Types, MapsInv, NEW s \in Socket, Refuse(s)
    PROVE  MapsInv'
<1> USE DEF MapsInv
<1>1. JoinAt(s, "done", None, None)
  BY Moves DEF Types
<1>2. OneAtATime'
  BY DEF OneAtATime, Joining, Leaving, Refuse
<1>3. KeyRemembered'
  BY <1>1 DEF KeyRemembered, Leaving, JoinAt, Refuse, maps
<1>4. FoundHoldsKey'
  BY DEF FoundHoldsKey, Refuse, maps
<1> QED
  BY <1>2, <1>3, <1>4

\* Subscribing to the channels of the key.
LEMMA SubscribeMaps ==
    ASSUME Types, MapsInv, NEW s \in Socket, Subscribe(s)
    PROVE  MapsInv'
<1> USE DEF MapsInv
<1>1. OneAtATime'
  BY DEF OneAtATime, Joining, Leaving, Subscribe
<1>2. KeyRemembered'
  BY DEF KeyRemembered, Leaving, Subscribe, maps
<1>3. FoundHoldsKey'
  BY DEF FoundHoldsKey, Subscribe, maps
<1> QED
  BY <1>1, <1>2, <1>3

\* The commit of a join.
LEMMA CommitJoinMaps ==
    ASSUME Types, MapsInv, NEW s \in Socket, CommitJoin(s)
    PROVE  MapsInv'
<1> USE DEF MapsInv
<1>1. OneAtATime'
  BY DEF OneAtATime, Joining, Leaving, CommitJoin
<1>2. KeyRemembered'
  BY DEF KeyRemembered, Leaving, CommitJoin, maps
<1>3. FoundHoldsKey'
  BY DEF FoundHoldsKey, CommitJoin, maps
<1> QED
  BY <1>1, <1>2, <1>3

\* A join that raises.
LEMMA FailJoinMaps ==
    ASSUME Types, MapsInv, NEW s \in Socket, FailJoin(s)
    PROVE  MapsInv'
<1> USE DEF MapsInv
<1>1. JoinAt(s, "done", None, None)
  BY Moves DEF Types
<1>2. OneAtATime'
  BY DEF OneAtATime, Joining, Leaving, FailJoin
<1>3. KeyRemembered'
  BY <1>1 DEF KeyRemembered, Leaving, JoinAt, FailJoin, maps
<1>4. FoundHoldsKey'
  BY DEF FoundHoldsKey, FailJoin, maps
<1> QED
  BY <1>2, <1>3, <1>4

\* The start of giving up the old key.
LEMMA DropOldKeyMaps ==
    ASSUME Types, MapsInv, NEW s \in Socket, DropOldKey(s)
    PROVE  MapsInv'
<1> USE DEF MapsInv
<1>1. OneAtATime'
  BY DEF OneAtATime, Joining, Leaving, DropOldKey
<1>2. KeyRemembered'
  BY DEF KeyRemembered, Leaving, DropOldKey, maps
<1>3. FoundHoldsKey'
  BY DEF FoundHoldsKey, DropOldKey, maps
<1> QED
  BY <1>1, <1>2, <1>3

\* The end of giving up the old key.
LEMMA RemoveOldKeyMaps ==
    ASSUME Types, MapsInv, NEW s \in Socket, RemoveOldKey(s)
    PROVE  MapsInv'
<1> USE DEF MapsInv
<1>1. \/ JoinAt(s, "done", None, None)
     \/ JoinAt(s, "register", joining[s].key, joining[s].old)
  BY Moves DEF Types
<1>2. OneAtATime'
  BY DEF OneAtATime, Joining, Leaving, RemoveOldKey
<1>3. KeyRemembered'
  BY <1>1 DEF KeyRemembered, OneAtATime, Joining, Leaving, Types, TypeOK, JoinAt,
     RemoveOldKey, Forget
<1>4. FoundHoldsKey'
  BY DEF FoundHoldsKey, KeyRemembered, Types, TypeOK, RemoveOldKey, Forget, DropPlayerKey
<1> QED
  BY <1>2, <1>3, <1>4

\* Entering the maps.
LEMMA RegisterMaps ==
    ASSUME Types, MapsInv, NEW s \in Socket, Register(s)
    PROVE  MapsInv'
<1> USE DEF MapsInv
<1>1. JoinAt(s, "done", None, None)
  BY Moves DEF Types
<1>2. OneAtATime'
  BY DEF OneAtATime, Joining, Leaving, Register
<1>3. KeyRemembered'
  BY <1>1 DEF KeyRemembered, OneAtATime, Joining, Leaving, JoinAt, Register
<1>4. FoundHoldsKey'
  BY NoneAssumption DEF FoundHoldsKey, KeyRemembered, Types, TypeOK, Register, TakeKey
<1> QED
  BY <1>2, <1>3, <1>4

\* A disconnect.
LEMMA CloseMaps ==
    ASSUME Types, MapsInv, NEW s \in Socket, Close(s), ~CloseWhileJoining
    PROVE  MapsInv'
<1> USE DEF MapsInv
<1>1. LeaveAt(s, "start", None)
  BY Moves DEF Types
<1>2. OneAtATime'
  BY DEF OneAtATime, Joining, Leaving, Close
<1>3. KeyRemembered'
  BY <1>1 DEF KeyRemembered, Leaving, LeaveAt, Close, maps
<1>4. FoundHoldsKey'
  BY DEF FoundHoldsKey, Close, maps
<1> QED
  BY <1>2, <1>3, <1>4

\* The start of unsubscribe.
LEMMA StartLeavingMaps ==
    ASSUME Types, MapsInv, NEW s \in Socket, StartLeaving(s)
    PROVE  MapsInv'
<1> USE DEF MapsInv
<1>1. IF clients[s] = None THEN LeaveAt(s, "done", None)
     ELSE LeaveAt(s, "unsubscribe", clients[s])
  BY Moves DEF Types
<1>2. OneAtATime'
  BY DEF OneAtATime, Joining, Leaving, StartLeaving
<1>3. KeyRemembered'
  BY <1>1 DEF KeyRemembered, Leaving, LeaveAt, StartLeaving, maps
<1>4. FoundHoldsKey'
  BY DEF FoundHoldsKey, StartLeaving, maps
<1> QED
  BY <1>2, <1>3, <1>4

\* The commit of unsubscribe.
LEMMA UnsubscribeKeyMaps ==
    ASSUME Types, MapsInv, NEW s \in Socket, UnsubscribeKey(s)
    PROVE  MapsInv'
<1> USE DEF MapsInv
<1>1. OneAtATime'
  BY DEF OneAtATime, Joining, Leaving, UnsubscribeKey
<1>2. KeyRemembered'
  BY DEF KeyRemembered, Leaving, UnsubscribeKey, maps
<1>3. FoundHoldsKey'
  BY DEF FoundHoldsKey, UnsubscribeKey, maps
<1> QED
  BY <1>1, <1>2, <1>3

\* The end of unsubscribe.
LEMMA FinishLeavingMaps ==
    ASSUME Types, MapsInv, NEW s \in Socket, FinishLeaving(s)
    PROVE  MapsInv'
<1> USE DEF MapsInv
<1>1. LeaveAt(s, "done", None)
  BY Moves DEF Types
<1>2. OneAtATime'
  BY DEF OneAtATime, Joining, Leaving, FinishLeaving
<1>3. KeyRemembered'
  BY <1>1 DEF KeyRemembered, OneAtATime, Joining, Leaving, Types, TypeOK, LeaveAt,
     FinishLeaving, Forget
<1>4. FoundHoldsKey'
  BY DEF FoundHoldsKey, KeyRemembered, Types, TypeOK, FinishLeaving, Forget, DropPlayerKey
<1> QED
  BY <1>2, <1>3, <1>4

\* Losing the listener connection.
LEMMA LoseListenerMaps ==
    ASSUME Types, MapsInv, LoseListener
    PROVE  MapsInv'
<1> USE DEF MapsInv
<1>1. OneAtATime' /\ KeyRemembered' /\ FoundHoldsKey'
  BY DEF OneAtATime, KeyRemembered, FoundHoldsKey, Joining, Leaving, LoseListener, maps
<1> QED
  BY <1>1

\* A new listener connection.
LEMMA ReacquireMaps ==
    ASSUME Types, MapsInv, Reacquire
    PROVE  MapsInv'
<1> USE DEF MapsInv
<1>1. OneAtATime' /\ KeyRemembered' /\ FoundHoldsKey'
  BY DEF OneAtATime, KeyRemembered, FoundHoldsKey, Joining, Leaving, Reacquire, maps
<1> QED
  BY <1>1

\* Taking the lock to resubscribe.
LEMMA StartResubscribingMaps ==
    ASSUME Types, MapsInv, StartResubscribing
    PROVE  MapsInv'
<1> USE DEF MapsInv
<1>1. OneAtATime' /\ KeyRemembered' /\ FoundHoldsKey'
  BY DEF OneAtATime, KeyRemembered, FoundHoldsKey, Joining, Leaving, StartResubscribing,
     maps
<1> QED
  BY <1>1

\* Resubscribing to one key.
LEMMA ResubscribeMaps ==
    ASSUME Types, MapsInv, NEW k \in Key, Resubscribe(k)
    PROVE  MapsInv'
<1> USE DEF MapsInv
<1>1. OneAtATime' /\ KeyRemembered' /\ FoundHoldsKey'
  BY DEF OneAtATime, KeyRemembered, FoundHoldsKey, Joining, Leaving, Resubscribe, maps
<1> QED
  BY <1>1

\* A join on another server.
LEMMA JoinElsewhereMaps ==
    ASSUME Types, MapsInv, NEW k \in Key, JoinElsewhere(k)
    PROVE  MapsInv'
<1> USE DEF MapsInv
<1>1. OneAtATime' /\ KeyRemembered' /\ FoundHoldsKey'
  BY DEF OneAtATime, KeyRemembered, FoundHoldsKey, Joining, Leaving, JoinElsewhere, maps
<1> QED
  BY <1>1

\* A departure on another server.
LEMMA LeaveElsewhereMaps ==
    ASSUME Types, MapsInv, NEW k \in Key, LeaveElsewhere(k)
    PROVE  MapsInv'
<1> USE DEF MapsInv
<1>1. OneAtATime' /\ KeyRemembered' /\ FoundHoldsKey'
  BY DEF OneAtATime, KeyRemembered, FoundHoldsKey, Joining, Leaving, LeaveElsewhere, maps
<1> QED
  BY <1>1

\* A restart.
LEMMA RestartMaps ==
    ASSUME Types, MapsInv, Restart
    PROVE  MapsInv'
<1> USE DEF MapsInv
<1>1. OneAtATime'
  BY DEF OneAtATime, Joining, Restart, NotJoining
<1>2. KeyRemembered'
  BY DEF KeyRemembered, Restart, NotJoining, NotLeaving
<1>3. FoundHoldsKey'
  BY DEF FoundHoldsKey, Restart
<1> QED
  BY <1>1, <1>2, <1>3

\* No step disturbs it, while no socket closes before its join is answered.
LEMMA NextMaps ==
    ASSUME Types, MapsInv, ~CloseWhileJoining, [Next]_vars
    PROVE  MapsInv'
<1>1. ASSUME NEW s \in Socket, Connect(s)
      PROVE  MapsInv'
  BY <1>1, ConnectMaps
<1>2. ASSUME NEW s \in Socket, NEW k \in Key, RequestJoin(s, k)
      PROVE  MapsInv'
  BY <1>2, RequestJoinMaps
<1>3. ASSUME NEW s \in Socket, NEW k \in Key, RequestNewGame(s, k)
      PROVE  MapsInv'
  BY <1>3, RequestNewGameMaps
<1>4. ASSUME NEW s \in Socket, SelectKey(s)
      PROVE  MapsInv'
  BY <1>4, SelectKeyMaps
<1>5. ASSUME NEW s \in Socket, InsertGame(s)
      PROVE  MapsInv'
  BY <1>5, InsertGameMaps
<1>6. ASSUME NEW s \in Socket, Refuse(s)
      PROVE  MapsInv'
  BY <1>6, RefuseMaps
<1>7. ASSUME NEW s \in Socket, Subscribe(s)
      PROVE  MapsInv'
  BY <1>7, SubscribeMaps
<1>8. ASSUME NEW s \in Socket, CommitJoin(s)
      PROVE  MapsInv'
  BY <1>8, CommitJoinMaps
<1>9. ASSUME NEW s \in Socket, FailJoin(s)
      PROVE  MapsInv'
  BY <1>9, FailJoinMaps
<1>10. ASSUME NEW s \in Socket, DropOldKey(s)
       PROVE  MapsInv'
  BY <1>10, DropOldKeyMaps
<1>11. ASSUME NEW s \in Socket, RemoveOldKey(s)
       PROVE  MapsInv'
  BY <1>11, RemoveOldKeyMaps
<1>12. ASSUME NEW s \in Socket, Register(s)
       PROVE  MapsInv'
  BY <1>12, RegisterMaps
<1>13. ASSUME NEW s \in Socket, Close(s)
       PROVE  MapsInv'
  BY <1>13, CloseMaps
<1>14. ASSUME NEW s \in Socket, StartLeaving(s)
       PROVE  MapsInv'
  BY <1>14, StartLeavingMaps
<1>15. ASSUME NEW s \in Socket, UnsubscribeKey(s)
       PROVE  MapsInv'
  BY <1>15, UnsubscribeKeyMaps
<1>16. ASSUME NEW s \in Socket, FinishLeaving(s)
       PROVE  MapsInv'
  BY <1>16, FinishLeavingMaps
<1>17. CASE LoseListener
  BY <1>17, LoseListenerMaps
<1>18. CASE Reacquire
  BY <1>18, ReacquireMaps
<1>19. CASE StartResubscribing
  BY <1>19, StartResubscribingMaps
<1>20. ASSUME NEW k \in Key, Resubscribe(k)
       PROVE  MapsInv'
  BY <1>20, ResubscribeMaps
<1>21. ASSUME NEW k \in Key, JoinElsewhere(k)
       PROVE  MapsInv'
  BY <1>21, JoinElsewhereMaps
<1>22. ASSUME NEW k \in Key, LeaveElsewhere(k)
       PROVE  MapsInv'
  BY <1>22, LeaveElsewhereMaps
<1>23. CASE Restart
  BY <1>23, RestartMaps
<1>24. CASE UNCHANGED vars
  BY <1>24 DEF vars, maps, MapsInv, OneAtATime, KeyRemembered, FoundHoldsKey, Joining,
     Leaving
<1> QED
  BY <1>1, <1>2, <1>3, <1>4, <1>5, <1>6, <1>7, <1>8, <1>9, <1>10, <1>11, <1>12, <1>13, <1>14,
     <1>15, <1>16, <1>17, <1>18, <1>19, <1>20, <1>21, <1>22, <1>23, <1>24 DEF Next

-----------------------------------------------------------------------------
(***************************************************************************)
(* The maps agree with the table.                                          *)
(***************************************************************************)

\* A client that has a key is the one _player_keys leads to.
HolderFound == \A s \in Socket : clients[s] # None => player_keys[clients[s]] = s

\* Its row is managed by this server until the key is given up.
HolderManaged ==
    \A s \in Socket : clients[s] # None =>
        \/ managed_by[clients[s]] = "here"
        \/ joining[s].at \in {"drop", "remove"}
        \/ leaving[s].at = "remove"

\* A key whose join has committed is managed here for that one join alone.
Awaited ==
    \A s \in Socket : Committed(s) =>
        /\ managed_by[joining[s].key] = "here"
        /\ player_keys[joining[s].key] = None
        /\ \A t \in Socket \ {s} : Committed(t) => joining[t].key # joining[s].key

\* A row managed by this server has a client, or a join about to have it.
HereFor ==
    \A k \in Key : managed_by[k] = "here" =>
        \E s \in Socket : clients[s] = k \/ (Committed(s) /\ joining[s].key = k)

\* The inductive invariant, with ListenInv and MapsInv, behind ClientsServed and
\* NoOrphanedKey.
ServeInv == HolderFound /\ HolderManaged /\ Awaited /\ HereFor

\* A new socket.
LEMMA ConnectServe ==
    ASSUME Types, ListenInv, MapsInv, ServeInv, NEW s \in Socket, Connect(s)
    PROVE  ServeInv'
<1> USE DEF ListenInv, MapsInv, ServeInv
<1>1. HolderFound' /\ HolderManaged' /\ Awaited' /\ HereFor'
  BY DEF HolderFound, HolderManaged, Awaited, HereFor, Committed, Connect, maps, table
<1> QED
  BY <1>1

\* A request to join.
LEMMA RequestJoinServe ==
    ASSUME Types, ListenInv, MapsInv, ServeInv, NEW s \in Socket, NEW k \in Key, RequestJoin(s, k)
    PROVE  ServeInv'
<1> USE DEF ListenInv, MapsInv, ServeInv
<1>1. HolderManaged'
  BY DEF HolderManaged, Joining, RequestJoin, maps, table
<1>2. Awaited'
  BY DEF Awaited, Committed, RequestJoin, maps, table
<1>3. HereFor'
  BY DEF HereFor, Committed, Joining, RequestJoin, maps, table
<1>4. HolderFound'
  BY DEF HolderFound, RequestJoin, maps
<1> QED
  BY <1>1, <1>2, <1>3, <1>4

\* A request for a new game.
LEMMA RequestNewGameServe ==
    ASSUME Types, ListenInv, MapsInv, ServeInv, NEW s \in Socket, NEW k \in Key,
           RequestNewGame(s, k)
    PROVE  ServeInv'
<1> USE DEF ListenInv, MapsInv, ServeInv
<1>1. HolderManaged'
  BY DEF HolderManaged, Joining, RequestNewGame, maps, table
<1>2. Awaited'
  BY DEF Awaited, Committed, RequestNewGame, maps, table
<1>3. HereFor'
  BY DEF HereFor, Committed, Joining, RequestNewGame, maps, table
<1>4. HolderFound'
  BY DEF HolderFound, RequestNewGame, maps
<1> QED
  BY <1>1, <1>2, <1>3, <1>4

\* The SELECT of a join.
LEMMA SelectKeyServe ==
    ASSUME Types, ListenInv, MapsInv, ServeInv, NEW s \in Socket, SelectKey(s)
    PROVE  ServeInv'
<1> USE DEF ListenInv, MapsInv, ServeInv
<1>1. HolderManaged'
  BY DEF HolderManaged, SelectKey, maps, table
<1>2. Awaited'
  BY DEF Awaited, Committed, SelectKey, maps, table
<1>3. HereFor'
  BY DEF HereFor, Committed, SelectKey, maps, table
<1>4. HolderFound'
  BY DEF HolderFound, SelectKey, maps
<1> QED
  BY <1>1, <1>2, <1>3, <1>4

\* The INSERT of a new game.
LEMMA InsertGameServe ==
    ASSUME Types, ListenInv, MapsInv, ServeInv, NEW s \in Socket, InsertGame(s)
    PROVE  ServeInv'
<1> USE DEF ListenInv, MapsInv, ServeInv
<1>1. HolderManaged'
  BY DEF HolderManaged, InsertGame, maps, table
<1>2. Awaited'
  BY DEF Awaited, Committed, InsertGame, maps, table
<1>3. HereFor'
  BY DEF HereFor, Committed, InsertGame, maps, table
<1>4. HolderFound'
  BY DEF HolderFound, InsertGame, maps
<1> QED
  BY <1>1, <1>2, <1>3, <1>4

\* A refusal.
LEMMA RefuseServe ==
    ASSUME Types, ListenInv, MapsInv, ServeInv, NEW s \in Socket, Refuse(s)
    PROVE  ServeInv'
<1> USE DEF ListenInv, MapsInv, ServeInv
<1>1. JoinAt(s, "done", None, None)
  BY Moves DEF Types
<1>2. HolderManaged'
  BY DEF HolderManaged, Refuse, maps, table
<1>3. Awaited'
  BY <1>1 DEF Awaited, Committed, JoinAt, Refuse, maps, table
<1>4. HereFor'
  BY DEF HereFor, Committed, Refuse, maps, table
<1>5. HolderFound'
  BY DEF HolderFound, Refuse, maps
<1> QED
  BY <1>2, <1>3, <1>4, <1>5

\* Subscribing to the channels of the key.
LEMMA SubscribeServe ==
    ASSUME Types, ListenInv, MapsInv, ServeInv, NEW s \in Socket, Subscribe(s)
    PROVE  ServeInv'
<1> USE DEF ListenInv, MapsInv, ServeInv
<1>1. HolderManaged'
  BY DEF HolderManaged, Subscribe, maps, table
<1>2. Awaited'
  BY DEF Awaited, Committed, Subscribe, maps, table
<1>3. HereFor'
  BY DEF HereFor, Committed, Subscribe, maps, table
<1>4. HolderFound'
  BY DEF HolderFound, Subscribe, maps
<1> QED
  BY <1>1, <1>2, <1>3, <1>4

\* The commit of a join.
LEMMA CommitJoinServe ==
    ASSUME Types, ListenInv, MapsInv, ServeInv, NEW s \in Socket, CommitJoin(s)
    PROVE  ServeInv'
<1> USE DEF ListenInv, MapsInv, ServeInv
<1>1. JoinAt(s, IF joining[s].old = None THEN "register" ELSE "drop",
                 joining[s].key, joining[s].old)
  BY Moves DEF Types
<1>2. HolderManaged'
  BY DEF HolderManaged, HolderFound, KeyRemembered, Types, TypeOK, CommitJoin, maps,
     Exchanged
<1>3. Awaited'
  <2> DEFINE k == joining[s].key
  <2>1. Holder(s) /\ k \in Key /\ managed_by[k] = None
    BY DEF CommitJoin, Holder, RowsInv, LockedColumns, Types, Joining
  <2>2. player_keys[k] = None
    <3>1. SUFFICES ASSUME player_keys[k] # None
                   PROVE  FALSE
      OBVIOUS
    <3>2. PICK u \in Socket : player_keys[k] = u /\ clients[u] = k
      BY <2>1, <3>1 DEF FoundHoldsKey, Types, TypeOK
    <3>3. joining[u].at \in {"drop", "remove"} \/ leaving[u].at = "remove"
      BY <2>1, <3>2, NoneAssumption DEF HolderManaged
    <3>4. GivenUp(k)
      BY <3>2, <3>3 DEF GivenUp, KeyRemembered
    <3> QED
      BY <2>1, <3>4 DEF GivenUpNotTaken
  <2>3. ASSUME NEW t \in Socket \ {s}, Committed(t)'
        PROVE  /\ Committed(t) /\ joining'[t] = joining[t]
               /\ joining[t].key # k
               /\ managed_by'[joining[t].key] = "here"
    <3>1. Committed(t) /\ joining'[t] = joining[t] /\ joining[t].key \in Key
      BY <1>1, <2>3 DEF Committed, JoinAt, Types, Joining
    <3>2. managed_by[joining[t].key] = "here" /\ player_keys[joining[t].key] = None
      BY <3>1 DEF Awaited
    <3>3. joining[s].old = clients[s]
      BY DEF CommitJoin, KeyRemembered
    <3>4. joining[t].key # joining[s].old
      BY <3>1, <3>2, <3>3, NoneAssumption DEF HolderFound
    <3> QED
      BY <2>1, <3>1, <3>2, <3>4, NoneAssumption DEF CommitJoin, Exchanged
  <2>4. managed_by'[k] = "here" /\ joining'[s].key = k /\ UNCHANGED player_keys
    BY <2>1 DEF CommitJoin, Exchanged, maps
  <2> QED
    BY <2>2, <2>3, <2>4 DEF Awaited
<1>4. HereFor'
  BY <1>1, NoneAssumption DEF HereFor, Committed, JoinAt, CommitJoin, maps, Exchanged
<1>5. HolderFound'
  BY DEF HolderFound, CommitJoin, maps
<1> QED
  BY <1>2, <1>3, <1>4, <1>5

\* A join that raises.
LEMMA FailJoinServe ==
    ASSUME Types, ListenInv, MapsInv, ServeInv, NEW s \in Socket, FailJoin(s), "reply" \notin Faults
    PROVE  ServeInv'
<1> USE DEF ListenInv, MapsInv, ServeInv
<1>1. JoinAt(s, "done", None, None)
  BY Moves DEF Types
<1>2. HolderManaged'
  BY DEF HolderManaged, FailJoin, maps, table
<1>3. Awaited'
  BY <1>1 DEF Awaited, Committed, JoinAt, FailJoin, maps, table
<1>4. HereFor'
  BY DEF HereFor, Committed, FailJoin, maps, table
<1>5. HolderFound'
  BY DEF HolderFound, FailJoin, maps
<1> QED
  BY <1>2, <1>3, <1>4, <1>5

\* The start of giving up the old key.
LEMMA DropOldKeyServe ==
    ASSUME Types, ListenInv, MapsInv, ServeInv, NEW s \in Socket, DropOldKey(s)
    PROVE  ServeInv'
<1> USE DEF ListenInv, MapsInv, ServeInv
<1>1. HolderManaged'
  BY DEF HolderManaged, DropOldKey, maps, table
<1>2. Awaited'
  BY DEF Awaited, Committed, DropOldKey, maps, table
<1>3. HereFor'
  BY DEF HereFor, Committed, DropOldKey, maps, table
<1>4. HolderFound'
  BY DEF HolderFound, DropOldKey, maps
<1> QED
  BY <1>1, <1>2, <1>3, <1>4

\* The end of giving up the old key.
LEMMA RemoveOldKeyServe ==
    ASSUME Types, ListenInv, MapsInv, ServeInv, NEW s \in Socket, RemoveOldKey(s)
    PROVE  ServeInv'
<1> USE DEF ListenInv, MapsInv, ServeInv
<1>1. \/ JoinAt(s, "done", None, None)
     \/ JoinAt(s, "register", joining[s].key, joining[s].old)
  BY Moves DEF Types
<1>2. HolderFound'
  BY DEF HolderFound, KeyRemembered, Types, TypeOK, RemoveOldKey, Forget, DropPlayerKey
<1>3. HolderManaged'
  BY DEF HolderManaged, Types, TypeOK, RemoveOldKey, table, Forget
<1>4. Awaited'
  BY <1>1 DEF Awaited, Committed, JoinAt, RemoveOldKey, table, Forget, DropPlayerKey
<1>5. HereFor'
  <2>1. /\ clients[s] = joining[s].old /\ clients[s] \in Key
        /\ player_keys[clients[s]] = s
    BY DEF RemoveOldKey, KeyRemembered, RowsInv, JoinsCreated, JoinCreated, HolderFound,
       Types, TypeOK
  <2>2. JoinAt(s, "register", joining[s].key, joining[s].old)
    BY <2>1, Moves, NoneAssumption DEF RaisesKeyError, Types
  <2>3. managed_by[clients[s]] # "here"
    BY <2>1 DEF RemoveOldKey, GivenUpNotTaken, GivenUp
  <2>4. /\ UNCHANGED managed_by
        /\ \A t \in Socket \ {s} : clients'[t] = clients[t]
    BY DEF RemoveOldKey, Forget, table
  <2>5. SUFFICES ASSUME NEW k \in Key, managed_by[k] = "here"
                 PROVE  \E t \in Socket : \/ clients'[t] = k
                                          \/ Committed(t)' /\ joining'[t].key = k
    BY <2>4 DEF HereFor
  <2>6. PICK t \in Socket : clients[t] = k \/ (Committed(t) /\ joining[t].key = k)
    BY <2>5 DEF HereFor
  <2>7. CASE t = s
    BY <2>2, <2>3, <2>5, <2>6, <2>7 DEF JoinAt, Committed
  <2>8. CASE t # s
    BY <2>2, <2>4, <2>6, <2>8 DEF JoinAt, Committed
  <2> QED
    BY <2>7, <2>8
<1> QED
  BY <1>2, <1>3, <1>4, <1>5

\* Entering the maps.
LEMMA RegisterServe ==
    ASSUME Types, ListenInv, MapsInv, ServeInv, NEW s \in Socket, Register(s)
    PROVE  ServeInv'
<1> USE DEF ListenInv, MapsInv, ServeInv
<1>1. JoinAt(s, "done", None, None)
  BY Moves DEF Types
<1>2. HolderFound'
  BY NoneAssumption DEF HolderFound, Awaited, Committed, Types, TypeOK, Register, TakeKey
<1>3. HolderManaged'
  BY DEF HolderManaged, Awaited, Committed, Register, table
<1>4. Awaited'
  BY <1>1 DEF Awaited, Committed, JoinAt, Register, table, TakeKey
<1>5. HereFor'
  BY NoneAssumption DEF HereFor, Committed, KeyRemembered, Types, TypeOK, Register, table
<1> QED
  BY <1>2, <1>3, <1>4, <1>5

\* A disconnect.
LEMMA CloseServe ==
    ASSUME Types, ListenInv, MapsInv, ServeInv, NEW s \in Socket, Close(s)
    PROVE  ServeInv'
<1> USE DEF ListenInv, MapsInv, ServeInv
<1>1. HolderManaged'
  BY DEF HolderManaged, OneAtATime, Leaving, Close, maps, table
<1>2. HolderFound' /\ Awaited' /\ HereFor'
  BY DEF HolderFound, Awaited, HereFor, Committed, Close, maps, table
<1> QED
  BY <1>1, <1>2

\* The start of unsubscribe.
LEMMA StartLeavingServe ==
    ASSUME Types, ListenInv, MapsInv, ServeInv, NEW s \in Socket, StartLeaving(s)
    PROVE  ServeInv'
<1> USE DEF ListenInv, MapsInv, ServeInv
<1>1. HolderManaged'
  BY DEF HolderManaged, StartLeaving, maps, table
<1>2. HolderFound' /\ Awaited' /\ HereFor'
  BY DEF HolderFound, Awaited, HereFor, Committed, StartLeaving, maps, table
<1> QED
  BY <1>1, <1>2

\* The commit of unsubscribe.
LEMMA UnsubscribeKeyServe ==
    ASSUME Types, ListenInv, MapsInv, ServeInv, NEW s \in Socket, UnsubscribeKey(s)
    PROVE  ServeInv'
<1> USE DEF ListenInv, MapsInv, ServeInv
<1>1. HolderManaged'
  BY DEF HolderManaged, HolderFound, KeyRemembered, Types, TypeOK, UnsubscribeKey, maps
<1>2. Awaited'
  BY NoneAssumption DEF Awaited, Committed, HolderFound, KeyRemembered, Types, TypeOK,
     UnsubscribeKey, maps
<1>3. HereFor'
  BY DEF HereFor, Committed, UnsubscribeKey, maps
<1>4. HolderFound'
  BY DEF HolderFound, UnsubscribeKey, maps
<1> QED
  BY <1>1, <1>2, <1>3, <1>4

\* The end of unsubscribe.
LEMMA FinishLeavingServe ==
    ASSUME Types, ListenInv, MapsInv, ServeInv, NEW s \in Socket, FinishLeaving(s)
    PROVE  ServeInv'
<1> USE DEF ListenInv, MapsInv, ServeInv
<1>1. HolderFound'
  BY DEF HolderFound, KeyRemembered, Types, TypeOK, FinishLeaving, Forget, DropPlayerKey
<1>2. HolderManaged'
  BY DEF HolderManaged, Types, TypeOK, FinishLeaving, table, Forget
<1>3. Awaited'
  BY DEF Awaited, Committed, FinishLeaving, table, Forget, DropPlayerKey
<1>4. HereFor'
  BY DEF HereFor, Committed, GivenUpNotTaken, GivenUp, KeyRemembered, FinishLeaving,
     table, Forget
<1> QED
  BY <1>1, <1>2, <1>3, <1>4

\* Losing the listener connection.
LEMMA LoseListenerServe ==
    ASSUME Types, ListenInv, MapsInv, ServeInv, LoseListener
    PROVE  ServeInv'
<1> USE DEF ListenInv, MapsInv, ServeInv
<1>1. HolderFound' /\ HolderManaged' /\ Awaited' /\ HereFor'
  BY DEF HolderFound, HolderManaged, Awaited, HereFor, Committed, LoseListener, maps,
     table
<1> QED
  BY <1>1

\* A new listener connection.
LEMMA ReacquireServe ==
    ASSUME Types, ListenInv, MapsInv, ServeInv, Reacquire
    PROVE  ServeInv'
<1> USE DEF ListenInv, MapsInv, ServeInv
<1>1. HolderFound' /\ HolderManaged' /\ Awaited' /\ HereFor'
  BY DEF HolderFound, HolderManaged, Awaited, HereFor, Committed, Reacquire, maps, table
<1> QED
  BY <1>1

\* Taking the lock to resubscribe.
LEMMA StartResubscribingServe ==
    ASSUME Types, ListenInv, MapsInv, ServeInv, StartResubscribing
    PROVE  ServeInv'
<1> USE DEF ListenInv, MapsInv, ServeInv
<1>1. HolderFound' /\ HolderManaged' /\ Awaited' /\ HereFor'
  BY DEF HolderFound, HolderManaged, Awaited, HereFor, Committed, StartResubscribing,
     maps, table
<1> QED
  BY <1>1

\* Resubscribing to one key.
LEMMA ResubscribeServe ==
    ASSUME Types, ListenInv, MapsInv, ServeInv, NEW k \in Key, Resubscribe(k)
    PROVE  ServeInv'
<1> USE DEF ListenInv, MapsInv, ServeInv
<1>1. HolderFound' /\ HolderManaged' /\ Awaited' /\ HereFor'
  BY DEF HolderFound, HolderManaged, Awaited, HereFor, Committed, Resubscribe, maps, table
<1> QED
  BY <1>1

\* A join on another server.
LEMMA JoinElsewhereServe ==
    ASSUME Types, ListenInv, MapsInv, ServeInv, NEW k \in Key, JoinElsewhere(k)
    PROVE  ServeInv'
<1> USE DEF ListenInv, MapsInv, ServeInv
<1>1. HolderManaged'
  BY NoneAssumption DEF HolderManaged, JoinElsewhere, maps
<1>2. Awaited'
  BY NoneAssumption DEF Awaited, Committed, JoinElsewhere, maps
<1>3. HereFor'
  BY DEF HereFor, Committed, JoinElsewhere, maps
<1>4. HolderFound'
  BY DEF HolderFound, JoinElsewhere, maps
<1> QED
  BY <1>1, <1>2, <1>3, <1>4

\* A departure on another server.
LEMMA LeaveElsewhereServe ==
    ASSUME Types, ListenInv, MapsInv, ServeInv, NEW k \in Key, LeaveElsewhere(k)
    PROVE  ServeInv'
<1> USE DEF ListenInv, MapsInv, ServeInv
<1>1. HolderManaged'
  BY DEF HolderManaged, LeaveElsewhere, maps
<1>2. Awaited'
  BY DEF Awaited, Committed, LeaveElsewhere, maps
<1>3. HereFor'
  BY NoneAssumption DEF HereFor, Committed, LeaveElsewhere, maps
<1>4. HolderFound'
  BY DEF HolderFound, LeaveElsewhere, maps
<1> QED
  BY <1>1, <1>2, <1>3, <1>4

\* A restart.
LEMMA RestartServe ==
    ASSUME Types, ListenInv, MapsInv, ServeInv, Restart
    PROVE  ServeInv'
<1> USE DEF ListenInv, MapsInv, ServeInv
<1>1. HolderFound'
  BY DEF HolderFound, Restart
<1>2. HolderManaged'
  BY DEF HolderManaged, Restart
<1>3. Awaited'
  BY DEF Awaited, Committed, Restart, NotJoining
<1>4. HereFor'
  BY NoneAssumption DEF HereFor, Restart
<1> QED
  BY <1>1, <1>2, <1>3, <1>4

\* No step disturbs it, while every committed join is answered.
LEMMA NextServe ==
    ASSUME Types, ListenInv, MapsInv, ServeInv, "reply" \notin Faults, [Next]_vars
    PROVE  ServeInv'
<1>1. ASSUME NEW s \in Socket, Connect(s)
      PROVE  ServeInv'
  BY <1>1, ConnectServe
<1>2. ASSUME NEW s \in Socket, NEW k \in Key, RequestJoin(s, k)
      PROVE  ServeInv'
  BY <1>2, RequestJoinServe
<1>3. ASSUME NEW s \in Socket, NEW k \in Key, RequestNewGame(s, k)
      PROVE  ServeInv'
  BY <1>3, RequestNewGameServe
<1>4. ASSUME NEW s \in Socket, SelectKey(s)
      PROVE  ServeInv'
  BY <1>4, SelectKeyServe
<1>5. ASSUME NEW s \in Socket, InsertGame(s)
      PROVE  ServeInv'
  BY <1>5, InsertGameServe
<1>6. ASSUME NEW s \in Socket, Refuse(s)
      PROVE  ServeInv'
  BY <1>6, RefuseServe
<1>7. ASSUME NEW s \in Socket, Subscribe(s)
      PROVE  ServeInv'
  BY <1>7, SubscribeServe
<1>8. ASSUME NEW s \in Socket, CommitJoin(s)
      PROVE  ServeInv'
  BY <1>8, CommitJoinServe
<1>9. ASSUME NEW s \in Socket, FailJoin(s)
      PROVE  ServeInv'
  BY <1>9, FailJoinServe
<1>10. ASSUME NEW s \in Socket, DropOldKey(s)
       PROVE  ServeInv'
  BY <1>10, DropOldKeyServe
<1>11. ASSUME NEW s \in Socket, RemoveOldKey(s)
       PROVE  ServeInv'
  BY <1>11, RemoveOldKeyServe
<1>12. ASSUME NEW s \in Socket, Register(s)
       PROVE  ServeInv'
  BY <1>12, RegisterServe
<1>13. ASSUME NEW s \in Socket, Close(s)
       PROVE  ServeInv'
  BY <1>13, CloseServe
<1>14. ASSUME NEW s \in Socket, StartLeaving(s)
       PROVE  ServeInv'
  BY <1>14, StartLeavingServe
<1>15. ASSUME NEW s \in Socket, UnsubscribeKey(s)
       PROVE  ServeInv'
  BY <1>15, UnsubscribeKeyServe
<1>16. ASSUME NEW s \in Socket, FinishLeaving(s)
       PROVE  ServeInv'
  BY <1>16, FinishLeavingServe
<1>17. CASE LoseListener
  BY <1>17, LoseListenerServe
<1>18. CASE Reacquire
  BY <1>18, ReacquireServe
<1>19. CASE StartResubscribing
  BY <1>19, StartResubscribingServe
<1>20. ASSUME NEW k \in Key, Resubscribe(k)
       PROVE  ServeInv'
  BY <1>20, ResubscribeServe
<1>21. ASSUME NEW k \in Key, JoinElsewhere(k)
       PROVE  ServeInv'
  BY <1>21, JoinElsewhereServe
<1>22. ASSUME NEW k \in Key, LeaveElsewhere(k)
       PROVE  ServeInv'
  BY <1>22, LeaveElsewhereServe
<1>23. CASE Restart
  BY <1>23, RestartServe
<1>24. CASE UNCHANGED vars
  BY <1>24 DEF vars, maps, table, ServeInv, HolderFound, HolderManaged, Awaited, HereFor,
     Committed
<1> QED
  BY <1>1, <1>2, <1>3, <1>4, <1>5, <1>6, <1>7, <1>8, <1>9, <1>10, <1>11, <1>12, <1>13, <1>14,
     <1>15, <1>16, <1>17, <1>18, <1>19, <1>20, <1>21, <1>22, <1>23, <1>24 DEF Next

-----------------------------------------------------------------------------
(***************************************************************************)
(* The theorems.                                                           *)
(***************************************************************************)
\* The server starts with empty maps.
LEMMA InitMaps == Init => MapsInv /\ ServeInv
BY NoneAssumption DEF Init, NotJoining, NotLeaving, Joining, MapsInv, OneAtATime,
   KeyRemembered, FoundHoldsKey, ServeInv, HolderFound, HolderManaged, Awaited, HereFor,
   Committed

\* So a socket that closes is forgotten in every behaviour.
LEMMA MapsInductive ==
    ASSUME ~CloseWhileJoining
    PROVE  Spec => [](Types /\ MapsInv)
<1>1. Init => Types /\ MapsInv
  BY InitListen, InitMaps
<1>2. Types /\ MapsInv /\ [Next]_vars => (Types /\ MapsInv)'
  BY NextTypes, NextMaps
<1> QED
  BY <1>1, <1>2, PTL DEF Spec

\* While no client disconnects before its join is answered, a socket that is
\* gone is in neither map, also if a key is joined while its last player is
\* leaving and the KeyError of unsubscribe ends the join.
THEOREM GoneSocketsForgotten ==
    ASSUME ~CloseWhileJoining
    PROVE  Spec => []NothingLeftBehind
<1>1. Types /\ MapsInv => NothingLeftBehind
  BY NoneAssumption DEF MapsInv, KeyRemembered, FoundHoldsKey, NothingLeftBehind
<1> QED
  BY <1>1, MapsInductive, PTL

\* And the maps agree with the table.
LEMMA ServeInductive ==
    ASSUME ~CloseWhileJoining, ~JoinWhileLeaving, "reply" \notin Faults
    PROVE  Spec => [](Types /\ ListenInv /\ MapsInv /\ ServeInv)
<1> DEFINE Inv == Types /\ ListenInv /\ MapsInv /\ ServeInv
<1>1. Init => Inv
  BY InitListen, InitMaps
<1>2. Inv /\ [Next]_vars => Inv'
  BY NextTypes, NextListen, NextMaps, NextServe
<1> QED
  BY <1>1, <1>2, PTL DEF Spec

\* While joins, departures and disconnects do not overlap on a key or a
\* socket and no reply to a commit is lost, a connected client has its key to
\* itself: _player_keys leads back to it, the row is managed by this server,
\* and the server listens for it.
THEOREM ClientsAreServed ==
    ASSUME ~CloseWhileJoining, ~JoinWhileLeaving, "reply" \notin Faults
    PROVE  Spec => []ClientsServed
<1>1. Types /\ ListenInv /\ MapsInv /\ ServeInv => ClientsServed
  BY DEF Types, TypeOK, ListenInv, ManagedSubscribed, Subscribed, MapsInv, OneAtATime,
     ServeInv, HolderFound, HolderManaged, ClientsServed, Joining, Leaving
<1> QED
  BY <1>1, ServeInductive, PTL

\* Under the same hypotheses every key this server manages has a client here,
\* or one coming or going, so the key is given up when that client is gone.
THEOREM NoKeyOrphaned ==
    ASSUME ~CloseWhileJoining, ~JoinWhileLeaving, "reply" \notin Faults
    PROVE  Spec => []NoOrphanedKey
<1>1. Types /\ ListenInv /\ MapsInv /\ ServeInv => NoOrphanedKey
  BY NoneAssumption DEF MapsInv, KeyRemembered, ServeInv, HereFor, Committed,
     NoOrphanedKey, Joining
<1> QED
  BY <1>1, ServeInductive, PTL
=============================================================================
