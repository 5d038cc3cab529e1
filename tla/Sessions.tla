------------------------------ MODULE Sessions ------------------------------
(***************************************************************************)
(* One game server's bookkeeping of who plays with which key: the maps of   *)
(* GameStore, the listeners of DbManager and the managed_by column, while   *)
(* clients connect, join, start and change games and disconnect, and the    *)
(* connection that listens for updates is lost and reacquired.             *)
(*                                                                         *)
(* tornado runs one on_message per socket at a time, but on_close spawns    *)
(* unsubscribe beside it, and each of these coroutines gives way to the     *)
(* others at its awaits: a step below goes from one await to the next.      *)
(* What runs under _listener_lock is one step, since nothing but that code  *)
(* looks at the listeners; only the reconnection takes a step for each key. *)
(* A join holds the locks on the rows it updates (FOR UPDATE, UPDATE) until *)
(* it commits.                                                             *)
(***************************************************************************)
EXTENDS Naturals, FiniteSets

CONSTANTS
    Socket,             \* web socket handlers
    Key,                \* player keys
    None,               \* no key, no socket, a null managed_by
    CloseWhileJoining,  \* a client may disconnect before its join is answered
    JoinWhileLeaving,   \* a key may be joined before its last player's departure is handled
    Faults              \* the steps that may raise

ASSUME NoneAssumption == None \notin Socket \cup Key \cup {"here", "elsewhere"}
ASSUME FlagsAssumption == CloseWhileJoining \in BOOLEAN /\ JoinWhileLeaving \in BOOLEAN
ASSUME FaultsAssumption == Faults \subseteq {"listener", "commit", "reply", "trigger"}

VARIABLES
    clients,        \* GameStore._clients: the key of each socket
    player_keys,    \* GameStore._player_keys: the socket of each key
    listening,      \* DbManager._listening_channels: who subscribed for each key
    created,        \* the keys in table player_key
    managed_by,     \* player_key.managed_by: None, "here" or "elsewhere"
    open,           \* the sockets that are connected
    listener,       \* _listener_connection: "up", "down", "waiting" for the lock to
                    \* resubscribe, or "partial" after that raised
    heard,          \* the keys whose channels the connection listens on
    resubscribing,  \* the keys still to be resubscribed by who holds the lock
    joining,        \* the join_game or new_game coroutine of each socket
    leaving         \* the unsubscribe coroutine that on_close spawned for each

maps == <<clients, player_keys>>
table == <<created, managed_by>>
connection == <<listener, heard, resubscribing>>
vars == <<maps, listening, table, open, connection, joining, leaving>>

NotJoining == [at |-> "done", key |-> None, old |-> None]
NotLeaving == [at |-> "done", key |-> None]

Init ==
    /\ clients = [s \in Socket |-> None]
    /\ player_keys = [k \in Key |-> None]
    /\ listening = [k \in Key |-> {}]
    /\ created \in SUBSET Key
    /\ managed_by = [k \in Key |-> None]
    /\ open = {}
    /\ listener = "up"
    /\ heard = {}
    /\ resubscribing = {}
    /\ joining = [s \in Socket |-> NotJoining]
    /\ leaving = [s \in Socket |-> NotLeaving]

Joining(s) == joining[s].at # "done"
Leaving(s) == leaving[s].at # "done"

Connect(s) ==
    /\ s \notin open /\ ~Joining(s) /\ ~Leaving(s) /\ clients[s] = None
    /\ open' = open \cup {s}
    /\ UNCHANGED <<maps, listening, table, connection, joining, leaving>>

NeverLocked(k) == k \in {}                                      \* mutant

\* The rows that an uncommitted join has locked; nobody else sees the row of
\* a game that is not committed.
Locked(k) ==
    /\ k \in created
    /\ \E s \in Socket : /\ joining[s].at \in {"subscribe", "commit"}
                         /\ k \in {joining[s].key, joining[s].old}

\* Nobody holds _listener_lock.
Unlocked == resubscribing = {}

\* The last player of k has given it up, and is not yet out of the maps.
BeingLeft(k) ==
    \E s \in Socket : \/ leaving[s].at # "done" /\ leaving[s].key = k
                      \/ joining[s].at \in {"drop", "remove"} /\ joining[s].old = k

-----------------------------------------------------------------------------
(***************************************************************************)
(* GameStore.join_game and new_game, with those of DbManager.              *)
(***************************************************************************)
\* A client that plays with k already is told so, as is one that asks for a
\* key that does not exist; neither changes anything.
RequestJoin(s, k) ==
    /\ s \in open /\ ~Joining(s)
    /\ k \in created \ {clients[s]}
    /\ joining' = [joining EXCEPT ![s] = [at |-> "select", key |-> k, old |-> clients[s]]]
    /\ UNCHANGED <<maps, listening, table, open, connection, leaving>>

\* Keys are random and never drawn twice.
Fresh(k) == k \notin created /\ listening[k] = {} /\ \A s \in Socket : joining[s].key # k

\* The opponent's key of the new game is joined by nobody here.
RequestNewGame(s, k) ==
    /\ s \in open /\ ~Joining(s)
    /\ Fresh(k)
    /\ joining' = [joining EXCEPT ![s] = [at |-> "insert", key |-> k, old |-> clients[s]]]
    /\ UNCHANGED <<maps, listening, table, open, connection, leaving>>

MayGiveUp(k) == k # None => managed_by[k] = "here"

\* The SQL function, up to its commit.  It finds the key free, and the old
\* key, if any, managed by this server.
SelectKey(s) ==
    LET j == joining[s]
    IN  /\ j.at = "select"
        /\ ~Locked(j.key) /\ ~Locked(j.old)
        /\ managed_by[j.key] = None /\ MayGiveUp(j.old)
        /\ JoinWhileLeaving \/ ~BeingLeft(j.key)
        /\ joining' = [joining EXCEPT ![s].at = "subscribe"]
        /\ UNCHANGED <<maps, listening, table, open, connection, leaving>>

InsertGame(s) ==
    LET j == joining[s]
    IN  /\ j.at = "insert"
        /\ ~Locked(j.old) /\ MayGiveUp(j.old)
        /\ joining' = [joining EXCEPT ![s].at = "subscribe"]
        /\ UNCHANGED <<maps, listening, table, open, connection, leaving>>

\* in_use, or the exception when the old key cannot be given up.
Refuse(s) ==
    LET j == joining[s]
    IN  /\ j.at \in {"select", "insert"}
        /\ ~Locked(j.key) /\ ~Locked(j.old)
        /\ managed_by[j.key] # None \/ ~MayGiveUp(j.old)
        /\ joining' = [joining EXCEPT ![s] = NotJoining]
        /\ UNCHANGED <<maps, listening, table, open, connection, leaving>>

\* _subscribe_to_updates, before the commit.
Subscribe(s) ==
    /\ joining[s].at = "subscribe"
    /\ listener # "down" /\ Unlocked
    /\ listening' = [listening EXCEPT ![joining[s].key] = @ \cup {s}]
    /\ heard' = heard \cup {joining[s].key}
    /\ joining' = [joining EXCEPT ![s].at = "commit"]
    /\ UNCHANGED <<maps, table, open, listener, resubscribing, leaving>>

ExchangedToSocket(s) ==                                         \* mutant
    [managed_by EXCEPT ![joining[s].key] = s]

ExchangedKeepingOld(s) ==                                       \* mutant
    [managed_by EXCEPT ![joining[s].key] = "here"]

\* The columns after the join of s commits.
Exchanged(s) ==
    [k \in Key |-> IF k = joining[s].key THEN "here"
                   ELSE IF k = joining[s].old THEN None ELSE managed_by[k]]

CommitJoin(s) ==
    /\ joining[s].at = "commit"
    /\ managed_by' = Exchanged(s)
    /\ created' = created \cup {joining[s].key}
    /\ joining' = [joining EXCEPT ![s].at = IF joining[s].old = None THEN "register" ELSE "drop"]
    /\ UNCHANGED <<maps, listening, open, connection, leaving>>

\* There is no connection to subscribe with, or the commit fails, and the
\* transaction is rolled back; or the commit succeeds and only its reply is
\* lost.  join_game raises, as does new_game.
FailJoin(s) ==
    /\ \/ joining[s].at = "subscribe" /\ listener = "down" /\ Unlocked /\ UNCHANGED table
       \/ joining[s].at = "commit" /\ "commit" \in Faults /\ UNCHANGED table
       \/ /\ joining[s].at = "commit" /\ "reply" \in Faults
          /\ managed_by' = Exchanged(s)
          /\ created' = created \cup {joining[s].key}
    /\ joining' = [joining EXCEPT ![s] = NotJoining]
    /\ UNCHANGED <<maps, listening, open, connection, leaving>>

\* GameStore.unsubscribe(client, True), up to the listener lock: on_close may
\* have taken the socket out of _clients meanwhile.
DropOldKey(s) ==
    /\ joining[s].at = "drop"
    /\ joining' = [joining EXCEPT ![s].at = IF clients[s] = None THEN "register" ELSE "remove"]
    /\ UNCHANGED <<maps, listening, table, open, connection, leaving>>

\* The end of unsubscribe for socket s and key k: all listeners of k go, also
\* without a connection, and both entries are deleted; deleting one that is
\* not there raises KeyError.
DropListeners(k) == [listening EXCEPT ![k] = {}]

KeepPlayerKey(s, k) == player_keys                              \* mutant

DropPlayerKey(s, k) ==
    IF clients[s] = None THEN player_keys ELSE [player_keys EXCEPT ![k] = None]

Forget(s, k) ==
    /\ Unlocked
    /\ listening' = DropListeners(k)
    /\ heard' = heard \ {k}
    /\ clients' = [clients EXCEPT ![s] = None]
    /\ player_keys' = DropPlayerKey(s, k)

RaisesKeyError(s, k) == clients[s] = None \/ player_keys[k] = None

RemoveOldKey(s) ==
    /\ joining[s].at = "remove"
    /\ Forget(s, joining[s].old)
    /\ joining' = [joining EXCEPT ![s] =
                        IF RaisesKeyError(s, joining[s].old) THEN NotJoining
                        ELSE [@ EXCEPT !.at = "register"]]
    /\ UNCHANGED <<table, open, listener, resubscribing, leaving>>

TakeNoKey(s, k) == player_keys                                  \* mutant

TakeKey(s, k) == [player_keys EXCEPT ![k] = s]

\* The client enters the maps.  What follows, the response and
\* trigger_update_all, changes no state here.
Register(s) ==
    /\ joining[s].at = "register"
    /\ clients' = [clients EXCEPT ![s] = joining[s].key]
    /\ player_keys' = TakeKey(s, joining[s].key)
    /\ joining' = [joining EXCEPT ![s] = NotJoining]
    /\ UNCHANGED <<listening, table, open, connection, leaving>>

-----------------------------------------------------------------------------
(***************************************************************************)
(* IgoWebSocket.on_close, GameStore.unsubscribe and DbManager.unsubscribe. *)
(***************************************************************************)
Close(s) ==
    /\ s \in open
    /\ CloseWhileJoining \/ ~Joining(s)
    /\ open' = open \ {s}
    /\ leaving' = [leaving EXCEPT ![s] = [at |-> "start", key |-> None]]
    /\ UNCHANGED <<maps, listening, table, connection, joining>>

\* A socket that is not in _clients has nothing to unsubscribe.
StartLeaving(s) ==
    /\ leaving[s].at = "start"
    /\ leaving' = [leaving EXCEPT ![s] =
                        IF clients[s] = None THEN NotLeaving
                        ELSE [at |-> "unsubscribe", key |-> clients[s]]]
    /\ UNCHANGED <<maps, listening, table, open, connection, joining>>

\* The SQL function and its commit; it is retried until the database answers.
UnsubscribeKey(s) ==
    LET k == leaving[s].key
    IN  /\ leaving[s].at = "unsubscribe"
        /\ ~Locked(k)
        /\ managed_by' = [managed_by EXCEPT ![k] = IF @ = "here" THEN None ELSE @]
        /\ leaving' = [leaving EXCEPT ![s].at = "remove"]
        /\ UNCHANGED <<maps, listening, created, open, connection, joining>>

FinishLeaving(s) ==
    /\ leaving[s].at = "remove"
    /\ Forget(s, leaving[s].key)
    /\ leaving' = [leaving EXCEPT ![s] = NotLeaving]
    /\ UNCHANGED <<table, open, listener, resubscribing, joining>>

-----------------------------------------------------------------------------
(***************************************************************************)
(* _reconnect_listener.                                                    *)
(***************************************************************************)
LoseListener ==
    /\ "listener" \in Faults
    /\ listener # "down"
    /\ listener' = "down"
    /\ heard' = {}
    /\ resubscribing' = {}
    /\ UNCHANGED <<maps, listening, table, open, joining, leaving>>

\* The new connection is in use before the lock is taken.
Reacquire ==
    /\ listener = "down"
    /\ listener' = "waiting"
    /\ UNCHANGED <<maps, listening, table, open, heard, resubscribing, joining, leaving>>

ServedKeys == {k \in Key : player_keys[k] # None}               \* mutant

ListenedKeys == {k \in Key : listening[k] # {}}

StartResubscribing ==
    /\ listener = "waiting"
    /\ listener' = "up"
    /\ resubscribing' = ListenedKeys
    /\ UNCHANGED <<maps, listening, table, open, heard, joining, leaving>>

\* The channels of key k, and trigger_update_all for it.  If that raises, the
\* lock is given up with the rest undone.
Resubscribe(k) ==
    /\ k \in resubscribing
    /\ heard' = heard \cup {k}
    /\ \/ resubscribing' = resubscribing \ {k} /\ UNCHANGED listener
       \/ "trigger" \in Faults /\ resubscribing' = {} /\ listener' = "partial"
    /\ UNCHANGED <<maps, listening, table, open, joining, leaving>>

-----------------------------------------------------------------------------
\* Another server takes a free key, or gives it up.
JoinElsewhere(k) ==
    /\ k \in created /\ managed_by[k] = None /\ ~Locked(k)
    /\ managed_by' = [managed_by EXCEPT ![k] = "elsewhere"]
    /\ UNCHANGED <<maps, listening, created, open, connection, joining, leaving>>

LeaveElsewhere(k) ==
    /\ managed_by[k] = "elsewhere" /\ ~Locked(k)
    /\ managed_by' = [managed_by EXCEPT ![k] = None]
    /\ UNCHANGED <<maps, listening, created, open, connection, joining, leaving>>

\* The server restarts: its memory and connections are gone, its open
\* transactions are rolled back, and do_cleanup frees its keys.
Restart ==
    /\ clients' = [s \in Socket |-> None]
    /\ player_keys' = [k \in Key |-> None]
    /\ listening' = [k \in Key |-> {}]
    /\ managed_by' = [k \in Key |-> IF managed_by[k] = "here" THEN None ELSE managed_by[k]]
    /\ open' = {}
    /\ listener' = "up"
    /\ heard' = {}
    /\ resubscribing' = {}
    /\ joining' = [s \in Socket |-> NotJoining]
    /\ leaving' = [s \in Socket |-> NotLeaving]
    /\ UNCHANGED created

Next ==
    \/ \E s \in Socket :
        \/ Connect(s)
        \/ \E k \in Key : RequestJoin(s, k) \/ RequestNewGame(s, k)
        \/ SelectKey(s)
        \/ InsertGame(s)
        \/ Refuse(s)
        \/ Subscribe(s)
        \/ CommitJoin(s)
        \/ FailJoin(s)
        \/ DropOldKey(s)
        \/ RemoveOldKey(s)
        \/ Register(s)
        \/ Close(s)
        \/ StartLeaving(s)
        \/ UnsubscribeKey(s)
        \/ FinishLeaving(s)
    \/ LoseListener
    \/ Reacquire
    \/ StartResubscribing
    \/ \E k \in Key : Resubscribe(k) \/ JoinElsewhere(k) \/ LeaveElsewhere(k)
    \/ Restart

Spec == Init /\ [][Next]_vars

-----------------------------------------------------------------------------
(***************************************************************************)
(* Properties.                                                             *)
(***************************************************************************)
TypeOK ==
    /\ clients \in [Socket -> Key \cup {None}]
    /\ player_keys \in [Key -> Socket \cup {None}]
    /\ listening \in [Key -> SUBSET Socket]
    /\ managed_by \in [Key -> {None, "here", "elsewhere"}]
    /\ created \subseteq Key
    /\ open \subseteq Socket
    /\ listener \in {"up", "down", "waiting", "partial"}
    /\ heard \subseteq Key
    /\ resubscribing \subseteq Key
    /\ joining \in [Socket -> [at : {"done", "select", "insert", "subscribe", "commit", "drop",
                                     "remove", "register"},
                               key : Key \cup {None}, old : Key \cup {None}]]
    /\ leaving \in [Socket -> [at : {"done", "start", "unsubscribe", "remove"},
                               key : Key \cup {None}]]

\* GameStore "maps connected clients [...] one-to-one to all of the data they
\* are concerned with": a connected client whose requests are handled has its
\* key to itself, is found through it, and gets its updates.
ClientsServed ==
    \A s \in open :
        ~Joining(s) /\ clients[s] # None =>
            /\ player_keys[clients[s]] = s
            /\ managed_by[clients[s]] = "here"
            /\ listening[clients[s]] # {}

\* While this server manages a key it listens to its updates: it subscribes
\* before a join commits, and unsubscribes after the key is given up.  A new
\* listener connection hears those of every managed key, also of one that came
\* or went while it was being set up; unless an update triggered meanwhile
\* raised.
ManagedKeysHeard ==
    \A k \in Key : managed_by[k] = "here" =>
        /\ listening[k] # {}
        /\ listener = "up" /\ resubscribing = {} => k \in heard

Lease == INSTANCE KeyLease
            WITH Manager <- {"here", "elsewhere"}, Free <- None, holder <- managed_by

\* The table is a lease on every key, as in GameDb, although a join decides on
\* what it selected before awaits in which others run: the row locks, which it
\* holds until it commits.
ImplementsLease == Lease!Spec

\* A key this server manages belongs to a connected client, or to one whose
\* coming or going is still being handled.  Otherwise nobody can join it
\* before the server restarts.
NoOrphanedKey ==
    \A k \in Key : managed_by[k] = "here" =>
        \E s \in Socket :
            \/ s \in open /\ clients[s] = k
            \/ Joining(s) /\ k \in {joining[s].key, joining[s].old}
            \/ Leaving(s) /\ clients[s] = k

\* A socket that is gone leaves nothing behind in the maps.
NothingLeftBehind ==
    \A s \in Socket :
        s \notin open /\ ~Joining(s) /\ ~Leaving(s) =>
            clients[s] = None /\ \A k \in Key : player_keys[k] # s
=============================================================================
