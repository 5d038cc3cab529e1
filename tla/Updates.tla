------------------------------ MODULE Updates ------------------------------
(***************************************************************************)
(* The updates that reach one player of a game, other than the game's       *)
(* status: chat messages, and whether the opponent is connected.  The SQL   *)
(* functions notify the channels of the player's key; the listener          *)
(* connection of the player's server puts what it hears on _update_queue,   *)
(* whose one consumer reads the database and calls back into GameStore.     *)
(*                                                                         *)
(* The opponent is on another server, where the same happens for its key;   *)
(* here it only joins, leaves and writes.  Of the other keys of the         *)
(* player's server, and of the status of its game, there is only that a     *)
(* read for them may fail, which ends the one consumer.  What sockets and   *)
(* other keys do to the maps is in Sessions.                               *)
(***************************************************************************)
EXTENDS Naturals, FiniteSets, Sequences, SequencesExt

CONSTANTS
    None,           \* nothing read, or a flag that is not set
    MaxMessages,    \* bound on the rows inserted into chat
    MaxNotices,     \* bound on the queue; a trigger may exceed it once
    Faults,         \* the kinds of fault that happen
    MaxFaults       \* bound on the number of faults

ASSUME FaultsAssumption ==
    Faults \subseteq {"chat", "join", "trigger", "listener", "restart", "cleanup",
                     "fetch"}
ASSUME BoundsAssumption ==
    MaxMessages \in Nat /\ MaxNotices \in Nat /\ MaxFaults \in Nat

VARIABLES
    last_id,        \* the serial that chat.id is drawn from
    chat,           \* the ids of the committed rows
    inserted,       \* the row of each author that is not committed yet, or 0
    opponent,       \* managed_by of the opponent's key is not null
    unannounced,    \* it became null in do_cleanup, which notifies nobody
    player,         \* how far the player's coming or going has got
    listeners,      \* _listening_channels: the callbacks on each channel of the key
    connection,     \* the listener connection
    notices,        \* _update_queue
    consumer,       \* the task of _update_consumer
    reading,        \* what the consumer has read and not handed over
    chat_thread,    \* client_data.chat_thread: the ids
    opponent_connected, \* client_data.opponent_connected
    faults          \* number of faults so far

database == <<last_id, chat, inserted>>
server == <<player, listeners, connection>>
client_data == <<chat_thread, opponent_connected>>
consuming == <<consumer, reading>>
vars == <<database, opponent, unannounced, server, notices, consuming, client_data, faults>>

Author == {"player", "opponent"}
Id == 1 .. MaxMessages
All == 0            \* the empty payload of a chat notice: the whole thread

Chat(id) == [type |-> "chat", payload |-> id]
Connected(payload) == [type |-> "opponent_connected", payload |-> payload]

\* The key is in _player_keys.
Registered == player \in {"registered", "untriggered", "in", "leaving"}

NothingRead == [type |-> "none", value |-> None]

Init ==
    /\ last_id = 0
    /\ chat = {}
    /\ inserted = [a \in Author |-> 0]
    /\ opponent = FALSE
    /\ unannounced = FALSE
    /\ player = "out"
    /\ listeners = 0
    /\ connection = "up"
    /\ notices = <<>>
    /\ consumer = "running"
    /\ reading = NothingRead
    /\ chat_thread = <<>>
    /\ opponent_connected = None
    /\ faults = 0

\* What the callbacks put on the queue: one item each, and nothing while the
\* connection is lost.  What they put on a queue that is not read any more is
\* left out.
Heard(notice) ==
    IF connection = "lost" \/ consumer = "ended"
    THEN <<>> ELSE [i \in 1 .. listeners |-> notice]

Notify(notice) ==
    /\ consumer = "running" => Len(notices) + listeners <= MaxNotices
    /\ notices' = notices \o Heard(notice)

Fault(kind) ==
    /\ kind \in Faults
    /\ faults < MaxFaults
    /\ faults' = faults + 1

-----------------------------------------------------------------------------
(***************************************************************************)
(* The opponent joins, leaves, or loses its server.                        *)
(***************************************************************************)
OpponentJoins ==
    /\ ~opponent
    /\ opponent' = TRUE
    /\ unannounced' = FALSE
    /\ Notify(Connected("true"))
    /\ UNCHANGED <<database, server, consuming, client_data, faults>>

LeavingUnheard == UNCHANGED notices                             \* mutant

AnnounceLeaving == Notify(Connected("false"))

OpponentLeaves ==
    /\ opponent
    /\ opponent' = FALSE
    /\ AnnounceLeaving
    /\ UNCHANGED <<database, unannounced, server, consuming, client_data, faults>>

\* Its server restarts: do_cleanup frees the key without a notification, and
\* a message that was not committed is rolled back.
OpponentCleanup ==
    /\ opponent
    /\ Fault("cleanup")
    /\ opponent' = FALSE
    /\ unannounced' = TRUE
    /\ inserted' = [inserted EXCEPT !["opponent"] = 0]
    /\ UNCHANGED <<last_id, chat, server, notices, consuming, client_data>>

-----------------------------------------------------------------------------
(***************************************************************************)
(* The player joins: the subscription, the commit, the maps, and           *)
(* trigger_update_all.                                                     *)
(***************************************************************************)
\* Subscribing needs the connection and its lock.
Subscribe ==
    /\ player = "out"
    /\ connection = "up"
    /\ player' = "subscribed"
    /\ listeners' = listeners + 1
    /\ UNCHANGED <<database, opponent, unannounced, connection, notices, consuming,
                   client_data, faults>>

CommitJoin ==
    /\ player = "subscribed"
    /\ player' = "joined"
    /\ UNCHANGED <<database, opponent, unannounced, listeners, connection, notices,
                   consuming, client_data, faults>>

\* The transaction is rolled back, and the listeners stay.
FailJoin ==
    /\ player = "subscribed"
    /\ Fault("join")
    /\ player' = "out"
    /\ UNCHANGED <<database, opponent, unannounced, listeners, connection, notices,
                   consuming, client_data>>

\* A fresh ClientData enters the maps.
Register ==
    /\ player = "joined"
    /\ player' = "registered"
    /\ UNCHANGED <<database, opponent, unannounced, listeners, connection, notices,
                   consuming, client_data, faults>>

\* mutant: trigger_update_all leaves out the chat channel
TriggeredConnected == notices \o Heard(Connected(""))

\* The queue after trigger_update_all.
Triggered == notices \o Heard(Chat(All)) \o Heard(Connected(""))

TriggerUpdateAll ==
    /\ player = "registered"
    /\ consumer = "running" => Len(notices) <= MaxNotices
    /\ player' = "in"
    /\ notices' = Triggered
    /\ UNCHANGED <<database, opponent, unannounced, listeners, connection, consuming,
                   client_data, faults>>

\* trigger_update_all raises, and so does join_game; the player stays in.
FailTrigger ==
    /\ player = "registered"
    /\ Fault("trigger")
    /\ player' = "untriggered"
    /\ UNCHANGED <<database, opponent, unannounced, listeners, connection, notices,
                   consuming, client_data>>

-----------------------------------------------------------------------------
(***************************************************************************)
(* GameStore.unsubscribe, and a restart of the server.                     *)
(***************************************************************************)
Unsubscribe ==
    /\ player \in {"in", "untriggered"}
    /\ player' = "leaving"
    /\ UNCHANGED <<database, opponent, unannounced, listeners, connection, notices,
                   consuming, client_data, faults>>

ForgetClient == chat_thread' = <<>> /\ opponent_connected' = None

\* The listeners and the maps.  What is on the queue stays there.
RemoveKey ==
    /\ player = "leaving"
    /\ connection # "resubscribed"   \* _reconnect_listener has the lock
    /\ player' = "out"
    /\ listeners' = 0
    /\ ForgetClient
    /\ UNCHANGED <<database, opponent, unannounced, connection, notices, consuming, faults>>

\* The memory is gone, and a message that was not committed is rolled back.
Restart ==
    /\ Fault("restart")
    /\ player' = "out"
    /\ inserted' = [inserted EXCEPT !["player"] = 0]
    /\ listeners' = 0
    /\ connection' = "up"
    /\ notices' = <<>>
    /\ consumer' = "running"
    /\ reading' = NothingRead
    /\ ForgetClient
    /\ UNCHANGED <<last_id, chat, opponent, unannounced>>

-----------------------------------------------------------------------------
(***************************************************************************)
(* write_chat.                                                             *)
(***************************************************************************)
MayWrite(a) == IF a = "player" THEN player \in {"in", "untriggered"} ELSE opponent

\* The row gets its id before the transaction commits.
InsertChat(a) ==
    /\ MayWrite(a)
    /\ inserted[a] = 0
    /\ last_id < MaxMessages
    /\ last_id' = last_id + 1
    /\ inserted' = [inserted EXCEPT ![a] = last_id + 1]
    /\ UNCHANGED <<chat, opponent, unannounced, server, notices, consuming, client_data,
                   faults>>

\* Author and opponent are both notified: the author learns the id.
CommitChat(a) ==
    /\ inserted[a] # 0
    /\ chat' = chat \cup {inserted[a]}
    /\ inserted' = [inserted EXCEPT ![a] = 0]
    /\ Notify(Chat(inserted[a]))
    /\ UNCHANGED <<last_id, opponent, unannounced, server, consuming, client_data, faults>>

FailChat(a) ==
    /\ inserted[a] # 0
    /\ Fault("chat")
    /\ inserted' = [inserted EXCEPT ![a] = 0]
    /\ UNCHANGED <<last_id, chat, opponent, unannounced, server, notices, consuming,
                   client_data>>

-----------------------------------------------------------------------------
(***************************************************************************)
(* _update_consumer, and the callbacks of GameStore.                       *)
(***************************************************************************)
RowOf(id) == <<id>>                                             \* mutant

\* ORDER BY id.
InOrder(ids) ==
    CHOOSE s \in [1 .. Cardinality(ids) -> ids] :
        \A i, j \in 1 .. Cardinality(ids) : i < j => s[i] < s[j]

\* get_chat_updates returns the rows in the order of their ids.
Rows(id) == InOrder(IF id = All THEN chat ELSE chat \cap {id})

\* What the notice says, or what get_opponent_connected does.
IsConnected(payload) == IF payload = "" THEN opponent ELSE payload = "true"

\* The consumer takes an item off the queue and reads what it stands for.
Fetch ==
    /\ consumer = "running"
    /\ reading = NothingRead
    /\ notices # <<>>
    /\ LET notice == Head(notices)
       IN  reading' = [type |-> notice.type,
                       value |-> IF notice.type = "chat" THEN Rows(notice.payload)
                                 ELSE IsConnected(notice.payload)]
    /\ notices' = Tail(notices)
    /\ UNCHANGED <<database, opponent, unannounced, server, consumer, client_data, faults>>

\* The payload "true" or "false" is all there is to know.
ReadsDatabase(notice) == notice.type = "opponent_connected" => notice.payload = ""

\* The read raises: the item is off the queue, and the consumer, which catches
\* AssertionErrors only, ends with it.
FailFetch ==
    /\ consumer = "running"
    /\ reading = NothingRead
    /\ notices # <<>>
    /\ ReadsDatabase(Head(notices))
    /\ Fault("fetch")
    /\ consumer' = "ended"
    /\ notices' = Tail(notices)
    /\ UNCHANGED <<database, opponent, unannounced, server, reading, client_data>>

\* So does it when it was reading the status of a game, or anything for
\* another key: they are on the same queue.
FailOtherFetch ==
    /\ consumer = "running"
    /\ reading = NothingRead
    /\ Fault("fetch")
    /\ consumer' = "ended"
    /\ UNCHANGED <<database, opponent, unannounced, server, notices, reading, client_data>>

\* The callback.  A key that is not in the maps is an AssertionError.
Deliver ==
    /\ reading # NothingRead
    /\ reading' = NothingRead
    /\ chat_thread' = IF Registered /\ reading.type = "chat"
                      THEN chat_thread \o reading.value ELSE chat_thread
    /\ opponent_connected' = IF Registered /\ reading.type = "opponent_connected"
                             THEN reading.value ELSE opponent_connected
    /\ UNCHANGED <<database, opponent, unannounced, server, notices, consumer, faults>>

-----------------------------------------------------------------------------
(***************************************************************************)
(* The listener connection is lost, and _reconnect_listener.               *)
(***************************************************************************)
LoseListener ==
    /\ connection # "lost"
    /\ Fault("listener")
    /\ connection' = "lost"
    /\ UNCHANGED <<database, opponent, unannounced, player, listeners, notices, consuming,
                   client_data>>

\* A new connection, and all listeners added to it, under the lock.
Resubscribe ==
    /\ connection = "lost"
    /\ connection' = IF listeners = 0 THEN "up" ELSE "resubscribed"
    /\ UNCHANGED <<database, opponent, unannounced, player, listeners, notices, consuming,
                   client_data, faults>>

NotTriggered == notices                                         \* mutant

TriggeredAgain == Triggered

Retrigger ==
    /\ connection = "resubscribed"
    /\ connection' = "up"
    /\ notices' = TriggeredAgain
    /\ UNCHANGED <<database, opponent, unannounced, player, listeners, consuming,
                   client_data, faults>>

\* The trigger raises, which ends _reconnect_listener.  It is one fault with
\* the loss of the connection: the database is not quite back.
FailRetrigger ==
    /\ connection = "resubscribed"
    /\ "trigger" \in Faults
    /\ connection' = "up"
    /\ player' = IF player = "in" THEN "untriggered" ELSE player
    /\ UNCHANGED <<database, opponent, unannounced, listeners, notices, consuming,
                   client_data, faults>>

Next ==
    \/ OpponentJoins
    \/ OpponentLeaves
    \/ OpponentCleanup
    \/ Subscribe
    \/ CommitJoin
    \/ FailJoin
    \/ Register
    \/ TriggerUpdateAll
    \/ FailTrigger
    \/ Unsubscribe
    \/ RemoveKey
    \/ Restart
    \/ \E a \in Author : InsertChat(a) \/ CommitChat(a) \/ FailChat(a)
    \/ Fetch
    \/ FailFetch
    \/ FailOtherFetch
    \/ Deliver
    \/ LoseListener
    \/ Resubscribe
    \/ Retrigger
    \/ FailRetrigger

\* The consumer, while there is one, and the reconnection go on by themselves.
Fairness ==
    /\ WF_vars(Fetch)
    /\ WF_vars(Deliver)
    /\ WF_vars(Resubscribe)
    /\ WF_vars(Retrigger)

Spec == Init /\ [][Next]_vars
FairSpec == Spec /\ Fairness

-----------------------------------------------------------------------------
(***************************************************************************)
(* Properties.                                                             *)
(***************************************************************************)
Notice ==
    [type : {"chat"}, payload : Id \cup {All}]
        \cup [type : {"opponent_connected"}, payload : {"true", "false", ""}]

TypeOK ==
    /\ last_id \in 0 .. MaxMessages
    /\ chat \subseteq Id
    /\ inserted \in [Author -> Id \cup {0}]
    /\ opponent \in BOOLEAN /\ unannounced \in BOOLEAN
    /\ player \in {"out", "subscribed", "joined", "registered", "untriggered", "in",
                   "leaving"}
    /\ listeners \in Nat
    /\ connection \in {"up", "lost", "resubscribed"}
    /\ notices \in Seq(Notice)
    /\ consumer \in {"running", "ended"}
    /\ reading \in {NothingRead} \cup [type : {"chat"}, value : Seq(Id)]
                    \cup [type : {"opponent_connected"}, value : BOOLEAN]
    /\ chat_thread \in Seq(Id)
    /\ opponent_connected \in BOOLEAN \cup {None}
    /\ faults \in 0 .. MaxFaults

\* The player is in the game, its server hears and consumes the updates, and
\* none is on its way.
Quiet ==
    /\ player = "in" /\ connection = "up" /\ consumer = "running"
    /\ notices = <<>> /\ reading = NothingRead

\* Once its queue is empty, the player has every committed message: those of
\* before it joined, while it joined, and while its listener was lost.  A read
\* that failed ended the consumer, and what it was to bring is lost with it.
ChatComplete == Quiet => chat \subseteq ToSet(chat_thread)

\* Once its queue is empty, the player sees the opponent as connected exactly
\* if it is, in whatever order they came and went; except when do_cleanup
\* freed the opponent's key, of which nobody is told, and after a read that
\* failed and ended the consumer.
ConnectedFlagRight == Quiet /\ ~unannounced => opponent_connected = opponent

\* A committed message reaches the player, if it is in the game and stays, and
\* no read fails: after one that did, no message reaches anybody until the
\* server restarts.
MessagesArrive ==
    \A id \in Id :
        id \in chat /\ player = "in" ~>
            id \in ToSet(chat_thread) \/ player # "in" \/ consumer = "ended"
=============================================================================
