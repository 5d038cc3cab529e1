----------------------------- MODULE GameCopies -----------------------------
(***************************************************************************)
(* One game, its row in the database and the copies of it that the game     *)
(* servers keep for its two players.  GameStore.route_message applies an    *)
(* action to the copy before it writes the copy out, and the write is a     *)
(* compare and set on the version, which is the length of the action stack; *)
(* DbManager's update consumer replaces the copy by what it read from the   *)
(* database, after a notification.  Each step here ends at an await, where  *)
(* the other steps of the server may run.                                   *)
(*                                                                         *)
(* A game is its action stack.  Of the rules, only those matter that say    *)
(* who may act: they are the guards of module Game, without the endgame.    *)
(***************************************************************************)
EXTENDS Integers, Sequences, FiniteSets

CONSTANTS
    NoGame,         \* client_data.game is None
    PatientClients, \* clients wait for a game status after an action failed
    MaxActions,     \* bound on the number of actions sent
    MaxNotices,     \* bound on the notifications under way to one player
    Faults,         \* the kinds of fault that happen
    MaxFaults       \* bound on the number of faults

ASSUME PatientAssumption == PatientClients \in BOOLEAN
ASSUME FaultsAssumption == Faults \subseteq {"write", "reply", "listener", "fetch", "restart"}
ASSUME BoundsAssumption ==
    MaxActions \in Nat /\ MaxNotices \in Nat \ {0} /\ MaxFaults \in Nat

VARIABLES
    data,       \* game.data: the stored action stack; its length is game.version
    copy,       \* client_data.game of each player, NoGame before the first status
    write,      \* what route_message is writing for each player, NoWrite if nothing
    notices,    \* game_status notifications on their way to each player
    fetched,    \* the row _game_status_consumer read and has not delivered
    waiting,    \* players whose last action failed, and no status came since
    succeeded,  \* the actions whose author was told of success
    sent,       \* number of actions taken so far: each has an id
    dead,       \* the players whose server's _update_consumer has ended
    faults      \* number of faults so far

vars == <<data, copy, write, notices, fetched, waiting, succeeded, sent, dead, faults>>

Color == {"white", "black"}
inverse(c) == IF c = "white" THEN "black" ELSE "white"

\* "move" stands for place_stone and pass_turn.
Kind == {"move", "resign", "request_draw", "accept", "reject"}
Action == [id : 1 .. MaxActions, color : Color, kind : Kind]
Stack == Seq(Action)

ASSUME NoGameAssumption == NoGame \notin Stack

NoWrite == [state |-> "none", game |-> <<>>]

Init ==
    /\ data = <<>>
    /\ copy = [c \in Color |-> NoGame]
    /\ write = [c \in Color |-> NoWrite]
    /\ notices = [c \in Color |-> 1]    \* both joined: trigger_update_all
    /\ fetched = [c \in Color |-> NoGame]
    /\ waiting = {}
    /\ succeeded = {}
    /\ sent = 0
    /\ dead = {}
    /\ faults = 0

Last(s) == s[Len(s)]

\* Game.status and Game.turn after the actions of s.
Status(s) ==
    IF s = <<>> THEN "play"
    ELSE IF Last(s).kind \in {"resign", "accept"} THEN "complete"
    ELSE IF Last(s).kind = "request_draw" THEN "request_pending"
    ELSE "play"

Turn(s) ==
    IF Cardinality({i \in 1 .. Len(s) : s[i].kind = "move"}) % 2 = 0
    THEN "black" ELSE "white"

Legal(s, c, kind) ==
    \/ kind \in {"move", "request_draw"} /\ Status(s) = "play" /\ Turn(s) = c
    \/ kind = "resign" /\ Status(s) = "play"
    \/ /\ kind \in {"accept", "reject"}
       /\ Status(s) = "request_pending"
       /\ Last(s).color # c

-----------------------------------------------------------------------------
AllowedInPlay(c, kind) ==                                       \* mutant
    kind \in {"move", "resign", "request_draw"} /\ Status(copy[c]) = "play"

Allowed(c, kind) == Legal(copy[c], c, kind)

\* route_message up to the await of write_game: take_action succeeds on the
\* copy, which now is ahead of what is stored.
TakeAction(c, kind) ==
    /\ write[c].state = "none"
    /\ copy[c] # NoGame
    /\ PatientClients => c \notin waiting
    /\ Allowed(c, kind)
    /\ sent < MaxActions
    /\ sent' = sent + 1
    /\ LET game == Append(copy[c], [id |-> sent + 1, color |-> c, kind |-> kind])
       IN  /\ copy' = [copy EXCEPT ![c] = game]
           /\ write' = [write EXCEPT ![c] = [state |-> "writing", game |-> game]]
    /\ UNCHANGED <<data, notices, fetched, waiting, succeeded, dead, faults>>

NotAhead(game) == Len(data) <= Len(game)                        \* mutant

\* The condition under which write_game updates the row.
VersionMatches(game) == Len(data) = Len(game) - 1

\* The transaction of write_game: it updates the row and notifies the other
\* player, or it finds another version and returns null.
StoreGame(c) ==
    /\ write[c].state = "writing"
    /\ VersionMatches(write[c].game)
    /\ notices[inverse(c)] < MaxNotices
    /\ data' = write[c].game
    /\ notices' = [notices EXCEPT ![inverse(c)] = @ + 1]
    /\ write' = [write EXCEPT ![c].state = "stored"]
    /\ UNCHANGED <<copy, fetched, waiting, succeeded, sent, dead, faults>>

PreemptGame(c) ==
    /\ write[c].state = "writing"
    /\ ~VersionMatches(write[c].game)
    /\ write' = [write EXCEPT ![c].state = "preempted"]
    /\ UNCHANGED <<data, copy, notices, fetched, waiting, succeeded, sent, dead, faults>>

Fault(kind) ==
    /\ kind \in Faults
    /\ faults < MaxFaults
    /\ faults' = faults + 1

\* The connection to the database fails, and write_game raises: before the
\* commit ("write"), or after it, so that only the reply is lost.
FailWrite(c) ==
    /\ \/ write[c].state = "writing" /\ Fault("write")
       \/ write[c].state = "stored" /\ Fault("reply")
    /\ write' = [write EXCEPT ![c].state = "failed"]
    /\ UNCHANGED <<data, copy, notices, fetched, waiting, succeeded, sent, dead>>

WriteReturned(c) == write[c].state \in {"stored", "preempted"}   \* mutant

WriteSucceeded(c) == write[c].state = "stored"

\* The rest of route_message: the response to the author.
AnswerSuccess(c) ==
    /\ WriteSucceeded(c)
    /\ succeeded' = succeeded \cup {Last(write[c].game)}
    /\ waiting' = waiting \ {c}         \* a game status follows the response
    /\ write' = [write EXCEPT ![c] = NoWrite]
    /\ UNCHANGED <<data, copy, notices, fetched, sent, dead, faults>>

\* "preempted by other player", or the error message of on_message.  The
\* copy keeps the action that was not stored.
AnswerFailure(c) ==
    /\ write[c].state \in {"preempted", "failed"}
    /\ waiting' = waiting \cup {c}
    /\ write' = [write EXCEPT ![c] = NoWrite]
    /\ UNCHANGED <<data, copy, notices, fetched, succeeded, sent, dead, faults>>

-----------------------------------------------------------------------------
AnyTime(c) == c \in Color                                       \* mutant

NoticePending(c) == notices[c] > 0

\* _game_status_consumer reads the row...
FetchStatus(c) ==
    /\ c \notin dead
    /\ NoticePending(c)
    /\ fetched[c] = NoGame
    /\ notices' = [notices EXCEPT ![c] = @ - 1]
    /\ fetched' = [fetched EXCEPT ![c] = data]
    /\ UNCHANGED <<data, copy, write, waiting, succeeded, sent, dead, faults>>

\* ... and awaits the callback, which replaces the copy and sends a status.
DeliverStatus(c) ==
    /\ fetched[c] # NoGame
    /\ copy' = [copy EXCEPT ![c] = fetched[c]]
    /\ fetched' = [fetched EXCEPT ![c] = NoGame]
    /\ waiting' = waiting \ {c}
    /\ UNCHANGED <<data, write, notices, succeeded, sent, dead, faults>>

SomeLost(c) == 0 .. notices[c]                                  \* mutant

SomeLostOneTriggered(c) == 1 .. notices[c] + 1

\* The listener connection is lost and replaced: notifications on their way
\* vanish, in part or all, and _reconnect_listener triggers one of its own.
ReconnectListener(c) ==
    /\ Fault("listener")
    /\ \E n \in SomeLostOneTriggered(c) :
        n <= MaxNotices /\ notices' = [notices EXCEPT ![c] = n]
    /\ UNCHANGED <<data, copy, write, fetched, waiting, succeeded, sent, dead>>

\* The read fails.  _update_consumer handles an AssertionError and nothing
\* else, so its task ends, and no update reaches the server's clients again.
FailFetch(c) ==
    /\ c \notin dead
    /\ notices[c] > 0
    /\ fetched[c] = NoGame
    /\ Fault("fetch")
    /\ notices' = [notices EXCEPT ![c] = @ - 1]
    /\ dead' = dead \cup {c}
    /\ UNCHANGED <<data, copy, write, fetched, waiting, succeeded, sent>>

\* The player's server restarts and the player joins again: whatever was in
\* its memory or on its way to it is gone, and join_game triggers an update.
Restart(c) ==
    /\ Fault("restart")
    /\ copy' = [copy EXCEPT ![c] = NoGame]
    /\ write' = [write EXCEPT ![c] = NoWrite]
    /\ notices' = [notices EXCEPT ![c] = 1]
    /\ fetched' = [fetched EXCEPT ![c] = NoGame]
    /\ waiting' = waiting \ {c}
    /\ dead' = dead \ {c}
    /\ UNCHANGED <<data, succeeded, sent>>

Next ==
    \E c \in Color :
        \/ \E kind \in Kind : TakeAction(c, kind)
        \/ StoreGame(c)
        \/ PreemptGame(c)
        \/ FailWrite(c)
        \/ AnswerSuccess(c)
        \/ AnswerFailure(c)
        \/ FetchStatus(c)
        \/ DeliverStatus(c)
        \/ ReconnectListener(c)
        \/ FailFetch(c)
        \/ Restart(c)

\* The event loop runs every task that can run, and the database answers.
Fairness ==
    \A c \in Color :
        /\ WF_vars(StoreGame(c))
        /\ WF_vars(PreemptGame(c))
        /\ WF_vars(AnswerSuccess(c) \/ AnswerFailure(c))
        /\ WF_vars(FetchStatus(c))
        /\ WF_vars(DeliverStatus(c))

Spec == Init /\ [][Next]_vars
FairSpec == Spec /\ Fairness

-----------------------------------------------------------------------------
(***************************************************************************)
(* Properties.                                                             *)
(***************************************************************************)
TypeOK ==
    /\ data \in Stack
    /\ copy \in [Color -> Stack \cup {NoGame}]
    /\ write \in [Color -> [state : {"none", "writing", "stored", "preempted", "failed"},
                            game : Stack]]
    /\ notices \in [Color -> 0 .. MaxNotices]
    /\ fetched \in [Color -> Stack \cup {NoGame}]
    /\ waiting \subseteq Color
    /\ succeeded \subseteq Action
    /\ sent \in 0 .. MaxActions
    /\ dead \subseteq Color
    /\ faults \in 0 .. MaxFaults

\* The action list as the players see it: what is stored, and what they were
\* told of.
Log == INSTANCE GameLog WITH log <- data, acknowledged <- succeeded
ImplementsLog == Log!Spec

\* No action whose author was told of success is missing from the game.
NoLostAction == succeeded \subseteq {data[i] : i \in 1 .. Len(data)}

\* The stored game is one that the rules allow: each of its actions was
\* legal after those before it, whichever copy it was taken on.
StoredGameLegal ==
    \A i \in 1 .. Len(data) :
        Legal(SubSeq(data, 1, i - 1), data[i].color, data[i].kind)

\* Nothing of the stored game is on its way to the server of player c.
Quiet(c) == c \notin dead /\ notices[c] = 0 /\ fetched[c] = NoGame

\* When nothing is on its way to a player's server, the copy there has each
\* stored action of the opponent at its place, whichever notices were lost,
\* writes crossed and servers restarted.
QuietCopiesComplete ==
    \A c \in Color : Quiet(c) =>
        /\ copy[c] # NoGame
        /\ \A i \in 1 .. Len(data) :
            data[i].color = inverse(c) => i <= Len(copy[c]) /\ copy[c][i] = data[i]

\* The action id of player c is in s.
Has(s, c, id) == s # NoGame /\ \E i \in 1 .. Len(s) : s[i].id = id /\ s[i].color = c

\* An action stored for one player gets into the other player's copy, unless
\* the update consumer of that player's server has ended.
StoredActionsArrive ==
    \A id \in 1 .. MaxActions, c \in Color :
        Has(data, c, id) ~> Has(copy[inverse(c)], c, id) \/ inverse(c) \in dead

\* The same with no exception: when the listener connection is back,
\* _reconnect_listener triggers updates "to get clients updated to the latest
\* state".
ReconnectingCatchesUp ==
    \A id \in 1 .. MaxActions, c \in Color :
        Has(data, c, id) ~> Has(copy[inverse(c)], c, id)
=============================================================================
