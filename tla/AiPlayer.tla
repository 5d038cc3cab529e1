------------------------------ MODULE AiPlayer ------------------------------
(***************************************************************************)
(* A game between a human and a computer player: the game server starts    *)
(* the AI player over HTTP (start_ai_player), its client joins over a web   *)
(* socket, plays by RandomPolicy, and leaves when it reads that the         *)
(* opponent is gone or the game complete.                                  *)
(*                                                                         *)
(* What goes on within route_message, join_game, unsubscribe and the        *)
(* update consumer is in modules GameCopies, Sessions and Updates; here     *)
(* each is one step, and the human's moves are single steps on the store.   *)
(* Of a game the model has what the client, the server and the human decide *)
(* by.  A client that lost its connection connects again but does not join, *)
(* and what it sends is refused: it is out of the model from then on.       *)
(***************************************************************************)
EXTENDS Naturals, Sequences

CONSTANTS
    None,           \* no game, no message, a flag that is not set
    KoArises,       \* some of the client's choices would retake a ko
    PromptUpdates,  \* the queue is worked off before the AI player joins or is unsubscribed
    Faults,         \* the kinds of fault that happen
    MaxFaults,      \* bound on the number of faults
    MaxVersion,     \* the human acts on versions below this bound
    MaxJoins,       \* bound on how often the human joins again
    MaxNotices      \* bound on the notifications on the queue

ASSUME FlagsAssumption == KoArises \in BOOLEAN /\ PromptUpdates \in BOOLEAN
ASSUME FaultsAssumption == Faults \subseteq {"join", "write", "reply", "connection"}
ASSUME BoundsAssumption ==
    MaxFaults \in Nat /\ MaxVersion \in Nat /\ MaxJoins \in Nat /\ MaxNotices \in Nat

VARIABLES
    game,       \* the game in the store
    human,      \* the human is in the game
    joins,      \* how often the human joined again
    starts,     \* requests to the AI server under way
    client,     \* the AI client that is registered with the key, "none" if none is
    copy,       \* client_data.game of the AI player's key
    opponent_connected, \* client_data.opponent_connected of that key
    notices,    \* notifications for the key on its server's queue
    inbox,      \* messages to the client
    outbox,     \* the client's actions, sent and not handled
    last_message, \* Client.last_message
    lost,       \* "start": a join of the AI player raised; "turn": an action it owes was dropped
    faults      \* number of faults so far

server == <<copy, opponent_connected, notices>>
messages == <<inbox, outbox, last_message>>
vars == <<game, human, joins, starts, client, server, messages, lost, faults>>

Player == {"human", "ai"}
Other(p) == IF p = "human" THEN "ai" ELSE "human"

\* What legal_moves returns to the client: whether some of it is legal, and
\* whether some of it is only legal because _prev_board was not sent along.
Moves == SUBSET (IF KoArises THEN {"legal", "ko"} ELSE {"legal"})

Game == {g \in [version : Nat,
                status : {"play", "endgame", "request_pending", "complete"},
                turn : Player,
                request : {"none", "draw", "mark_dead", "tally_score"},
                passed : BOOLEAN,      \* the last action was a pass
                moves : Moves] :
            g.status = "request_pending" <=> g.request # "none"}

\* An action that the client sends, and the version it was chosen on.
Action == [type : {"place", "retake", "pass", "accept"}, version : Nat]

ASSUME NoneAssumption == None \notin Game /\ None \notin Action

\* The human has just started the game, or joined it again; versions count
\* from there.
Init ==
    /\ \E first \in Player : \E moves \in IF first = "ai" THEN Moves ELSE {{}} :
        game = [version |-> 0, status |-> "play", turn |-> first, request |-> "none",
                passed |-> FALSE, moves |-> moves]
    /\ human = TRUE
    /\ joins = 0
    /\ starts = 1
    /\ client = "none"
    /\ copy = None
    /\ opponent_connected = None
    /\ notices = <<>>
    /\ inbox = <<>>
    /\ outbox = <<>>
    /\ last_message = None
    /\ lost = {}
    /\ faults = 0

Registered == client # "none"

\* A notification on a channel of the AI player's key.
Notify(notice) ==
    /\ Len(notices) < MaxNotices
    /\ notices' = IF Registered THEN Append(notices, notice) ELSE notices

Fault(kind) ==
    /\ kind \in Faults
    /\ faults < MaxFaults
    /\ faults' = faults + 1

-----------------------------------------------------------------------------
(***************************************************************************)
(* What the actions make of a game g.                                      *)
(***************************************************************************)
Placed(g, moves) ==
    [g EXCEPT !.version = @ + 1, !.turn = Other(@), !.passed = FALSE, !.moves = moves]

Passed(g, moves) ==
    [g EXCEPT !.version = @ + 1, !.turn = Other(@), !.passed = TRUE, !.moves = moves,
              !.status = IF g.passed THEN "endgame" ELSE @]

Asked(g, request) ==
    [g EXCEPT !.version = @ + 1, !.passed = FALSE, !.status = "request_pending",
              !.request = request]

AcceptedAndKept(g) ==                                           \* mutant
    [g EXCEPT !.version = @ + 1,
              !.status = IF g.request = "mark_dead" THEN "endgame" ELSE "complete"]

Accepted(g) ==
    [g EXCEPT !.version = @ + 1, !.request = "none",
              !.status = IF g.request = "mark_dead" THEN "endgame" ELSE "complete"]

Resigned(g) == [g EXCEPT !.version = @ + 1, !.passed = FALSE, !.status = "complete"]

-----------------------------------------------------------------------------
(***************************************************************************)
(* The human.                                                              *)
(***************************************************************************)
HumanActs ==
    /\ human
    /\ game.version < MaxVersion
    /\ \/ /\ game.status = "play" /\ game.turn = "human"
          /\ \/ \E moves \in Moves : game' = Placed(game, moves)
             \/ \E moves \in {{}, {"legal"}} : game' = Passed(game, moves)
             \/ game' = Asked(game, "draw")
       \/ game.status = "play" /\ game' = Resigned(game)
       \/ /\ game.status = "endgame"
          /\ \E request \in {"mark_dead", "tally_score"} : game' = Asked(game, request)
    /\ Notify("status")
    /\ UNCHANGED <<human, joins, starts, client, copy, opponent_connected, messages, lost,
                   faults>>

LeaveUnheard == UNCHANGED notices                               \* mutant

AnnounceLeaving == Notify("false")

HumanLeaves ==
    /\ human
    /\ human' = FALSE
    /\ AnnounceLeaving
    /\ UNCHANGED <<game, joins, starts, client, copy, opponent_connected, messages, lost,
                   faults>>

\* join_game, which ends by starting the AI player whatever it is doing.
HumanJoins ==
    /\ ~human
    /\ joins < MaxJoins
    /\ human' = TRUE
    /\ joins' = joins + 1
    /\ starts' = starts + 1
    /\ Notify("true")
    /\ UNCHANGED <<game, client, copy, opponent_connected, messages, lost, faults>>

-----------------------------------------------------------------------------
(***************************************************************************)
(* The AI player comes and goes.  start_ai_player posts until the AI        *)
(* server answers; there, a new client connects, also until it succeeds.   *)
(***************************************************************************)
UpdatesDone == PromptUpdates => notices = <<>>

TriggeredConnected == <<"check">>                               \* mutant

\* trigger_update_all, but for the chat.
Triggered == <<"status", "check">>

\* Client.start: the join is answered, and trigger_update_all follows.
AiJoins ==
    /\ starts > 0 /\ ~Registered
    /\ UpdatesDone
    /\ starts' = starts - 1
    /\ client' = "playing"
    /\ copy' = None
    /\ opponent_connected' = None
    /\ notices' = notices \o Triggered
    /\ inbox' = <<>> /\ outbox' = <<>> /\ last_message' = None
    /\ UNCHANGED <<game, human, joins, lost, faults>>

\* The key is in use, and the new client ends.
AiRefused ==
    /\ starts > 0 /\ Registered
    /\ starts' = starts - 1
    /\ UNCHANGED <<game, human, joins, client, server, messages, lost, faults>>

\* The answer is an error: the assertion on it ends the new client.
AiJoinFails ==
    /\ starts > 0
    /\ Fault("join")
    /\ starts' = starts - 1
    /\ lost' = lost \cup {"start"}
    /\ UNCHANGED <<game, human, joins, client, server, messages>>

NeverAgain == FALSE                                             \* mutant

\* start_ai_player with a previous subscription.
DisconnectedTooEarly ==
    opponent_connected = TRUE /\ copy # None /\ copy.status # "complete"

\* on_close: the client closed the socket or lost it, and what it had sent
\* before is handled.
AiUnsubscribed ==
    /\ client \in {"closed", "lost"}
    /\ outbox = <<>>
    /\ UpdatesDone
    /\ client' = "none"
    /\ starts' = IF DisconnectedTooEarly THEN starts + 1 ELSE starts
    /\ copy' = None
    /\ opponent_connected' = None
    /\ inbox' = <<>> /\ last_message' = None
    /\ UNCHANGED <<game, human, joins, notices, outbox, lost, faults>>

LoseConnection ==
    /\ client \in {"playing", "sleeping"}
    /\ Fault("connection")
    /\ client' = "lost"
    /\ inbox' = <<>>
    /\ \E n \in 0 .. Len(outbox) : outbox' = SubSeq(outbox, 1, n)
    /\ UNCHANGED <<game, human, joins, starts, server, last_message, lost>>

-----------------------------------------------------------------------------
(***************************************************************************)
(* The update consumer of the AI player's server.                          *)
(***************************************************************************)
Send(message) == IF client \in {"playing", "sleeping"} THEN Append(inbox, message) ELSE inbox

Status(g) == [type |-> "game_status", game |-> g]
Connected(flag) == [type |-> "opponent_connected", flag |-> flag]
Error == [type |-> "error"]

Consume ==
    /\ notices # <<>>
    /\ notices' = Tail(notices)
    /\ IF ~Registered THEN UNCHANGED <<copy, opponent_connected, inbox>>
       ELSE IF Head(notices) = "status"
       THEN copy' = game /\ inbox' = Send(Status(game)) /\ UNCHANGED opponent_connected
       ELSE /\ opponent_connected' =
                    IF Head(notices) = "check" THEN human ELSE Head(notices) = "true"
            /\ inbox' = Send(Connected(opponent_connected'))
            /\ UNCHANGED copy
    /\ UNCHANGED <<game, human, joins, starts, client, outbox, last_message, lost, faults>>

-----------------------------------------------------------------------------
(***************************************************************************)
(* Client._message_consumer and RandomPolicy.play.  The response to an      *)
(* action is only logged, whether it succeeded or not, and is left out.    *)
(***************************************************************************)
\* The actions that the policy may take on g: "place" is legal on g, "retake"
\* violates ko there.
Choices(g) ==
    IF g.status = "request_pending" THEN {"accept"}
    ELSE IF g.turn # "ai" THEN {}
    ELSE IF g.moves = {} THEN {"pass"}
    ELSE {IF m = "legal" THEN "place" ELSE "retake" : m \in g.moves}

ReadStatus ==
    /\ client = "playing"
    /\ inbox # <<>> /\ Head(inbox).type = "game_status"
    /\ inbox' = Tail(inbox)
    /\ LET g == Head(inbox).game
       IN  IF g.status = "complete"
           THEN client' = "closed" /\ UNCHANGED <<outbox, last_message>>
           ELSE /\ UNCHANGED client
                /\ IF Choices(g) = {} THEN UNCHANGED <<outbox, last_message>>
                   ELSE \E type \in Choices(g) :
                        /\ last_message' = [type |-> type, version |-> g.version]
                        /\ outbox' = Append(outbox, last_message')
    /\ UNCHANGED <<game, human, joins, starts, server, lost, faults>>

ReadConnected ==
    /\ client = "playing"
    /\ inbox # <<>> /\ Head(inbox).type = "opponent_connected"
    /\ inbox' = Tail(inbox)
    /\ client' = IF Head(inbox).flag THEN "playing" ELSE "closed"
    /\ UNCHANGED <<game, human, joins, starts, server, outbox, last_message, lost, faults>>

ReadError ==
    /\ client = "playing"
    /\ inbox # <<>> /\ Head(inbox).type = "error"
    /\ inbox' = Tail(inbox)
    /\ client' = "sleeping"
    /\ UNCHANGED <<game, human, joins, starts, server, outbox, last_message, lost, faults>>

\* The client reads nothing while it sleeps, so its last message is still
\* the last one.
Resend ==
    /\ client = "sleeping"
    /\ client' = "playing"
    /\ outbox' = Append(outbox, last_message)
    /\ UNCHANGED <<game, human, joins, starts, server, inbox, last_message, lost, faults>>

-----------------------------------------------------------------------------
(***************************************************************************)
(* route_message for an action of the AI player.                           *)
(***************************************************************************)
\* The game refuses with an assertion, and the client gets an error.
Asserts(type) ==
    copy.status # (IF type = "accept" THEN "request_pending" ELSE "play")

\* The game refuses politely: not the player's turn, or the point is not
\* playable, which may also be so if it was chosen on another version.
MayRefuse(a) ==
    /\ a.type # "accept"
    /\ \/ copy.turn # "ai"
       \/ a.type = "retake"
       \/ a.type = "place" /\ a.version # copy.version

MayTake(a) ==
    \/ a.type = "accept"
    \/ copy.turn = "ai" /\ (a.type = "retake" => a.version # copy.version)

\* It is for the AI player to act.
Owes ==
    \/ game.status = "request_pending"
    \/ game.status = "play" /\ game.turn = "ai"

HandleAssertion ==
    /\ outbox # <<>> /\ Asserts(Head(outbox).type)
    /\ outbox' = Tail(outbox)
    /\ inbox' = Send(Error)
    /\ UNCHANGED <<game, human, joins, starts, client, server, last_message, lost, faults>>

HandleRefusal ==
    /\ outbox # <<>> /\ ~Asserts(Head(outbox).type) /\ MayRefuse(Head(outbox))
    /\ outbox' = Tail(outbox)
    /\ lost' = IF Owes /\ copy.version >= game.version THEN lost \cup {"turn"} ELSE lost
    /\ UNCHANGED <<game, human, joins, starts, client, server, inbox, last_message, faults>>

\* The game after action a on the copy.
Outcomes(a) ==
    IF a.type = "accept" THEN {Accepted(copy)}
    ELSE IF a.type = "pass" THEN {Passed(copy, {})} ELSE {Placed(copy, {})}

\* The action is taken on the copy and written if nothing was meanwhile; a
\* preempted write leaves the copy ahead, as does one that fails; and one that
\* is done and only its reply lost is answered as if it had failed.
HandleAction ==
    /\ outbox # <<>> /\ ~Asserts(Head(outbox).type) /\ MayTake(Head(outbox))
    /\ outbox' = Tail(outbox)
    /\ copy' \in Outcomes(Head(outbox))
    /\ \/ /\ IF copy.version = game.version
             THEN game' = copy' /\ inbox' = Send(Status(copy'))
             ELSE UNCHANGED <<game, inbox>>
          /\ UNCHANGED <<lost, faults>>
       \/ /\ Fault("write")
          /\ inbox' = Send(Error)
          /\ lost' = lost \cup {"turn"}
          /\ UNCHANGED game
       \/ /\ Fault("reply") /\ copy.version = game.version
          /\ game' = copy'
          /\ inbox' = Send(Error)
          /\ UNCHANGED lost
    /\ UNCHANGED <<human, joins, starts, client, opponent_connected, notices, last_message>>

Next ==
    \/ HumanActs
    \/ HumanLeaves
    \/ HumanJoins
    \/ AiJoins
    \/ AiRefused
    \/ AiJoinFails
    \/ AiUnsubscribed
    \/ LoseConnection
    \/ Consume
    \/ ReadStatus
    \/ ReadConnected
    \/ ReadError
    \/ Resend
    \/ HandleAssertion
    \/ HandleRefusal
    \/ HandleAction

\* Everything but the human and the faults goes on by itself.
Fairness ==
    /\ WF_vars(AiJoins \/ AiRefused)
    /\ WF_vars(AiUnsubscribed)
    /\ WF_vars(Consume)
    /\ WF_vars(ReadStatus \/ ReadConnected \/ ReadError \/ Resend)
    /\ WF_vars(HandleAssertion \/ HandleRefusal \/ HandleAction)

Spec == Init /\ [][Next]_vars
FairSpec == Spec /\ Fairness

-----------------------------------------------------------------------------
(***************************************************************************)
(* Properties.                                                             *)
(***************************************************************************)
TypeOK ==
    /\ game \in Game
    /\ human \in BOOLEAN
    /\ joins \in 0 .. MaxJoins
    /\ starts \in Nat
    /\ client \in {"none", "playing", "sleeping", "closed", "lost"}
    /\ copy \in Game \cup {None}
    /\ opponent_connected \in BOOLEAN \cup {None}
    /\ notices \in Seq({"status", "check", "true", "false"})
    /\ inbox \in Seq([type : {"game_status"}, game : Game]
                     \cup [type : {"opponent_connected"}, flag : BOOLEAN]
                     \cup [type : {"error"}])
    /\ outbox \in Seq(Action)
    /\ last_message \in Action \cup {None}
    /\ lost \subseteq {"start", "turn"}
    /\ faults \in 0 .. MaxFaults

\* Nothing is on its way to or from the AI player, and its client neither
\* sleeps nor is about to be unsubscribed.
AtRest ==
    /\ starts = 0 /\ notices = <<>> /\ inbox = <<>> /\ outbox = <<>>
    /\ client \in {"none", "playing"}

\* When nothing is on its way any more, nothing has been overlooked: the AI
\* player is in no game that the human has left, is in any that the human
\* wants to go on with, and owes no action there; but for what "lost" says.
\* These are the states that the properties below say it gets to.
RestsInOrder ==
    AtRest =>
        /\ client = "playing" => human
        /\ human /\ game.status # "complete" /\ lost = {} => client = "playing"
        /\ client = "playing" /\ Owes => "turn" \in lost

\* The AI player does not stay in a game that the human has left.
AiLeaves == <>[]~human => <>[](client = "none")

\* While the human stays in a game that goes on, the AI player is there, or
\* comes back, after its own disconnections and those of the human; unless a
\* join of the AI player raised, or the copy by which the server decides ran
\* ahead of the store in a write that failed.
AiComesBack ==
    <>[](human /\ game.status # "complete")
        => []<>(client \in {"playing", "sleeping"} \/ lost # {})

\* While the human is there, the AI player answers each request and takes each
\* of its turns, except after an action was refused that it owed (a ko), or
\* was not written, or a join of it raised.
AiActs ==
    \A v \in 0 .. MaxVersion :
        (human /\ Owes /\ game.version = v) ~> (game.version # v \/ ~human \/ lost # {})

\* "AIs should only take legal actions": nothing fails, the human does not
\* leave, and the AI player takes its turns.
AiTakesItsTurns ==
    \A v \in 0 .. MaxVersion :
        (human /\ Owes /\ game.version = v) ~> (game.version # v \/ ~human)
=============================================================================
