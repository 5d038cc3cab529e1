# Verification of igo-backend

TLA+ models of the igo go server (`../src`), the TLC runs that check them and
TLAPS proofs about them. The models are translated from the code; paths below
are relative to `src/`.

## 1. The system

Two players play a game of go over web sockets. Each is connected to some game
server, possibly the same one. The servers share a PostgreSQL database and
nothing else: no server talks to another one, and on one server the two players
of a game have separate copies of it.

| Part | State | Operations | Hard because |
|---|---|---|---|
| Rules, `igo/game.py` | status, turn, action stack, board with its flags, prisoners, territory, pending request, result, previous board | one per `ActionType`, through `take_action` | long sequences of legal calls; loops that change the board while they look at it; ko against a remembered position; coordinates nobody checks |
| Store, `sql/*.sql` | tables `game`, `player_key`, `chat` | `new_game`, `join_game`, `unsubscribe`, `write_game`, `write_chat`, `get_*`, `do_cleanup`, `trigger_update_all` | columns that repeat each other (`managed_by`, `players_connected`, `write_load_timestamp`) and are kept in step by hand in four places |
| Database access, `igo/gameserver/db_manager.py` | listener connection, `_listening_channels`, `_update_queue` | the same calls, subscriptions, the update consumer, reconnection | subscribing and committing are not one transaction; notifications are lost with the connection; calls fail before or after their commit |
| Game store, `igo/gameserver/game_manager.py` | `_clients` (with a copy of the game per client), `_player_keys` | `new_game`, `join_game`, `route_message`, `unsubscribe`, update callbacks | every `await` lets other coroutines run on the same maps and copies |
| Web sockets, `igo/gameserver/connection_manager.py` | open sockets | `on_message`, `on_close` | messages of a socket are handled one at a time, but `on_close` starts a coroutine beside them |
| Chat, `igo/gameserver/chat.py` | thread of messages | `append`, `extend`, `get_after` | full and partial threads arrive in any order |
| AI players, `igo/aiserver` | connection, last message | message loop, `start_ai_player` | retries, reconnection, stale opponent status |
| Messages, containers, serialization | none | conversions | a client's game is the serialized one, without the previous board |
| MCTS policy, performance runner | none of the service | | not part of the service |

How they interact: a socket's message goes `IgoWebSocket.on_message` ->
`GameStore` -> `DbManager` -> an SQL function in one transaction. `write_game`,
`join_game` and `unsubscribe` send a notification on a channel named after the
*opponent's* key. The server that listens to this channel puts the notification
on its queue; its one consumer reads the database again and calls back into
`GameStore`, which replaces the client's copy and sends it to the client. A game
against the computer has a client of the same kind on the other side: the game
server asks the AI server over HTTP to start one, it joins over a web socket, and
when it leaves, `GameStore.unsubscribe` decides whether to ask for another.

What makes each part correct: the rules keep stones, turns, phases and the
result consistent; the store keeps its redundant columns true to `managed_by`,
and a key belongs to one server at a time; what a player was told of stays in the
game and reaches the other player, as does every chat message; a player sees
whether the opponent is there; a connected client is the only one that plays its
key and hears its updates, and no key stays taken when its client is gone; an AI
player plays its turns while its opponent is there, and leaves when not.

`PROJECT.json` lists the hazards behind these, each at its line.

## 2. Modules

| Module | Models | Composed with |
|---|---|---|
| `GoBoard` | the board and its pure functions: groups, liberties, captures, territory | extended by `Game`, `Placement` |
| `Game` | `Game.take_action`, one action per `ActionType` (and per request type for the answers) | `MCGame` |
| `Placement` | `_place_stone_base` and `_gather`, loop by loop | `MCPlacement` |
| `KeyLease` | abstract: a key is a lease | refined by `GameDb` and `Sessions` |
| `GameDb` | the tables `game` and `player_key` under the SQL functions | `MCGameDb` |
| `GameLog` | abstract: an append-only list of actions, some acknowledged | refined by `GameCopies` |
| `GameCopies` | one game: its row, the two copies, writes, notifications, faults | |
| `Updates` | one player's queue of updates, its chat thread and opponent status | |
| `Sessions` | one server's maps and listeners while clients come and go and its listener connection is replaced | `MCSessions` (symmetry) |
| `AiPlayer` | the AI client and its policy, its server's part, and a human who comes and goes | |
| `GoBoard_proofs` | what the board's functions return; no placement on a point leaves a group without liberties | extended by the next two |
| `Game_proofs`, `Placement_proofs`, `GameDb_proofs`, `GameCopies_proofs`, `Updates_proofs`, `Sessions_proofs`, `AiPlayer_proofs` | the TLAPS proofs about the module of that name | |

Definitions marked `mutant` are not part of the models: they state a plausible
bug in the definition that follows them, and are used to make sure that each
property can fail.

### Rules: `GoBoard`, `Game`, `Placement`

State and names are those of the class. An action that the code refuses, with
`(False, message)` or an assertion before anything has changed, is a stuttering
step, so the guards are the code's assertions and early returns together. The
action stack is kept as far as rules or properties read it: its length, the type
of the last action, how many stones each player placed and how many passes there
were. Scores are doubled so that a komi with a half point is an integer.
`_prev_board` is `NoBoard` before the first placement; it is untouched by passes,
requests and removals, as in the code.

The coordinates of an action are the client's. Nothing between the message and the
board compares them with the size (`messages.py:97-104`, `game_manager.py:345`,
`game.py:431`, `529`), so the actions take every coordinate that has a point in
Python (`Coordinate`): `At` counts a subscript below zero from the far end of the
board, while `Adjacencies`, like `_adjacencies`, takes the numbers as they are and
finds other neighbours than those of the point. Coordinates further out raise an
`IndexError` before anything has changed. `Gathered` is what `_gather` finds when it
is called at such a coordinate. Two actions then raise half-way, and have actions of
their own: `MarkDeadHalf`, when `_mark_dead` gets to a point that is marked already
(`game.py:535`), and `AnswerRaises`, when `count_and_clear` meets a stone of another
colour (`game.py:566`). Properties that need coordinates on the board say so, with
the variable `in_bounds`; `torn` says that something was left half done, and
`last_placement` what the last placement did. These three are read by the properties
only.

`Group` is defined as the least closed set and `Captured` as one union. The code
computes them with a stack and a loop that removes each dead group before it
looks at the next neighbour. `Placement` has these loops as they are, with the
iteration order of Python sets (and so the order of the stack) left open;
`GatherFindsGroup` and `PlacesByTheRules` are what entitles `Game` to use the
expressions. It starts from every board and every coordinate, whether or not a game
leads there.

### Store: `KeyLease`, `GameDb`

One action per function or procedure, each one transaction. Calls that return
`dne`, `in_use`, `ai_only`, `false` or null, or that raise, change nothing. The
`unsubscribe` inside `join_game` and `new_game` is part of their actions.
`do_cleanup` loops over the keys of the restarted server; the loop is folded into
the number of keys per game. A write needs a timestamp that is set: with a null
one `time_played` would become null, which `tables.sql` refuses. The game servers
are the values of `Manager`; any of them may call anything at any time, which is
more than the Python code does, so the results hold for it.

### Actions: `GameLog`, `GameCopies`

`TakeAction`, then `StoreGame` or `PreemptGame` or `FailWrite`, then
`AnswerSuccess` or `AnswerFailure` are the pieces of `GameStore.route_message`
between its awaits; `FetchStatus` and `DeliverStatus` are those of
`_game_status_consumer`. A game is its action stack; of the rules the model keeps
who may act when (moves on one's turn, resigning in play, a request and its
answer), without the endgame. Faults: the database fails before or after the
commit of a write, the listener connection is lost with any part of the
notifications, a read of the consumer fails, a server restarts and its player
joins again. They are steps bounded by `MaxFaults` and chosen by `Faults`.
The two players' servers are modelled as separate, so one fault hits one player.

### Updates: `Updates`

One player; the opponent is the environment that joins, leaves and writes. The
queue has what `listener_callback` puts on it, once for each set of listeners the
key has (a failed join leaves one behind). `Fetch` and `Deliver` are the two sides
of the await in `_chat_consumer` and `_opponent_connected_consumer`. A chat
message is its id, which `InsertChat` draws before `CommitChat` announces it, so
that messages of the two authors may be announced out of order. The player joins
in the steps of `join_game` (subscribe, commit, register, trigger), so updates
meet it half joined. Faults: a failed commit of a join or of a message, a failed
trigger, a failed read of the consumer, a lost listener connection, a restart of
this server, and `do_cleanup` of the opponent's. A read that fails
(`db_manager.py:542-546`, `569-572`) has taken its notice off the queue and ends the
consumer, which nothing but a restart of the server brings back: `FailFetch` when it
read for this player, `FailOtherFetch` when it read a game's status or something for
another key of the server. What is put on a queue that nobody reads any more is left
out. `game_status` updates are in `GameCopies`. `InOrder` says which sequence
`ORDER BY id` returns, without naming a way to sort.

### Sessions: `Sessions`

The steps of `join_game`, `new_game` and `unsubscribe` from one await to the next.
A join is `select` (the SQL function, which then holds its row locks; `insert`
for a new game), `subscribe`, `commit`, `drop`/`remove` (leaving the old key) and
`register`. Work under `_listener_lock` is one step: only code under the lock
looks at the listeners; `_reconnect_listener` alone takes a step per key, and
whoever needs the lock waits meanwhile. `heard` has the keys that the present
connection listens on, `_listening_channels` what it ought to. Keys in `created`
at the start belong to earlier games; a key of a new game is fresh. `ImplementsLease`
says of this view of the table what `GameDb` says of its own, where each call is
one step: a key that was found free stays so while its joiner subscribes, and is
taken by it only.
`CloseWhileJoining` and `JoinWhileLeaving` say whether two overlaps may happen
that the code does not handle; other servers appear as `JoinElsewhere` and
`LeaveElsewhere`.

### AI player: `AiPlayer`

`Client._message_consumer` is `ReadStatus`, `ReadConnected`, `ReadError` and
`Resend`; `RandomPolicy.play` is `Choices`; `start_ai_player` with a previous
subscription is `DisconnectedTooEarly`. The server's side of the same session is
`AiJoins`, `Consume`, the three `Handle...` actions of `route_message` and
`AiUnsubscribed`, each one step, since what goes on inside is in the other
modules. A game is what the two sides decide by: its version, status, turn,
request, whether the last action was a pass, and whether `legal_moves`, as the
*client* computes it, has a point that is legal, a point that only looks legal
because `_prev_board` was not sent, both, or none. A ko follows a placement of the
human only, since it takes an opponent's placement to have a position to restore.

## 3. Runs

| Run | Question | Bounds and why they are enough |
|---|---|---|
| `game_rules` | do whole games keep stones, turns, requests, phases, ko and result consistent? | 3x3 board, the smallest with a ko, opened by six placements after which one can be taken; then any 7 actions: the ko fight (`KoIsRetaking`), two passes, a request, an answer, resumed play. Coordinates are the points and one below zero, <<1, -1>>, which names <<1, 2>> and is next to <<1, 0>>: enough to mark two groups at once, of one colour or of both, to place without the suicide test, and to be left half-way. 17 987 states. |
| `placement` | do the loops compute groups and captures, in any order, and end? | every 3x3 board up to symmetry; corner, edge and centre, and one colour, stand for all, and <<-1, 0>>, <<-1, 1>>, <<-1, -1>> for the coordinates below zero (next to a corner, to an edge point, to none); previous position none, or the one that makes a capture a ko. 636 011 states. |
| `game_db` | do counter, timestamp and `managed_by` agree, and are keys leases? | 2 games (to leave one for the other), 2 servers, 2 versions. 3 067 states up to symmetry. |
| `game_copies` | with patient clients and one fault of any kind, is the game a log that only grows, legal, and does it reach the other player, also when nothing more is on its way (`QuietCopiesComplete`)? | 3 actions, 2 notifications per player, 1 fault: enough for both players to write the same version and for a third action on whatever copy is left. 45 098 states. |
| `updates` | does a player end up with every message and the right opponent status, whatever came when, while the update consumer is there? | 2 messages (for a reversed order), 2 notices on the queue beside those of a trigger, 1 fault of seven kinds. 256 013 states. |
| `sessions` | without the two overlaps, do maps, listeners, the connection and `managed_by` agree, and are keys leases across the awaits? | 3 sockets on 2 keys: two compete and one key is left; any number of lost connections, restarts and failures. 315 025 states up to symmetry. |
| `ai_player` | does the AI player leave, come back, and act, and has it when nothing is on its way (`RestsInOrder`)? | 3 actions of the human (a pass, a second pass after one of the AI player's, a request in the endgame), 1 return of the human, 1 fault of any kind. 351 898 states; 2 faults with 2 actions (310 202) were checked too. |
| `copies_lost`, `copies_consumer`, `sessions_rejoin`, `sessions_orphan`, `ai_ko` | the findings, each with the smallest instance that shows it | see section 4 |

Deadlock is checked where the system never stops (`game_db`, `updates`,
`sessions`); games end, placements return, a human may stay away, and the bounds of
`game_copies` stop it.

**Fairness.** `GameCopies` assumes weak fairness of the steps that the event loop
and the database owe: a write that was sent is executed, its answer is handled, a
notification on the queue is consumed and delivered. `Updates` assumes it of the
consumer while there is one (a task that is either at its queue or at a read, until
a read fails and ends it, which disables `Fetch`) and of the reconnection, which
loops until it has a connection. `MessagesArrive` excepts an ended consumer. `AiPlayer` assumes it of
everything but the human and the faults: both start loops retry until they
succeed, the client's loop reads whenever there is something to read, the server
handles what it received and its consumer goes on. None assumes that players act,
nor that any fault happens or stops. `Placement` assumes that a running function
goes on. Everything else is safety.

**Assumptions of the passing runs.** `game_copies`: clients wait for a game status
after a failed action. `sessions`: comings and goings do not overlap on a key or a
socket. `ai_player`: the consumer has worked off the queue when the AI player
joins or is unsubscribed (`PromptUpdates`). Without the last, `AiComesBack` fails:
the human leaves and comes back while the client is about to read that the
opponent is gone; the client that the return started is refused because the key is
in use, the old one leaves, and the flag by which `start_ai_player` decides still
says that the human is away. `AiComesBack` also excepts that a join of the AI
player raised (its client ends by the assertion at `websocket_client.py:122` and
nobody starts another) or that a write of it failed, after which the copy is ahead
of the store and may say `complete` of a game that is not. Actions that were
refused as ko, or not written, are excepted from `AiActs`.

## 4. Findings

1. `copies_lost`: after a preempted write the copy keeps the action that was not
   stored (`game_manager.py:347-361`). If the player acts again before the update
   arrives, the write has the version the store expects and overwrites the
   opponent's action, which was answered as a success.
2. `copies_consumer`: a failed read ends the update consumer
   (`db_manager.py:484`, `520-523`), and reconnecting the listener no longer
   brings clients up to date.
3. `sessions_rejoin`: between the commit of `unsubscribe` and the removal of the
   listeners, another client of the server can join the key, and loses its
   listeners and its entry in `_player_keys` (`db_manager.py:691-696`,
   `game_manager.py:399-400`).
4. `sessions_orphan`: a client that disconnects while its join is being handled
   is registered after it is gone (`connection_manager.py:107-111`,
   `game_manager.py:293-297`; the trace has `new_game`, and `join_game` awaits and
   registers in the same order), and its key stays in use until the server restarts.
5. `ai_ko`: the client's copy of the game has no previous board
   (`game.py:889`), so the random policy may retake a ko; the server refuses, the
   client ignores the refusal (`websocket_client.py:150-156`), and nothing makes it
   choose again.

Seen while modelling, without a run of their own:

- Coordinates are not checked. One below zero places a stone whose neighbours are
  not looked at, so that a group without a liberty may stand on the board, and marks
  stones of several groups, or some stones before the assertion at `game.py:535`
  fails; they then stay marked in the endgame. The `RuntimeError` of
  `count_and_clear` of which its message says that it should never happen
  (`game.py:565-569`) can be reached this way. The properties that need coordinates
  on the board have `in_bounds` as a premise.
- After stones were removed by agreement, `_prev_board` is still the position
  before the last placement. A placement that is no ko may be refused when it leads
  back there, and one that is a retake is not when the removal made a difference;
  `KoIsRetaking` holds until then.
- A failed read of chat rows or of the opponent's status loses its notice and ends
  the consumer, as in finding 2: no update reaches any client of that server until
  it restarts (`FailFetch`).
- The update consumer reads a row before an await and puts it in place after it
  (`db_manager.py:512-526`), so it can undo the player's own stored action in the
  copy until the next update; `StoredGameLegal` shows that the store is safe.
- Chat threads in memory may hold messages twice or out of order (a notice and a
  triggered update overlap; ids are drawn before messages are committed), which
  `ChatThread.append` forbids its callers (`chat.py:102-109`). Nothing is missing:
  `ChatComplete`.
- `do_cleanup` tells nobody that players are gone (`procedures.sql:25`).
- A trigger that raises while the listener reconnects leaves the remaining keys
  without listeners on a connection that is up (`db_manager.py:259-267`).
- In the endgame the random policy places stones on its turn, gets an error, and
  sends the same again every two seconds (`random.py:24`,
  `websocket_client.py:197-207`).

## 5. Proofs

For every value of the constants, checked by `tlapm`. All invariants, action
properties and refinements of the passing runs are theorems. Each inductive
invariant was first checked by TLC on the instance of the module's run.

Assumptions on the constants: `Size \in Nat \ {0}` and the types of komi and
bounds; `Free \notin Manager` in `GameDb`; `None` is no socket, key or manager in
`Sessions`, no game and no action in `AiPlayer`; `Faults` is a set of the named faults; in `GameCopies` the queue holds
at least one notice (`MaxNotices \in Nat \ {0}`). Where a theorem needs more, that
is an `ASSUME` in its statement, listed below.

**`GoBoard_proofs`.** `Group(b, p)` is the least closed set around `p`
(`GroupClosed`, `GroupLeast`), so two groups are equal or apart (`GroupSame`).
Removing whole groups leaves every other group as it was, with at least its
liberties (`GroupSurvives`). After a placement on a point that is not suicide every
group has a liberty (`PlacingIsSafe`): if one lost its last liberty to the new stone it
is the opponent's and captured, or the player's and part of the new group.

**`Game_proofs`.** The invariant is the conjunction of `TypeOK`,
`RequestsConsistent`, `TurnsAlternate` and `StonesConserved`. Requests are needed
for the stones: an accepted `mark_dead` request credits all marked stones to the
opponent of one of them, which is right because they are of one colour.
`PlacingCounts` and `RemoveCounts` count stones on the board. From it:
`TypeCorrect`, `RequestsAreConsistent`, `TurnsDoAlternate`, `StonesAreConserved`,
and the action properties `GamesEndByAgreement` and `PhasesAreInOrder`. They hold of
every coordinate: what a coordinate below zero breaks is said in the properties.
Marked stones may then be of both colours or stay marked (`RequestsAreConsistent`
says until when they are not), and an exception of `count_and_clear` takes stones off
the board that nobody is credited with, so stones may be lost and are never counted
twice (`StonesAreConserved`; `SurplusKept`). With points for coordinates nothing is
ever left half done.
`GroupsKeepLiberties` follows from `PlacingIsSafe` and, for an accepted
`mark_dead`, from the marked stones being whole groups; both need coordinates that
are points. `OnlyKoIsRefused` says what the comparison with `_prev_board` comes to:
of the placements that are no suicide it refuses the immediate retaking of a ko and
no other. `PrevIsUndone`, inductive beside the invariant, says that the remembered
position is the board with the last placement undone, also after passes, requests
and answers; a placement puts down one stone and takes only the opponent's, so it
leads back there exactly if it takes the stone last put down, alone, on the one
point where that stone captured (`LeadsBack`).
`ResultIsConsistent` is inductive beside the invariant
too: only the two ends of a game set the result, and a tally counts the territory
it is the score of.

**`Placement_proofs`.** The invariant says how far each loop has got. `Gathering`:
the points gathered are of one group, the neighbours of those off the stack are
in, and `alive` tells whether those have a liberty; when the stack is empty the
set is closed, so it is the group, or `Gathered` at the new stone's coordinates
(`GatheredClosed`, `GatheredLeast`), and that is `GatherIsRight`. `Removing`: the stones taken
off are whole captured groups, counted by `captured`, and contain those of the
neighbours that were visited. That the loop removes one group before it looks at
the next does no harm: a group that is taken off gives no liberty to another one
of its colour (`NoNewLiberty`). From it: `LoopsFollowTheRules`. It holds of every
board and every coordinate. That the loops end is a bound, `StepsLeft`, on the steps that are left: with n
points on the board, each neighbour left to visit costs n + 2 steps at most, a
call of `_gather` one for each point that is not off its stack. `LoopsEnd`: every
step makes it smaller. What remains to TLC is that there is a step until the code
returns (`Returns`).

**`GameDb_proofs`.** The invariant is `Types /\ Counts /\ Loaded /\ CreatedFirst`.
The counter and the timestamp are inductive only together, because a call decides
from the counter whether to clear the timestamp, and the counter stays within 0..2
only because every decrement meets a managed key. `CreatedFirst` (no key of a game
that was not created is managed) is needed for `new_game`. From it: `TypeCorrect`,
`CountersCorrect`, `TimestampCorrect`, `LeaseAndVersions` and the refinement
`LeaseImplemented`.

**`GameCopies_proofs`.** `TypeCorrect` holds of all clients. The rest is under
`PatientClients`, which `copies_lost` shows to be necessary. The invariant `LogInv`
compares action stacks: what was read, and each copy that is not being written,
is a beginning of the stored stack (`ReadsStored`, `CopiesStored`); a stack being
written is such a beginning and one action that is legal after it (`WritesLegal`);
what was written with success is a beginning (`WrittenStored`). A compare and set
that finds the length it expects has therefore found the very stack its author
saw. From it: `NoActionLost`, `StoredGameIsLegal`, and step by step the
refinement `CopiesImplementLog`. `StoredActionsReachCopies` adds where a stored
action that a copy lacks still is: in a notice for its server, or in a stack that
was read and is not delivered yet. A notice may stand for several actions, and one
that is lost is made up for by the update triggered after the reconnection.

**`Updates_proofs`.** No hypotheses: any number of messages, notices and faults of
the seven kinds. The invariant says where what the player lacks still is. Every
committed message is in the thread, in what the consumer has read, or announced
on the queue (`ChatComing`). For the flag only the last notice counts, and an empty
queue leaves it to what was read (`WordComing`); between a change and its
notification nothing is claimed. Both speak of a player that is in the game with a
connection that is up and a consumer that runs, so joining, reconnecting and the
first join after a restart must establish them anew, from the triggered updates. A
read that failed ends the consumer, so the theorems claim nothing after it; that
the loss goes no further than that is part of what is proved. From it: `TypeCorrect`, `ChatIsComplete`,
`ConnectedFlagIsRight`.

**`Sessions_proofs`.** The constants that allow the two overlaps and the fault of a
lost reply are the hypotheses, each theorem under those it needs; TLC finds a
counterexample when one is dropped.

| Theorem | no join of a key whose player is leaving | no close while joining | no lost reply to a commit |
|---|---|---|---|
| `TypeCorrect`, `LeaseImplemented` | | | |
| `ManagedKeysAreHeard` | needed | | |
| `GoneSocketsForgotten` | | needed | |
| `ClientsAreServed`, `NoKeyOrphaned` | needed | needed | needed |

`RowsInv`: two joins never hold the row of one key (`LocksExclude`), a row stays
as its holder's SELECT found it (`LockedColumns`), and a key of a game not
committed yet is in one coroutine only (`FreshKeysApart`). So a commit takes a key
that is still free, gives up one that this server still manages, and the table is
a lease whatever overlaps (`LeaseImplemented`). `ListenInv`: nobody takes a key whose listeners are
about to be removed (`GivenUpNotTaken`), and every key that is managed, or about to
be by a commit, is listened for and heard or about to be resubscribed
(`ManagedSubscribed`). `MapsInv`: what a coroutine read of `_clients` before an await
is true after it, because a socket does one thing at a time. `ServeInv`: clients,
`_player_keys` and `managed_by` agree, where a committed join counts for the client
it will be. One lemma per action and invariant.

**`AiPlayer_proofs`.** Any number of versions, joins, notices and faults. The
invariant says where what the AI player does not know yet still is: that its
opponent left, in the last word on its server's queue or in its inbox
(`LeavingComing`, `FlagComing`); the game its server's copy lacks, in a notice
(`CopyComing`); an action that it owes, in a notice, in a game in its inbox, or in
its outbox, unless it was lost (`ActionComing`). `Known` says what may be in the
queues at all, without which a repeated message might be none. From it, without
hypotheses: `TypeCorrect` and `LeavesAndActsAtRest`. An AI player that its opponent
waits for is connected or being started (`Started`) only if the queue is worked off
before it is unsubscribed: `NothingOverlooked` has the hypothesis `PromptUpdates`, as
the run has (section 3).

Only model-checked: liveness, which the proof system does not treat under
fairness. Each such property has its safety half among the theorems, which says
that what should happen has happened when nothing is left to do.

| Liveness, by TLC | Safety half, proved |
|---|---|
| `Returns` | `LoopsEnd` |
| `StoredActionsArrive` | `StoredActionsReachCopies` |
| `MessagesArrive` | `ChatIsComplete` |
| `AiLeaves`, `AiActs` | `LeavesAndActsAtRest` |
| `AiComesBack` | `NothingOverlooked` |

## 6. Not modelled

Timestamps (they can only make `take_action` refuse), `time_played`, message texts,
the JSON of messages and containers, the origin check and application set-up, the
row locks on table `game` (two clients that cross between two games deadlock there,
and PostgreSQL aborts one: a join that raises), the xsrf exchange with the AI
server. An AI client that lost its connection connects again without joining and
is refused whatever it sends; it is taken as gone. The MCTS policy is unfinished
and not used; the performance runner is not part of the service.

## 7. Plan

1. (done) Rules, store, actions through the copies, sessions; proofs about rules
   and store.
2. (done) `new_game` and listener reconnection in `Sessions`; `Updates`;
   `AiPlayer`; whole games with ko.
3. (done) Proofs: the sessions, the updates, the copies with their refinement of
   `GameLog`, the loops of `_place_stone_base`, liberties, ko and result.
4. (done) Proofs: the AI player, the safety halves of the liveness properties, the
   lease across the awaits of `Sessions`, the end of the loops.
5. Left: an order on what is in a chat thread, once the code keeps one; the row locks
   of table `game`.
